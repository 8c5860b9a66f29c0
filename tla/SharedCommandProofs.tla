------------------------- MODULE SharedCommandProofs -------------------------
(***************************************************************************)
(* Theorems about SharedCommand, for every set of processes, and every     *)
(* choice of what they write and ask for.                                  *)
(***************************************************************************)
EXTENDS SharedCommand, TLAPS

\* What a step of t leaves alone of the others.
LEMMA OthersWait ==
  ASSUME TypeOK, NEW t \in Task, Step(t), NEW u \in Task, u # t
  PROVE  pc'[u] = pc[u] /\ id'[u] = id[u] /\ out'[u] = out[u]
BY DEF TypeOK, Step, Goto, shared, cs614sys_set, StoreCurid, demo_read, LoadCurid,
   FormatFirst, FormatLast, CopyFirst, CopyLast, CopyFails, Return

LEMMA InitTypes == Init => TypeOK
BY DEF Init, TypeOK, Command, PID, NVCSW, Unread

LEMMA NextTypes == TypeOK /\ [Next]_vars => TypeOK'
<1>. SUFFICES ASSUME TypeOK, [Next]_vars PROVE TypeOK'
  OBVIOUS
<1>1. CASE UNCHANGED vars
  BY <1>1 DEF vars, shared, TypeOK
<1>2. CASE Next
  <2>1. PICK t \in Task : Step(t) /\ Record
    BY <1>2 DEF Next
  <2>2. overlapped' \in [Task -> BOOLEAN]
    BY <2>1 DEF Record
  <2>3. PID \in Command /\ \A c \in Command : getans(c, t) \in Answer
    BY DEF PID, NVCSW, Command, getans, Answer
  <2>. DEFINE Rest == /\ curid' \in Command
                      /\ d_buf' \in [Piece -> Answer \cup {None}]
                      /\ pc' \in [Task -> {"idle", "store", "stored", "load", "first", "last",
                                           "copy_first", "copy_last", "return"}]
                      /\ id' \in [Task -> Command]
                      /\ out' \in [Task -> [{"len"} \cup Piece -> Answer \cup {None}]]
  <2>4. Rest
    <3>. USE <2>3 DEF TypeOK, Goto, shared, Piece
    <3>1. CASE \E newval \in Input : cs614sys_set(t, newval)
      BY <3>1 DEF cs614sys_set
    <3>2. CASE StoreCurid(t)
      BY <3>2 DEF StoreCurid
    <3>3. CASE \E length \in Length : demo_read(t, length)
      BY <3>3 DEF demo_read
    <3>4. CASE LoadCurid(t)
      BY <3>4 DEF LoadCurid
    <3>5. CASE FormatFirst(t)
      BY <3>5 DEF FormatFirst
    <3>6. CASE FormatLast(t)
      BY <3>6 DEF FormatLast
    <3>7. CASE CopyFirst(t)
      BY <3>7 DEF CopyFirst
    <3>8. CASE CopyLast(t)
      BY <3>8 DEF CopyLast
    <3>9. CASE CopyFails(t)
      BY <3>9 DEF CopyFails, Unread
    <3>10. CASE Return(t)
      BY <3>10 DEF Return, Unread
    <3>. QED
      BY <2>1, <3>1, <3>2, <3>3, <3>4, <3>5, <3>6, <3>7, <3>8, <3>9, <3>10 DEF Step
  <2>5. since' \in [Task -> SUBSET Answer]
    <3>1. Formatted \subseteq Answer
      <4>. SUFFICES ASSUME NEW p \in Piece, d_buf'[p] # d_buf[p] PROVE d_buf'[p] \in Answer
        BY DEF Formatted
      <4>1. CASE FormatFirst(t)
        BY <2>3, <4>1 DEF FormatFirst, TypeOK
      <4>2. CASE FormatLast(t)
        BY <2>3, <4>2 DEF FormatLast, TypeOK
      <4>3. CASE UNCHANGED d_buf
        BY <4>3
      <4>. QED
        BY <2>1, <4>1, <4>2, <4>3 DEF Step, shared, cs614sys_set, StoreCurid, demo_read,
           LoadCurid, CopyFirst, CopyLast, CopyFails, Return
    <3>2. \A u \in Task : since[u] \cup Formatted \subseteq Answer
      BY <3>1 DEF TypeOK
    <3>. QED
      BY <2>1, <3>2 DEF Record
  <2>. QED
    BY <2>2, <2>4, <2>5 DEF TypeOK
<1>. QED
  BY <1>1, <1>2

\* Every variable keeps its type.
THEOREM SharedTypeOK == Spec => []TypeOK
BY InitTypes, NextTypes, PTL DEF Spec

-----------------------------------------------------------------------------
(***************************************************************************)
(* What a read in progress has made of the buffer, and copied from it,     *)
(* lies in the set S.                                                      *)
(***************************************************************************)
Pieces(t, S) ==
  /\ pc[t] \in {"last", "copy_first", "copy_last"} => d_buf["first"] \in S
  /\ pc[t] \in {"copy_first", "copy_last"} => d_buf["last"] \in S
  /\ pc[t] = "copy_last" \/ Returned(t) => out[t]["first"] \in S
  /\ Returned(t) => out[t]["last"] \in S

FreshInv == \A t \in Task : Pieces(t, since[t] \cup {getans(id[t], t)})

LEMMA InitFresh == Init => FreshInv
BY DEF Init, FreshInv, Pieces, Returned

LEMMA FreshOwnStep ==
  ASSUME TypeOK, NEW t \in Task, Pieces(t, since[t] \cup {getans(id[t], t)}), Step(t), Record
  PROVE  Pieces(t, since[t] \cup {getans(id[t], t)})'
<1>1. pc'[t] \in {"last", "copy_first", "copy_last", "return"} => since[t] \subseteq since'[t]
  BY DEF Record, Reading
<1>. USE <1>1 DEF TypeOK, Goto, shared, Piece, Pieces, Returned
<1>2. CASE \E newval \in Input : cs614sys_set(t, newval)
  BY <1>2 DEF cs614sys_set
<1>3. CASE StoreCurid(t)
  BY <1>3 DEF StoreCurid
<1>4. CASE \E length \in Length : demo_read(t, length)
  BY <1>4 DEF demo_read
<1>5. CASE LoadCurid(t)
  BY <1>5 DEF LoadCurid
<1>6. CASE FormatFirst(t)
  BY <1>6 DEF FormatFirst
<1>7. CASE FormatLast(t)
  BY <1>7 DEF FormatLast
<1>8. CASE CopyFirst(t)
  BY <1>8 DEF CopyFirst
<1>9. CASE CopyLast(t)
  BY <1>9 DEF CopyLast
<1>10. CASE CopyFails(t)
  BY <1>10 DEF CopyFails, Unread
<1>11. CASE Return(t)
  BY <1>11 DEF Return
<1>. QED
  BY <1>2, <1>3, <1>4, <1>5, <1>6, <1>7, <1>8, <1>9, <1>10, <1>11 DEF Step

\* What another task writes into the buffer is formatted during the read.
LEMMA FreshOtherStep ==
  ASSUME TypeOK, NEW t \in Task, NEW u \in Task, u # t,
         Pieces(u, since[u] \cup {getans(id[u], u)}), Step(t), Record
  PROVE  Pieces(u, since[u] \cup {getans(id[u], u)})'
<1>1. pc'[u] = pc[u] /\ id'[u] = id[u] /\ out'[u] = out[u]
  BY OthersWait
<1>2. \A p \in Piece : d_buf'[p] = d_buf[p] \/ d_buf'[p] \in Formatted
  BY DEF Formatted
<1>3. pc[u] \in {"last", "copy_first", "copy_last", "return"} =>
        since'[u] = since[u] \cup Formatted
  BY <1>1 DEF Record, Reading
<1>. QED
  BY <1>1, <1>2, <1>3 DEF Pieces, Returned, Piece

LEMMA NextFresh == TypeOK /\ FreshInv /\ [Next]_vars => FreshInv'
<1>. SUFFICES ASSUME TypeOK, FreshInv, [Next]_vars PROVE FreshInv'
  OBVIOUS
<1>1. CASE UNCHANGED vars
  BY <1>1 DEF vars, shared, FreshInv, Pieces, Returned
<1>2. CASE Next
  <2>1. PICK t \in Task : Step(t) /\ Record
    BY <1>2 DEF Next
  <2>2. ASSUME NEW u \in Task PROVE Pieces(u, since[u] \cup {getans(id[u], u)})'
    BY <2>1, FreshOwnStep, FreshOtherStep DEF FreshInv
  <2>. QED
    BY <2>2 DEF FreshInv
<1>. QED
  BY <1>1, <1>2

\* However the processes overlap, no read returns a byte that was formatted
\* before it began.
THEOREM SharedFreshAnswers == Spec => []FreshAnswers
<1>1. FreshInv => FreshAnswers
  BY DEF FreshInv, FreshAnswers, Pieces, Returned, Piece
<1>. QED
  BY <1>1, InitTypes, NextTypes, InitFresh, NextFresh, PTL DEF Spec

-----------------------------------------------------------------------------
(***************************************************************************)
(* As long as no other read overlaps a read, the buffer is its own.        *)
(***************************************************************************)
Whole(t) ==
  /\ Pieces(t, {getans(id[t], t)})
  /\ pc[t] \in {"copy_first", "copy_last"} \/ Returned(t) => out[t]["len"] = getans(id[t], t)

WholeInv == \A t \in Task : ~ overlapped[t] => Whole(t)

LEMMA InitWhole == Init => WholeInv
BY DEF Init, WholeInv, Whole, Pieces, Returned

LEMMA WholeOwnStep ==
  ASSUME TypeOK, NEW t \in Task, Whole(t), Step(t)
  PROVE  Whole(t)'
<1>. USE DEF TypeOK, Goto, shared, Piece, Whole, Pieces, Returned
<1>2. CASE \E newval \in Input : cs614sys_set(t, newval)
  BY <1>2 DEF cs614sys_set
<1>3. CASE StoreCurid(t)
  BY <1>3 DEF StoreCurid
<1>4. CASE \E length \in Length : demo_read(t, length)
  BY <1>4 DEF demo_read
<1>5. CASE LoadCurid(t)
  BY <1>5 DEF LoadCurid
<1>6. CASE FormatFirst(t)
  BY <1>6 DEF FormatFirst
<1>7. CASE FormatLast(t)
  BY <1>7 DEF FormatLast
<1>8. CASE CopyFirst(t)
  BY <1>8 DEF CopyFirst
<1>9. CASE CopyLast(t)
  BY <1>9 DEF CopyLast
<1>10. CASE CopyFails(t)
  BY <1>10 DEF CopyFails, Unread
<1>11. CASE Return(t)
  BY <1>11 DEF Return
<1>. QED
  BY <1>2, <1>3, <1>4, <1>5, <1>6, <1>7, <1>8, <1>9, <1>10, <1>11 DEF Step

\* A task that is not reading leaves the buffer alone.
LEMMA OnlyReadersFormat ==
  ASSUME TypeOK, NEW t \in Task, Step(t), t \notin Reading'
  PROVE  UNCHANGED d_buf
<1>. USE DEF TypeOK, Goto, Reading, shared
<1>1. ~ FormatFirst(t)
  BY DEF FormatFirst
<1>2. ~ FormatLast(t)
  BY DEF FormatLast
<1>. QED
  BY <1>1, <1>2 DEF Step, cs614sys_set, StoreCurid, demo_read, LoadCurid, CopyFirst,
     CopyLast, CopyFails, Return

LEMMA NextWhole == TypeOK /\ WholeInv /\ [Next]_vars => WholeInv'
<1>. SUFFICES ASSUME TypeOK, WholeInv, [Next]_vars PROVE WholeInv'
  OBVIOUS
<1>1. CASE UNCHANGED vars
  BY <1>1 DEF vars, shared, WholeInv, Whole, Pieces, Returned
<1>2. CASE Next
  <2>1. PICK t \in Task : Step(t) /\ Record
    BY <1>2 DEF Next
  <2>2. ASSUME NEW u \in Task, ~ overlapped'[u] PROVE Whole(u)'
    <3>1. CASE u \notin Reading'
      BY <3>1 DEF Reading, Whole, Pieces, Returned
    <3>2. CASE u \in Reading'
      <4>1. ~ overlapped[u] /\ Reading' = {u}
        BY <2>1, <2>2, <3>2 DEF Record, TypeOK
      <4>2. Whole(u)
        BY <4>1 DEF WholeInv
      <4>3. CASE u = t
        BY <2>1, <4>2, <4>3, WholeOwnStep
      <4>4. CASE u # t
        <5>1. pc'[u] = pc[u] /\ id'[u] = id[u] /\ out'[u] = out[u]
          BY <2>1, <4>4, OthersWait
        <5>2. UNCHANGED d_buf
          BY <2>1, <4>1, <4>4, OnlyReadersFormat
        <5>. QED
          BY <4>2, <5>1, <5>2 DEF Whole, Pieces, Returned
      <4>. QED
        BY <4>3, <4>4
    <3>. QED
      BY <3>1, <3>2
  <2>. QED
    BY <2>2 DEF WholeInv
<1>. QED
  BY <1>1, <1>2

\* A read that overlaps no other read returns the whole answer about its own
\* process, whatever the others write into the sysfs file meanwhile.
THEOREM SharedUndisturbedReads == Spec => []UndisturbedReads
<1>1. TypeOK /\ WholeInv => UndisturbedReads
  <2>. SUFFICES ASSUME TypeOK, WholeInv, NEW t \in Task, Returned(t), ~ overlapped[t]
                PROVE  out[t] = [p \in DOMAIN Unread |-> getans(id[t], t)]
    BY DEF UndisturbedReads
  <2>1. \A p \in {"len"} \cup Piece : out[t][p] = getans(id[t], t)
    BY DEF WholeInv, Whole, Pieces, Piece
  <2>2. out[t] \in [{"len"} \cup Piece -> Answer \cup {None}]
    BY DEF TypeOK
  <2>. QED
    BY <2>1, <2>2 DEF Unread
<1>. QED
  BY <1>1, InitTypes, NextTypes, InitWhole, NextWhole, PTL DEF Spec

-----------------------------------------------------------------------------
(***************************************************************************)
(* The refinement.                                                         *)
(***************************************************************************)
LEMMA OneGroup == Store!Group = {"everybody"}
BY SharedAssumption DEF Store!Group

LEMMA InitRefines == Init => Store!Init
BY OneGroup DEF Init, Store!Init, Store!Idle, CallOf

Calls == [t \in Task |-> CallOf(t)]
Cmd == [g \in {"everybody"} |-> curid]

\* The calls as the store sees them.
LEMMA CallIs ==
  ASSUME NEW t \in Task
  PROVE  /\ pc[t] = "idle" => Calls[t] = <<"idle", PID>>
         /\ pc[t] = "store" => Calls[t] = <<"set", id[t]>>
         /\ pc[t] = "load" => Calls[t] = <<"read", PID>>
         /\ pc[t] \notin {"idle", "store", "load"} => Calls[t] = <<"done", id[t]>>
BY DEF Calls, CallOf

LEMMA CallIsNext ==
  ASSUME NEW t \in Task
  PROVE  /\ pc'[t] = "idle" => CallOf(t)' = <<"idle", PID>>
         /\ pc'[t] = "store" => CallOf(t)' = <<"set", id'[t]>>
         /\ pc'[t] = "load" => CallOf(t)' = <<"read", PID>>
         /\ pc'[t] \notin {"idle", "store", "load"} => CallOf(t)' = <<"done", id'[t]>>
BY DEF CallOf

\* A step of t changes the call of t only.
LEMMA CallsNext ==
  ASSUME TypeOK, NEW t \in Task, Step(t)
  PROVE  Calls' = [Calls EXCEPT ![t] = CallOf(t)']
<1>1. \A u \in Task : u # t => CallOf(u)' = CallOf(u)
  BY OthersWait DEF CallOf
<1>. QED
  BY <1>1 DEF Calls

LEMMA StepRefines ==
  ASSUME TypeOK, NEW t \in Task, Step(t)
  PROVE  Store!Next \/ UNCHANGED Store!vars
<1>. DEFINE mapped == Store!Next \/ UNCHANGED Store!vars
<1>. SUFFICES mapped
  OBVIOUS
<1>0. [u \in Task |-> "everybody"][t] = "everybody"
  OBVIOUS
<1>1. /\ Store!StartSet(t, id'[t]) <=> /\ Calls[t] = <<"idle", PID>>
                                       /\ Calls' = [Calls EXCEPT ![t] = <<"set", id'[t]>>]
                                       /\ Cmd' = Cmd
      /\ Store!StartRead(t) <=> /\ Calls[t] = <<"idle", PID>>
                                /\ Calls' = [Calls EXCEPT ![t] = <<"read", PID>>]
                                /\ Cmd' = Cmd
      /\ Store!Return(t) <=> /\ Calls[t][1] = "done"
                             /\ Calls' = [Calls EXCEPT ![t] = <<"idle", PID>>]
                             /\ Cmd' = Cmd
  BY DEF Store!StartSet, Store!StartRead, Store!Return, Store!Idle, Calls, Cmd
<1>2. ASSUME Calls[t][1] = "set", Cmd' = [Cmd EXCEPT !["everybody"] = Calls[t][2]],
             Calls' = [Calls EXCEPT ![t] = <<"done", Calls[t][2]>>]
      PROVE  Store!TakeSet(t)
  <2>1. Cmd' = [Cmd EXCEPT ![[u \in Task |-> "everybody"][t]] = Calls[t][2]]
    BY <1>0, <1>2
  <2>. QED
    BY <1>2, <2>1 DEF Store!TakeSet, Calls, Cmd
<1>3. ASSUME Calls[t][1] = "read", Cmd' = Cmd,
             Calls' = [Calls EXCEPT ![t] = <<"done", Cmd["everybody"]>>]
      PROVE  Store!TakeRead(t)
  <2>1. Calls' = [Calls EXCEPT ![t] = <<"done", Cmd[[u \in Task |-> "everybody"][t]]>>]
    BY <1>0, <1>3
  <2>. QED
    BY <1>3, <2>1 DEF Store!TakeRead, Calls, Cmd
<1>4. Calls' = Calls /\ Cmd' = Cmd => UNCHANGED Store!vars
  BY DEF Store!vars, Calls, Cmd
<1>5. /\ \A c \in Command : Store!StartSet(t, c) => mapped
      /\ Store!StartRead(t) \/ Store!Return(t) \/ Store!TakeSet(t) \/ Store!TakeRead(t) => mapped
  BY DEF Store!Next
<1>6. UNCHANGED curid => Cmd' = Cmd
  BY DEF Cmd
<1>. HIDE DEF mapped
<1>. USE CallIs, CallIsNext, CallsNext DEF TypeOK, Goto, shared
<1>7. CASE \E newval \in Input : cs614sys_set(t, newval)
  <2>1. PICK newval \in Input : cs614sys_set(t, newval)
    BY <1>7
  <2>2. id'[t] \in Command /\ pc[t] = "idle" /\ pc'[t] = "store" /\ UNCHANGED curid
    BY <2>1 DEF cs614sys_set
  <2>. QED
    BY <1>1, <1>5, <1>6, <2>2
<1>8. CASE StoreCurid(t)
  <2>1. /\ pc[t] = "store" /\ pc'[t] = "stored" /\ id'[t] = id[t] /\ curid' = id[t]
    BY <1>8 DEF StoreCurid
  <2>2. Cmd' = [Cmd EXCEPT !["everybody"] = id[t]]
    BY <2>1 DEF Cmd
  <2>3. Calls[t] = <<"set", id[t]>> /\ CallOf(t)' = <<"done", id[t]>>
    BY <2>1
  <2>4. Calls[t][1] = "set" /\ Calls[t][2] = id[t]
    BY <2>3
  <2>5. Calls' = [Calls EXCEPT ![t] = <<"done", Calls[t][2]>>]
    BY <2>3, <2>4
  <2>. QED
    BY <1>2, <1>5, <2>2, <2>4, <2>5
<1>9. CASE \E length \in Length : demo_read(t, length)
  <2>1. pc[t] = "idle" /\ pc'[t] = "load" /\ UNCHANGED curid
    BY <1>9 DEF demo_read
  <2>. QED
    BY <1>1, <1>5, <1>6, <2>1
<1>10. CASE LoadCurid(t)
  <2>1. /\ pc[t] = "load" /\ pc'[t] = "first" /\ id'[t] = curid /\ UNCHANGED curid
    BY <1>10 DEF LoadCurid
  <2>2. Cmd["everybody"] = curid
    BY DEF Cmd
  <2>3. Calls[t] = <<"read", PID>> /\ CallOf(t)' = <<"done", Cmd["everybody"]>>
    BY <2>1, <2>2
  <2>4. Calls[t][1] = "read"
    BY <2>3
  <2>. QED
    BY <1>3, <1>5, <1>6, <2>1, <2>3, <2>4
<1>11. CASE FormatFirst(t) \/ FormatLast(t) \/ CopyFirst(t) \/ CopyLast(t) \/ CopyFails(t)
  <2>1. /\ pc[t] \notin {"idle", "store", "load"} /\ pc'[t] \notin {"idle", "store", "load"}
        /\ id'[t] = id[t] /\ UNCHANGED curid
    BY <1>11 DEF FormatFirst, FormatLast, CopyFirst, CopyLast, CopyFails
  <2>2. CallOf(t)' = Calls[t]
    BY <2>1
  <2>3. Calls' = Calls
    BY <2>2 DEF Calls
  <2>. QED
    BY <1>4, <1>6, <2>1, <2>3 DEF mapped
<1>12. CASE Return(t)
  <2>1. pc[t] \in {"stored", "return"} /\ pc'[t] = "idle" /\ UNCHANGED curid
    BY <1>12 DEF Return
  <2>2. Calls[t] = <<"done", id[t]>> /\ CallOf(t)' = <<"idle", PID>>
    BY <2>1
  <2>3. Calls[t][1] = "done"
    BY <2>2
  <2>. QED
    BY <1>1, <1>5, <1>6, <2>1, <2>2, <2>3
<1>. QED
  BY <1>7, <1>8, <1>9, <1>10, <1>11, <1>12 DEF Step

LEMMA NextRefines == TypeOK /\ [Next]_vars => [Store!Next]_(Store!vars)
<1>1. ASSUME UNCHANGED vars PROVE UNCHANGED Store!vars
  <2>1. UNCHANGED <<curid, pc, id>>
    BY <1>1 DEF vars, shared
  <2>2. \A t \in Task : CallOf(t)' = CallOf(t)
    BY <2>1 DEF CallOf
  <2>. QED
    BY <2>1, <2>2 DEF Store!vars
<1>. QED
  BY <1>1, StepRefines DEF Next

\* The driver is one command that every process sets and reads atomically.
THEOREM SharedRefinesOneStore == Spec => RefinesOneStore
BY InitTypes, NextTypes, InitRefines, NextRefines, PTL DEF Spec, RefinesOneStore, Store!Spec
=============================================================================
