---------------------------- MODULE SharedCommand ---------------------------
(***************************************************************************)
(* The driver of A1/Part1/driver.c: one command, curid, and one buffer,    *)
(* d_buf, for every process, without any lock.  Each action is one access  *)
(* to a word or to a part of the buffer that another task may be using.    *)
(***************************************************************************)
EXTENDS Naturals

CONSTANTS
  Task,     \* tasks that call into the driver
  Input,    \* integers that user space writes into the sysfs file
  Length,   \* lengths user space passes to read()
  None      \* nothing was read, or written, yet

ASSUME SharedAssumption == Task # {}

PID == 0
NVCSW == 4
Command == PID .. NVCSW

VARIABLES
  curid,       \* the command written last
  d_buf,       \* the first and the last bytes of the buffer
  pc,          \* pc[t]: where task t is
  id,          \* id[t]: newval of cs614sys_set, id of resolve
  out,         \* out[t]: what t's read has given to user space
  overlapped,  \* history: another read ran while t's was running
  since        \* history: since[t], what was formatted during t's read

shared == <<curid, d_buf>>
vars == <<shared, pc, id, out, overlapped, since>>

Answer == [id : Command, by : Task]

\* resolve answers about current.
getans(c, t) == [id |-> c, by |-> t]

Piece == {"first", "last"}
Unread == [p \in {"len"} \cup Piece |-> None]

Init ==
  /\ curid = PID
  /\ d_buf = [p \in Piece |-> None]
  /\ pc = [t \in Task |-> "idle"]
  /\ id = [t \in Task |-> PID]
  /\ out = [t \in Task |-> Unread]
  /\ overlapped = [t \in Task |-> FALSE]
  /\ since = [t \in Task |-> {}]

Goto(t, here, there) ==
  /\ pc[t] = here
  /\ pc' = [pc EXCEPT ![t] = there]

-----------------------------------------------------------------------------
\* Mutant: negative numbers and those above NVCSW are let through.
cs614sys_setUnchecked(t, newval) ==
  /\ Goto(t, "idle", "store")
  /\ id' = [id EXCEPT ![t] = newval]
  /\ UNCHANGED <<shared, out>>

\* A value out of range returns -EINVAL and changes nothing.
cs614sys_set(t, newval) ==
  /\ newval \in Command
  /\ Goto(t, "idle", "store")
  /\ id' = [id EXCEPT ![t] = newval]
  /\ UNCHANGED <<shared, out>>

\* Mutant: the value is stored in two bits.
StoreCuridMasked(t) ==
  /\ Goto(t, "store", "stored")
  /\ curid' = id[t] % 4
  /\ UNCHANGED <<d_buf, id, out>>

StoreCurid(t) ==
  /\ Goto(t, "store", "stored")
  /\ curid' = id[t]
  /\ UNCHANGED <<d_buf, id, out>>

\* More than 16 bytes return -EINVAL.
demo_read(t, length) ==
  /\ length <= 16
  /\ Goto(t, "idle", "load")
  /\ UNCHANGED <<shared, id, out>>

LoadCurid(t) ==
  /\ Goto(t, "load", "first")
  /\ id' = [id EXCEPT ![t] = curid]
  /\ UNCHANGED <<shared, out>>

\* Mutant: the answer of the previous read is used when there is one.
FormatFirstCached(t) ==
  /\ Goto(t, "first", "last")
  /\ d_buf' = IF d_buf["first"] = None
              THEN [d_buf EXCEPT !["first"] = getans(id[t], t)] ELSE d_buf
  /\ UNCHANGED <<curid, id, out>>

\* Mutant: the command is loaded a second time to choose the field.
FormatFirstReload(t) ==
  /\ Goto(t, "first", "last")
  /\ d_buf' = [d_buf EXCEPT !["first"] = getans(curid, t)]
  /\ UNCHANGED <<curid, id, out>>

\* sprintf writes the buffer byte after byte, and returns its length.
FormatFirst(t) ==
  /\ Goto(t, "first", "last")
  /\ d_buf' = [d_buf EXCEPT !["first"] = getans(id[t], t)]
  /\ UNCHANGED <<curid, id, out>>

FormatLast(t) ==
  /\ Goto(t, "last", "copy_first")
  /\ d_buf' = [d_buf EXCEPT !["last"] = getans(id[t], t)]
  /\ out' = [out EXCEPT ![t]["len"] = getans(id[t], t)]
  /\ UNCHANGED <<curid, id>>

CopyFirst(t) ==
  /\ Goto(t, "copy_first", "copy_last")
  /\ out' = [out EXCEPT ![t]["first"] = d_buf["first"]]
  /\ UNCHANGED <<shared, id>>

CopyLast(t) ==
  /\ Goto(t, "copy_last", "return")
  /\ out' = [out EXCEPT ![t]["last"] = d_buf["last"]]
  /\ UNCHANGED <<shared, id>>

\* copy_to_user fails: -EINVAL.
CopyFails(t) ==
  /\ pc[t] \in {"copy_first", "copy_last"}
  /\ Goto(t, pc[t], "return")
  /\ out' = [out EXCEPT ![t] = Unread]
  /\ UNCHANGED <<shared, id>>

Return(t) ==
  /\ pc[t] \in {"stored", "return"}
  /\ Goto(t, pc[t], "idle")
  /\ id' = [id EXCEPT ![t] = PID]
  /\ out' = [out EXCEPT ![t] = Unread]
  /\ UNCHANGED shared

Step(t) ==
  \/ \E newval \in Input : cs614sys_set(t, newval)
  \/ StoreCurid(t)
  \/ \E length \in Length : demo_read(t, length)
  \/ LoadCurid(t) \/ FormatFirst(t) \/ FormatLast(t)
  \/ CopyFirst(t) \/ CopyLast(t) \/ CopyFails(t)
  \/ Return(t)

Reading == {t \in Task : pc[t] \notin {"idle", "store", "stored"}}

Formatted == {d_buf'[p] : p \in {q \in Piece : d_buf'[q] # d_buf[q]}}

\* The histories: each is empty outside a read.
Record ==
  /\ overlapped' = [t \in Task |-> t \in Reading' /\ (overlapped[t] \/ Reading' # {t})]
  /\ since' = [t \in Task |-> IF t \in Reading' THEN since[t] \cup Formatted ELSE {}]

Next == \E t \in Task : Step(t) /\ Record

Spec == Init /\ [][Next]_vars

-----------------------------------------------------------------------------
(***************************************************************************)
(* Properties.                                                             *)
(***************************************************************************)
TypeOK ==
  /\ curid \in Command
  /\ d_buf \in [Piece -> Answer \cup {None}]
  /\ pc \in [Task -> {"idle", "store", "stored", "load", "first", "last",
                      "copy_first", "copy_last", "return"}]
  /\ id \in [Task -> Command]
  /\ out \in [Task -> [{"len"} \cup Piece -> Answer \cup {None}]]
  /\ overlapped \in [Task -> BOOLEAN]
  /\ since \in [Task -> SUBSET Answer]

Returned(t) == pc[t] = "return" /\ out[t]["last"] # None

\* However the processes overlap, each byte a read returns was formatted
\* while the read was running: never an answer that was left in d_buf.
FreshAnswers == \A t \in Task : Returned(t) =>
  {out[t][p] : p \in Piece} \subseteq since[t] \cup {getans(id[t], t)}

\* A read that overlaps no other read returns the whole answer about its own
\* process to the command it has loaded, whatever commands are written
\* meanwhile.
UndisturbedReads == \A t \in Task :
  Returned(t) /\ ~ overlapped[t] => out[t] = [p \in DOMAIN Unread |-> getans(id[t], t)]

CallOf(t) ==
  CASE pc[t] = "idle"   -> <<"idle", PID>>
    [] pc[t] = "store"  -> <<"set", id[t]>>
    [] pc[t] = "load"   -> <<"read", PID>>
    [] OTHER            -> <<"done", id[t]>>

Store == INSTANCE CommandStore WITH
  GroupOf   <- [t \in Task |-> "everybody"],
  NoCommand <- PID,
  cmd       <- [g \in {"everybody"} |-> curid],
  call      <- [t \in Task |-> CallOf(t)]

\* The driver is the store of A1/Part2 and A1/Part3 with every process in one
\* group: each set and each read takes effect at one instant of the call, and
\* before the first set the command is PID.
RefinesOneStore == Store!Spec
=============================================================================
