---------------------------- MODULE CommandStore ----------------------------
(***************************************************************************)
(* What the character driver of A1 promises its callers, without any hash  *)
(* table, lock or buffer.  Every group of tasks (a process in A1/Part2, a  *)
(* thread group in A1/Part3) owns one command.  A write to                 *)
(* /sys/kernel/cs614_sysfs/cs614_value replaces the command of the         *)
(* writer's group, a read of /dev/cs614_device answers the command of the  *)
(* reader's group; each takes effect at one instant between its call and   *)
(* its return, whatever the other groups do.                               *)
(***************************************************************************)
CONSTANTS
  Task,      \* tasks that call into the driver
  GroupOf,   \* the group each task belongs to
  Command,   \* the commands the sysfs file accepts
  NoCommand  \* the group has not written any command yet

Group == {GroupOf[t] : t \in Task}

VARIABLES
  cmd,   \* cmd[g]: the command last set by group g
  call   \* call[t]: the call task t is in, <<phase, command>>

vars == <<cmd, call>>

Idle == <<"idle", NoCommand>>

Init ==
  /\ cmd = [g \in Group |-> NoCommand]
  /\ call = [t \in Task |-> Idle]

StartSet(t, c) ==
  /\ call[t] = Idle
  /\ call' = [call EXCEPT ![t] = <<"set", c>>]
  /\ cmd' = cmd

TakeSet(t) ==
  /\ call[t][1] = "set"
  /\ cmd' = [cmd EXCEPT ![GroupOf[t]] = call[t][2]]
  /\ call' = [call EXCEPT ![t] = <<"done", call[t][2]>>]

StartRead(t) ==
  /\ call[t] = Idle
  /\ call' = [call EXCEPT ![t] = <<"read", NoCommand>>]
  /\ cmd' = cmd

TakeRead(t) ==
  /\ call[t][1] = "read"
  /\ call' = [call EXCEPT ![t] = <<"done", cmd[GroupOf[t]]>>]
  /\ cmd' = cmd

Return(t) ==
  /\ call[t][1] = "done"
  /\ call' = [call EXCEPT ![t] = Idle]
  /\ cmd' = cmd

Next == \E t \in Task :
  \/ \E c \in Command : StartSet(t, c)
  \/ TakeSet(t)
  \/ StartRead(t)
  \/ TakeRead(t)
  \/ Return(t)

Spec == Init /\ [][Next]_vars
=============================================================================
