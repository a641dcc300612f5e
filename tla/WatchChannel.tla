---------------------------- MODULE WatchChannel ----------------------------
(***************************************************************************)
(* The channel that hands jobs to the mining threads (src/src/watch.rs), a *)
(* step per access to its shared state: the value behind a read-write      *)
(* lock, its id, the flag that the sender lives, and the mutex with the    *)
(* condition variable on which receivers sleep.                            *)
(*                                                                         *)
(* Data: a value is its version, 1 for the one the channel is made with.   *)
(* A receiver is a mining thread, which either polls (get_changed) or has  *)
(* nothing to do and waits (wait_for_change), and ends when it is told     *)
(* that the channel is closed.                                             *)
(***************************************************************************)
EXTENDS Integers, FiniteSets

CONSTANTS
    Receivers,
    Nobody,      \* the mutex is free
    Spurious,    \* whether the condition variable may wake for no reason
    MaxSends     \* bound: values sent after the first

ASSUME WatchAssumption ==
    /\ IsFiniteSet(Receivers)
    /\ Nobody \notin Receivers
    /\ Spurious \in BOOLEAN
    /\ MaxSends \in Nat

VARIABLES
    value,     \* version of the value behind the lock
    id,
    alive,     \* sender_alive
    mutex,     \* holder of wait_for_change
    sender,    \* where the sender stands; "written" holds the write lock
    stage,     \* where each receiver stands
    call,      \* the function each receiver is in
    last,      \* last_observed
    handed     \* version of the value each receiver was last handed

shared == <<value, id, alive>>
channelVars == <<shared, mutex, sender, stage, call, last, handed>>

Live == {r \in Receivers : stage[r] # "gone"}
Asleep == {r \in Receivers : stage[r] = "asleep"}

\* r returns or goes on; a guard it holds is dropped on the way out.
Move(r, to) == stage' = [stage EXCEPT ![r] = to]
Release(r) == mutex' = IF mutex = r THEN Nobody ELSE mutex

-----------------------------------------------------------------------------
(* The sender *)

\* send: an error when no receiver is left.
SendValue ==
    /\ sender = "idle"
    /\ value <= MaxSends
    /\ Live # {}
    /\ sender' = "send"
    /\ UNCHANGED <<shared, mutex, stage, call, last, handed>>

\* replace_value: the value, under the write lock ...
ReplaceValue ==
    /\ sender = "send"
    /\ value' = value + 1
    /\ sender' = "written"
    /\ UNCHANGED <<id, alive, mutex, stage, call, last, handed>>

\* ... and its id, before the lock is dropped.
IncrementId ==
    /\ sender = "written"
    /\ id' = id + 1
    /\ sender' = "notify"
    /\ UNCHANGED <<value, alive, mutex, stage, call, last, handed>>

\* The sender is dropped: the flag first.
DropSender ==
    /\ sender = "idle"
    /\ alive' = FALSE
    /\ sender' = "drop"
    /\ UNCHANGED <<value, id, mutex, stage, call, last, handed>>

\* Faulty variant: a dropped sender wakes nobody.

WakeUpOnSend ==
    /\ sender \in {"notify", "drop"}
    /\ mutex = Nobody
    /\ stage' = [r \in Receivers |->
                    IF stage[r] = "asleep" /\ sender = "notify" THEN "relock" ELSE stage[r]]
    /\ sender' = IF sender = "notify" THEN "idle" ELSE "gone"
    /\ UNCHANGED <<shared, mutex, call, last, handed>>

\* wake_up_threads: with the mutex, so that nobody is between the check and the sleep.
WakeUpThreads ==
    /\ sender \in {"notify", "drop"}
    /\ mutex = Nobody
    /\ stage' = [r \in Receivers |-> IF stage[r] = "asleep" THEN "relock" ELSE stage[r]]
    /\ sender' = IF sender = "notify" THEN "idle" ELSE "gone"
    /\ UNCHANGED <<shared, mutex, call, last, handed>>

-----------------------------------------------------------------------------
(* A receiver.  get_changed_internal is three steps: the flag, the id, and *)
(* the value.                                                              *)

Call(r, f) ==
    /\ stage[r] = "idle"
    /\ call' = [call EXCEPT ![r] = f]
    /\ Move(r, "check")
    /\ UNCHANGED <<shared, mutex, sender, last, handed>>

CheckAlive(r) ==
    /\ stage[r] = "check"
    /\ IF alive THEN Move(r, "compare") /\ UNCHANGED mutex
                ELSE Move(r, "gone") /\ Release(r)
    /\ UNCHANGED <<shared, sender, call, last, handed>>

\* Faulty variant: no second check once the mutex is held.
CompareIdOnce(r) ==
    /\ stage[r] = "compare"
    /\ IF last[r] # id
       THEN last' = [last EXCEPT ![r] = id] /\ Move(r, "clone") /\ UNCHANGED mutex
       ELSE /\ Move(r, IF call[r] = "get_changed" THEN "idle" ELSE "asleep")
            /\ UNCHANGED <<last, mutex>>
    /\ UNCHANGED <<shared, sender, call, handed>>

\* With nothing new, get_changed returns None and wait_for_change goes on: first to
\* the mutex, and, once it holds it, to sleep.
CompareId(r) ==
    /\ stage[r] = "compare"
    /\ \/ last[r] # id /\ last' = [last EXCEPT ![r] = id] /\ Move(r, "clone") /\ UNCHANGED mutex
       \/ last[r] = id /\ call[r] = "get_changed" /\ Move(r, "idle") /\ UNCHANGED <<last, mutex>>
       \/ last[r] = id /\ call[r] # "get_changed" /\ mutex # r /\ Move(r, "lock")
            /\ UNCHANGED <<last, mutex>>
       \/ last[r] = id /\ call[r] # "get_changed" /\ mutex = r /\ Move(r, "asleep")
            /\ mutex' = Nobody /\ UNCHANGED last
    /\ UNCHANGED <<shared, sender, call, handed>>

\* Faulty variant: the version that belongs to the id, not the one behind the lock.
CloneById(r) ==
    /\ stage[r] = "clone" /\ sender # "written"
    /\ handed' = [handed EXCEPT ![r] = last[r]]
    /\ Move(r, "idle") /\ Release(r)
    /\ UNCHANGED <<shared, sender, call, last>>

CloneValue(r) ==
    /\ stage[r] = "clone" /\ sender # "written"
    /\ handed' = [handed EXCEPT ![r] = value]
    /\ Move(r, "idle") /\ Release(r)
    /\ UNCHANGED <<shared, sender, call, last>>

Lock(r) ==
    /\ stage[r] = "lock" /\ mutex = Nobody
    /\ mutex' = r
    /\ Move(r, "check")
    /\ UNCHANGED <<shared, sender, call, last, handed>>

\* The wait returns with the mutex taken again; nothing is checked but the flag.
WakeSpuriously(r) ==
    /\ Spurious
    /\ stage[r] = "asleep"
    /\ Move(r, "relock")
    /\ UNCHANGED <<shared, mutex, sender, call, last, handed>>

Relock(r) ==
    /\ stage[r] = "relock" /\ mutex = Nobody
    /\ mutex' = r
    /\ Move(r, "recheck")
    /\ UNCHANGED <<shared, sender, call, last, handed>>

RecheckAlive(r) ==
    /\ stage[r] = "recheck"
    /\ IF alive THEN Move(r, "reload") /\ UNCHANGED mutex
                ELSE Move(r, "gone") /\ Release(r)
    /\ UNCHANGED <<shared, sender, call, last, handed>>

LoadId(r) ==
    /\ stage[r] = "reload"
    /\ last' = [last EXCEPT ![r] = id]
    /\ Move(r, "clone")
    /\ UNCHANGED <<shared, mutex, sender, call, handed>>

\* A mining thread may end for a reason of its own; its receiver is dropped.
Leave(r) ==
    /\ stage[r] = "idle"
    /\ Move(r, "gone")
    /\ UNCHANGED <<shared, mutex, sender, call, last, handed>>

-----------------------------------------------------------------------------

ChannelInit ==
    /\ value = 1 /\ id = 1 /\ alive = TRUE
    /\ mutex = Nobody
    /\ sender = "idle"
    /\ stage = [r \in Receivers |-> "idle"]
    /\ call = [r \in Receivers |-> "get_changed"]
    /\ last = [r \in Receivers |-> 0]
    /\ handed = [r \in Receivers |-> 0]

SenderStep == ReplaceValue \/ IncrementId \/ WakeUpThreads

\* What a thread does once it is in a call, the two acquisitions apart.
InCall(r) ==
    \/ CheckAlive(r)
    \/ CompareId(r)
    \/ CloneValue(r)
    \/ RecheckAlive(r)
    \/ LoadId(r)

ChannelNext ==
    \/ SendValue
    \/ DropSender
    \/ SenderStep
    \/ \E r \in Receivers :
          \/ \E f \in {"get_changed", "wait_for_change"} : Call(r, f)
          \/ InCall(r)
          \/ Lock(r)
          \/ Relock(r)
          \/ WakeSpuriously(r)
          \/ Leave(r)

ChannelSpec == ChannelInit /\ [][ChannelNext]_channelVars

\* A thread that is running keeps running, and a mining thread keeps calling:
\* between two calls it tries a bounded number of nonces.  The mutex is fair in the
\* end to those who ask for it, as parking_lot's is.
FairChannelSpec ==
    /\ ChannelSpec
    /\ SF_channelVars(WakeUpThreads)
    /\ WF_channelVars(ReplaceValue \/ IncrementId)
    /\ \A r \in Receivers :
          /\ WF_channelVars(\E f \in {"get_changed", "wait_for_change"} : Call(r, f))
          /\ WF_channelVars(CheckAlive(r) \/ CompareId(r) \/ RecheckAlive(r) \/ LoadId(r))
          /\ SF_channelVars(CloneValue(r))
          /\ SF_channelVars(Lock(r) \/ Relock(r))

-----------------------------------------------------------------------------
(* Properties *)

Stage == {"idle", "check", "compare", "clone", "lock", "asleep", "relock", "recheck", "reload",
          "gone"}

\* The shape of the state; the id follows the value and never gets ahead of it.
ChannelShape ==
    /\ value \in 1..(MaxSends + 1)
    /\ id = IF sender = "written" THEN value - 1 ELSE value
    /\ alive = (sender \notin {"drop", "gone"})
    /\ mutex \in Receivers \cup {Nobody}
    /\ sender \in {"idle", "send", "written", "notify", "drop", "gone"}
    /\ stage \in [Receivers -> Stage]
    /\ call \in [Receivers -> {"get_changed", "wait_for_change"}]
    /\ last \in [Receivers -> 0..(MaxSends + 1)]
    /\ handed \in [Receivers -> 0..(MaxSends + 1)]

\* The id a receiver remembers is never newer than the value it holds.  If it were,
\* the next poll would find nothing new, and the thread would go on with a job that
\* has been replaced until another one came.
NeverBehindItsId == \A r \in Receivers : stage[r] # "clone" => last[r] <= handed[r]

\* A thread sleeps only with nothing to miss: it has seen the last id of a live
\* sender, or the sender is on its way to wake it.
NoLostWakeup ==
    \A r \in Asleep : (last[r] = id /\ alive) \/ sender \in {"notify", "drop"}

\* The channel is a register of the latest value.
Register == INSTANCE LatestValue WITH latest <- value, seen <- handed, open <- alive
ChannelIsRegister == Register!Spec

\* A dropped sender ends every thread, a sleeping one too.
DropEndsAll == ~alive ~> Live = {}
=============================================================================
