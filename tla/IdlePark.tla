------------------------------ MODULE IdlePark ------------------------------
(***************************************************************************)
(* Idle parking of the RoCE proxy thread: roce_park_* of _roce_idle_park.h *)
(* and the scheduler hooks of adapter/roce_idle_park.py.  The scheduler    *)
(* marks the engine idle, and clears the mark and wakes the proxy before   *)
(* any forward; the proxy blocks on the futex word gen in between.         *)
(*                                                                         *)
(* Every atomic access of the two threads is a step of its own.  Posting   *)
(* the operations of a doorbell is one step here (RoceOneShot has the      *)
(* detail), and the park clock is a choice: after_ms may or may not have   *)
(* passed when it is read.  The park statistics are left out.               *)
(***************************************************************************)
EXTENDS Integers

CONSTANTS
    MaxOps,     \* bound: doorbells rung
    MaxIdles,   \* bound: times the engine turns idle
    MayFail     \* whether the drain of a backstop poll may find an error

ASSUME IdleParkAssumption ==
    MaxOps \in Nat /\ MaxIdles \in Nat /\ MayFail \in BOOLEAN

Slots == 2   \* ROCE_SLOTS: doorbells that can be pending (RoceOneShot)

VARIABLES
    \* shared words
    allow, gen, after, running, seq,
    \* the scheduler thread
    engine, idles,
    \* the proxy thread
    pc, last_seq, since, g

words == <<allow, gen, after, running, seq>>
proxy == <<pc, last_seq, since, g>>
vars  == <<words, engine, idles, proxy>>

Init ==
    /\ allow = 0 /\ gen = 0 /\ after = 0 /\ running = 1 /\ seq = 0
    /\ engine = "busy" /\ idles = 0
    /\ pc = "poll" /\ last_seq = 0 /\ since = 0 /\ g = 0

-----------------------------------------------------------------------------
(* The scheduler thread. *)

\* park_configure, once the runtime is built; until then the proxy never parks.
Configure ==
    /\ engine = "busy" /\ after = 0
    /\ after' = 1
    /\ UNCHANGED <<allow, gen, running, seq, engine, idles, proxy>>

\* A kernel of the running forward rings the doorbell.
Ring ==
    /\ engine = "busy"
    /\ seq < MaxOps /\ seq - last_seq < Slots
    /\ seq' = seq + 1
    /\ UNCHANGED <<allow, gen, after, running, engine, idles, proxy>>

\* on_idle: _idle marks the engine idle, once per transition.
Idle ==
    /\ engine = "busy" /\ idles < MaxIdles
    /\ allow' = 1
    /\ idles' = idles + 1
    /\ engine' = "idle"
    /\ UNCHANGED <<gen, after, running, seq, proxy>>

\* run_batch or process_input_requests: _wake clears the mark ...
Wake ==
    /\ engine = "idle"
    /\ allow' = 0
    /\ engine' = "bump"
    /\ UNCHANGED <<gen, after, running, seq, idles, proxy>>

\* Mutant of Bump: the futex word is left alone.
BumpNothing ==
    /\ engine \in {"bump", "kick"}
    /\ engine' = IF engine = "bump" THEN "wake" ELSE "kicked"
    /\ UNCHANGED <<words, idles, proxy>>

\* ... bumps gen (so does the kick of roce_stop) ...
Bump ==
    /\ engine \in {"bump", "kick"}
    /\ gen' = gen + 1
    /\ engine' = IF engine = "bump" THEN "wake" ELSE "kicked"
    /\ UNCHANGED <<allow, after, running, seq, idles, proxy>>

\* ... and wakes the proxy if it sleeps on gen.
FutexWake ==
    /\ engine \in {"wake", "kicked"}
    /\ pc' = IF pc = "asleep" THEN "loop" ELSE pc
    /\ engine' = IF engine = "wake" THEN "busy" ELSE "join"
    /\ UNCHANGED <<words, idles, last_seq, since, g>>

\* Mutant of Stop: the parked proxy is not kicked.
StopWithoutKick ==
    /\ engine \in {"busy", "idle"}
    /\ running' = 0
    /\ engine' = "join"
    /\ UNCHANGED <<allow, gen, after, seq, idles, proxy>>

\* roce_stop: clear running, kick, join.
Stop ==
    /\ engine \in {"busy", "idle"}
    /\ running' = 0
    /\ engine' = "kick"
    /\ UNCHANGED <<allow, gen, after, seq, idles, proxy>>

Join ==
    /\ engine = "join" /\ pc = "exit"
    /\ engine' = "joined"
    /\ UNCHANGED <<words, idles, proxy>>

-----------------------------------------------------------------------------
(* The proxy thread: proxy_main's polls. *)

\* Mutant of Post: the catch-up loop runs once too often.
PostOneMore ==
    /\ pc = "poll" /\ running = 1 /\ seq # last_seq
    /\ last_seq' = seq + 1
    /\ since' = 0
    /\ UNCHANGED <<words, engine, idles, pc, g>>

\* A doorbell: post every missed operation; the quiet period starts again.
Post ==
    /\ pc = "poll" /\ running = 1 /\ seq # last_seq
    /\ last_seq' = seq
    /\ since' = 0
    /\ UNCHANGED <<words, engine, idles, pc, g>>

\* No doorbell, on a 64th poll: roce_park_due reads the mark and the clock.
ParkDue ==
    /\ pc = "poll" /\ running = 1 /\ seq = last_seq
    /\ \/ /\ since' = IF allow = 0 \/ after = 0 THEN 0 ELSE 1
          /\ UNCHANGED pc
       \/ /\ allow = 1 /\ after = 1 /\ since = 1
          /\ pc' = "loop"
          /\ UNCHANGED since
    /\ UNCHANGED <<words, engine, idles, last_seq, g>>

Exit ==
    /\ pc = "poll" /\ running = 0
    /\ pc' = "exit"
    /\ UNCHANGED <<words, engine, idles, last_seq, since, g>>

-----------------------------------------------------------------------------
(* roce_park_block. *)

\* The loop reads gen before it looks at allow, the doorbell and running.
ReadGen ==
    /\ pc = "loop"
    /\ g' = gen
    /\ pc' = "allow"
    /\ UNCHANGED <<words, engine, idles, last_seq, since>>

LeavePark ==
    /\ pc' = "poll"
    /\ since' = 0
    /\ UNCHANGED <<words, engine, idles, last_seq, g>>

Continue(where) ==
    /\ pc' = where
    /\ UNCHANGED <<words, engine, idles, last_seq, since, g>>

CheckAllow ==
    /\ pc = "allow"
    /\ IF allow = 0 THEN LeavePark ELSE Continue("doorbell")

CheckDoorbell ==
    /\ pc = "doorbell"
    /\ IF seq # last_seq THEN LeavePark ELSE Continue("running")

CheckRunning ==
    /\ pc = "running"
    /\ IF running = 0 THEN LeavePark ELSE Continue("wait")

\* Mutant of FutexWait: the value is not compared.
FutexWaitBlind ==
    /\ pc = "wait"
    /\ Continue("asleep")

\* FUTEX_WAIT: sleep only if gen still is what was read.
FutexWait ==
    /\ pc = "wait"
    /\ Continue(IF gen = g THEN "asleep" ELSE "loop")

\* The backstop: poll_ms passed, or a signal; the tick drains the queues.
Backstop ==
    /\ pc = "asleep"
    /\ Continue("loop")

TickFails ==
    /\ MayFail /\ pc = "asleep"
    /\ Continue("exit")

Engine == Configure \/ Ring \/ Idle \/ Wake \/ Bump \/ FutexWake \/ Stop \/ Join

Poll == Post \/ ParkDue \/ Exit

Park ==
    ReadGen \/ CheckAllow \/ CheckDoorbell \/ CheckRunning \/ FutexWait

Next == Engine \/ Poll \/ Park \/ Backstop \/ TickFails

Spec == Init /\ [][Next]_vars

\* The proxy runs and a wake that was begun is finished.  Nothing is assumed
\* of the backstop: a wake must do without it.
FairSpec ==
    /\ Spec
    /\ WF_vars(Post) /\ WF_vars(Exit) /\ WF_vars(Park)
    /\ WF_vars(Bump) /\ WF_vars(FutexWake)

-----------------------------------------------------------------------------
(* Properties. *)

ParkPC == {"loop", "allow", "doorbell", "running", "wait", "asleep"}

\* Types; the proxy never posts an operation that was not rung, and never
\* trails by more than the two send slots.
TypeOK ==
    /\ allow \in {0, 1} /\ after \in {0, 1} /\ running \in {0, 1}
    /\ gen \in Nat /\ seq \in Nat /\ idles \in Nat
    /\ engine \in {"busy", "idle", "bump", "wake", "kick", "kicked", "join",
                   "joined"}
    /\ pc \in {"poll", "exit"} \cup ParkPC
    /\ last_seq \in Nat /\ last_seq <= seq /\ seq - last_seq <= Slots
    /\ since \in {0, 1} /\ g \in Nat

\* The engine is between its change of a word and the FUTEX_WAKE for it.
WakeOnItsWay == engine \in {"bump", "wake", "kick", "kicked"}

\* "No lost wakeup": the proxy sleeps only while the engine is idle, the proxy
\* is to run and no doorbell waits, or while a wake is on its way to it.
SleepsOnlyIdle ==
    pc = "asleep" =>
        WakeOnItsWay \/ (engine = "idle" /\ allow = 1 /\ running = 1 /\ seq = last_seq)

\* Every doorbell is posted unless the proxy is stopped or its drain fails, even
\* if the backstop never fires.
EveryDoorbellPosted ==
    seq # last_seq ~> (seq = last_seq \/ running = 0 \/ pc = "exit")

\* roce_stop returns although the proxy was parked.
StopReturns == running = 0 ~> pc = "exit"

\* The inductive invariant: what the proxy has already checked still holds for
\* as long as gen is what it read.
EngineInv ==
    /\ engine = "busy" => allow = 0 /\ running = 1
    /\ engine = "idle" => allow = 1 /\ running = 1
    /\ engine \in {"bump", "wake"} => allow = 0 /\ running = 1
    /\ engine \in {"kick", "kicked", "join", "joined"} => running = 0

ParkInv ==
    /\ g <= gen
    /\ pc \in {"doorbell", "running", "wait", "asleep"} /\ g = gen =>
          engine \in {"idle", "bump", "kick"}
             \/ (engine \in {"kicked", "join", "joined"} /\ pc \in {"doorbell", "running"})
    /\ pc \in {"running", "wait", "asleep"} /\ g = gen => seq = last_seq
    /\ pc = "asleep" /\ g # gen => engine \in {"wake", "kicked"}

IdleInv == TypeOK /\ EngineInv /\ ParkInv

=============================================================================
