--------------------------- MODULE IdleParkProofs ---------------------------
(***************************************************************************)
(* Proofs about IdlePark, for any number of doorbells and idle periods.    *)
(*                                                                         *)
(* SleepsOnlyIdle is not inductive by itself: it rests on what the proxy   *)
(* has checked since it read gen (ParkInv), which stays true for as long   *)
(* as gen is unchanged because the engine changes allow and running before *)
(* it bumps gen, and rings only when it is busy (EngineInv).               *)
(***************************************************************************)
EXTENDS IdlePark, TLAPS

\* The initial state satisfies the invariant.
LEMMA IdleInit == Init => IdleInv
  BY DEF Init, IdleInv, TypeOK, EngineInv, ParkInv, ParkPC, Slots

\* The scheduler's steps preserve the invariant.
LEMMA EngineStep == ASSUME IdleInv, Engine PROVE IdleInv'
<1> USE DEF IdleInv, TypeOK, EngineInv, ParkInv, ParkPC, Slots, words, proxy
<1>1. CASE Configure  BY <1>1 DEF Configure
<1>2. CASE Ring       BY <1>2 DEF Ring
<1>3. CASE Idle       BY <1>3 DEF Idle
<1>4. CASE Wake       BY <1>4 DEF Wake
<1>5. CASE Bump       BY <1>5 DEF Bump
<1>6. CASE FutexWake  BY <1>6 DEF FutexWake
<1>7. CASE Stop       BY <1>7 DEF Stop
<1>8. CASE Join       BY <1>8 DEF Join
<1> QED BY <1>1, <1>2, <1>3, <1>4, <1>5, <1>6, <1>7, <1>8 DEF Engine

\* The proxy's polls preserve the invariant.
LEMMA PollStep == ASSUME IdleInv, Poll PROVE IdleInv'
<1> USE DEF IdleInv, TypeOK, EngineInv, ParkInv, ParkPC, Slots, words, proxy
<1>1. CASE Post     BY <1>1 DEF Post
<1>2. CASE ParkDue  BY <1>2 DEF ParkDue
<1>3. CASE Exit     BY <1>3 DEF Exit
<1> QED BY <1>1, <1>2, <1>3 DEF Poll

\* The steps of roce_park_block preserve the invariant.
LEMMA ParkStep ==
    ASSUME IdleInv, Park \/ Backstop \/ TickFails PROVE IdleInv'
<1> USE DEF IdleInv, TypeOK, EngineInv, ParkInv, ParkPC, Slots, words, proxy
<1>1. CASE ReadGen        BY <1>1 DEF ReadGen
<1>2. CASE CheckAllow     BY <1>2 DEF CheckAllow, LeavePark, Continue
<1>3. CASE CheckDoorbell  BY <1>3 DEF CheckDoorbell, LeavePark, Continue
<1>4. CASE CheckRunning   BY <1>4 DEF CheckRunning, LeavePark, Continue
<1>5. CASE FutexWait      BY <1>5 DEF FutexWait, Continue
<1>6. CASE Backstop       BY <1>6 DEF Backstop, Continue
<1>7. CASE TickFails     BY <1>7 DEF TickFails, Continue
<1> QED BY <1>1, <1>2, <1>3, <1>4, <1>5, <1>6, <1>7 DEF Park

\* Every step, and a stuttering step, preserves the invariant.
LEMMA IdleNext == IdleInv /\ [Next]_vars => IdleInv'
<1> SUFFICES ASSUME IdleInv, [Next]_vars PROVE IdleInv'
    OBVIOUS
<1>1. CASE UNCHANGED vars
    BY <1>1 DEF vars, words, proxy, IdleInv, TypeOK, EngineInv, ParkInv, ParkPC,
                Slots
<1> QED BY <1>1, EngineStep, PollStep, ParkStep DEF Next

\* The inductive invariant of the parking protocol holds in every reachable
\* state.
THEOREM IdleInvariant == Spec => []IdleInv
<1> QED BY IdleInit, IdleNext, PTL DEF Spec

\* The words keep their types and the proxy stays within the send slots.
THEOREM ParkTypes == Spec => []TypeOK
<1>1. IdleInv => TypeOK
    BY DEF IdleInv
<1> QED BY <1>1, IdleInvariant, PTL

\* No lost wakeup: whatever the interleaving of the scheduler's allow, wake,
\* ring and stop with the proxy's checks, the proxy sleeps only while the
\* engine is idle and nothing waits, or a wake is on its way.
THEOREM NoLostWakeup == Spec => []SleepsOnlyIdle
<1>1. IdleInv => SleepsOnlyIdle
    BY DEF IdleInv, TypeOK, EngineInv, ParkInv, ParkPC, SleepsOnlyIdle, WakeOnItsWay
<1> QED BY <1>1, IdleInvariant, PTL

=============================================================================
