----------------------------- MODULE ThreadProofs -----------------------------
(***************************************************************************)
(* Theorems about ThreadLifecycle, for any number of threads and whatever  *)
(* their guest code does: a termination is final, a stop that was asked    *)
(* for is honoured within a block, a thread that runs has its object, and  *)
(* nothing that shutdown() took is still running when code is unloaded.    *)
(***************************************************************************)
EXTENDS ThreadLifecycle, TLAPS

\* Where a host thread has not yet looked itself up, and where it has.
Early == {"unborn", "entry", "enter", "lookup"}
Inside == {"guest", "wedged", "safepoint", "polled", "boundary", "recheck", "next", "leave"}
Labels == Early \cup Inside \cup {"complete", "signal", "over", "gone"}

CallRecord == [op : {"none", "create", "exit", "return"},
               at : {"none", "reap", "drop", "destroy", "make", "insert", "start", "join"},
               who : Threads \cup {None}, bag : SUBSET Threads]

RecordType ==
    /\ object \in [Threads -> {"none", "live", "freed"}]
    /\ state \in [Threads -> {"Initialized", "Ready", "Suspended", "Running", "Terminated"}]
    /\ exit \in [Threads -> {None, "returned", "guest", "host", "destroyed"}]
    /\ count \in [Threads -> Nat]
    /\ host \in [Threads -> {"none", "running", "joined", "detached"}]
    /\ pc \in [Threads -> Labels]
    /\ self \in [Threads -> {None, "found", "missing"}]
    /\ late \in [Threads -> 0 .. 2]

SetsType ==
    /\ tracked \subseteq Threads /\ handles \subseteq Threads
    /\ todo \subseteq Threads /\ still \subseteq Threads /\ copied \subseteq Threads
    /\ unloaded \in BOOLEAN
    /\ session \in {"running", "stopping", "stopped", "joining", "taking", "dropping", "ended"}

\* What an actor's call holds at each of its labels; a thread is in a call only
\* inside its guest code or at the end of it.
CallFits(c) ==
    /\ c.at \in {"insert", "start", "join", "destroy"} <=> c.who # None
CallType ==
    /\ call \in [Actors -> CallRecord]
    /\ \A a \in Actors : CallFits(call[a])
    /\ \A t \in Threads :
          /\ call[t].at # "none" => pc[t] \in {"guest", "leave"}
          /\ call[t].at \notin {"drop", "destroy"} => call[t].bag = {}

\* A thread that was never started, and one that has looked itself up.
BirthInv ==
    \A t \in Threads :
        /\ host[t] = "none" <=> pc[t] = "unborn"
        /\ state[t] = "Initialized" \/ object[t] = "none" => pc[t] = "unborn"
        /\ pc[t] \in Early => self[t] = None
        /\ pc[t] \in Inside => self[t] # None

\* The references besides a thread's own: an object that has one is live, and
\* whoever runs a destructor has the only one.
Referenced(u) ==
    \/ u \in tracked \cup handles \cup todo
    \/ \E a \in Actors : call[a].who = u \/ u \in call[a].bag

ReferencesInv ==
    /\ \A u \in Threads : Referenced(u) => object[u] = "live"
    /\ object[Main] = "live"
    /\ \A a \in Actors :
          call[a].at = "destroy" =>
             /\ call[a].who # Main /\ ~Found(call[a].who)
             /\ call[a].who \notin tracked \cup handles \cup todo \cup call[a].bag
             /\ \A x \in Actors : x # a => call[x].who # call[a].who /\ call[a].who \notin call[x].bag

\* A thread that can be stopped begins a block after the request only where it
\* had not passed a safepoint yet.
PromptInv ==
    \A t \in Threads :
        Found(t) =>
            /\ late[t] <= 1
            /\ late[t] = 1 => Asked(t)
            /\ pc[t] = "recheck" => late[t] = 0 \/ Terminated(t)
            /\ pc[t] = "next" => late[t] = 0

\* What shutdown() took out of threads_ is terminated, and has ended, is
\* reported or is still to be joined.
ShutdownInv ==
    /\ session \in {"taking", "dropping", "ended"} =>
          \A t \in copied : Terminated(t) /\ (t \in todo \cup still \/ pc[t] \in {"unborn", "gone"})
    /\ session \in {"dropping", "ended"} => todo = {}
    /\ unloaded => still = {} /\ session = "ended"

ThreadInv ==
    /\ RecordType /\ SetsType /\ CallType /\ BirthInv
    /\ ReferencesInv /\ ExecutingIsAlive /\ PromptInv /\ ShutdownInv

-----------------------------------------------------------------------------
\* What no step may undo.
Final ==
    \A t \in Threads :
        /\ Terminated(t) => Terminated(t)' /\ exit'[t] = exit[t]
        /\ state'[t] = "Initialized" => state[t] = "Initialized"

LEMMA TerminatesIs ==
  ASSUME RecordType, NEW S \in SUBSET Threads, NEW code \in {"guest", "host", "destroyed"}, Terminates(S, code)
  PROVE  /\ state' \in [Threads -> {"Initialized", "Ready", "Suspended", "Running", "Terminated"}]
         /\ exit' \in [Threads -> {None, "returned", "guest", "host", "destroyed"}]
         /\ \A t \in S : state'[t] = "Terminated"
         /\ \A t \in Threads : state'[t] = state[t] \/ state'[t] = "Terminated"
         /\ Final
  <1> USE DEF Terminates, Terminated, RecordType
  <1>1. /\ exit' \in [Threads -> {None, "returned", "guest", "host", "destroyed"}]
        /\ \A t \in Threads : exit'[t] = IF t \in S /\ ~Terminated(t) THEN code ELSE exit[t]
    OBVIOUS
  <1>2. /\ state' \in [Threads -> {"Initialized", "Ready", "Suspended", "Running", "Terminated"}]
        /\ \A t \in Threads : state'[t] = IF t \in S /\ ~Terminated(t) THEN "Terminated" ELSE state[t]
    OBVIOUS
  <1>3. Final
    BY <1>1, <1>2 DEF Final
  <1> QED
    BY <1>1, <1>2, <1>3

LEMMA StillIsFinal ==
  ASSUME UNCHANGED <<state, exit>>
  PROVE  Final
  BY DEF Final, Terminated

\* The call of a is now at a label with what it holds; no other call changes.
Becomes(a, at, who, bag) ==
    /\ call' \in [Actors -> CallRecord]
    /\ call'[a].at = at /\ call'[a].who = who /\ call'[a].bag = bag
    /\ \A x \in Actors : x # a => call'[x] = call[x]

LEMMA CallIs ==
  ASSUME CallType, NEW a \in Actors
  PROVE  /\ call \in [Actors -> CallRecord] /\ call[a] \in CallRecord /\ CallFits(call[a])
         /\ call[a].who \in Threads \cup {None} /\ call[a].bag \in SUBSET Threads
         /\ call[a].at \in {"insert", "start", "join", "destroy"} => call[a].who \in Threads
         /\ call[a].at \notin {"insert", "start", "join", "destroy"} => call[a].who = None
  <1>1. call \in [Actors -> CallRecord] /\ CallFits(call[a])
    BY DEF CallType
  <1>2. call[a].who \in Threads \cup {None} /\ call[a].bag \in SUBSET Threads
    BY <1>1 DEF CallRecord
  <1> QED
    BY <1>1, <1>2 DEF CallFits

LEMMA NoCallIs ==
  NoCall \in CallRecord /\ NoCall.at = "none" /\ NoCall.who = None /\ NoCall.bag = {}
  BY DEF NoCall, CallRecord

LEMMA SetBecomes ==
  ASSUME CallType, NEW a \in Actors, NEW c \in CallRecord, call' = [call EXCEPT ![a] = c]
  PROVE  Becomes(a, c.at, c.who, c.bag)
  BY DEF Becomes, CallType

\* The records that calls are set to.
LEMMA FreshCalls ==
  ASSUME CallType, NEW a \in Actors
  PROVE  /\ call' = [call EXCEPT ![a] = NoCall] => Becomes(a, "none", None, {})
         /\ \A op \in {"create", "exit"} :
               call' = [call EXCEPT ![a] = [NoCall EXCEPT !.op = op, !.at = "reap"]] =>
                  Becomes(a, "reap", None, {})
         /\ \A B \in SUBSET Threads :
               call' = [call EXCEPT ![a] = [NoCall EXCEPT !.op = "return", !.at = "drop", !.bag = B]] =>
                  Becomes(a, "drop", None, B)
         /\ \A u \in Threads :
               call' = [call EXCEPT ![a] = [NoCall EXCEPT !.op = "return", !.at = "join", !.who = u]] =>
                  Becomes(a, "join", u, {})
  <1>1. ASSUME call' = [call EXCEPT ![a] = NoCall] PROVE Becomes(a, "none", None, {})
    BY <1>1, NoCallIs DEF Becomes, CallType
  <1>2. ASSUME NEW op \in {"create", "exit"},
               call' = [call EXCEPT ![a] = [NoCall EXCEPT !.op = op, !.at = "reap"]]
        PROVE  Becomes(a, "reap", None, {})
    <2> DEFINE c == [NoCall EXCEPT !.op = op, !.at = "reap"]
    <2>1. c \in CallRecord /\ c.at = "reap" /\ c.who = None /\ c.bag = {}
      BY DEF NoCall, CallRecord
    <2> HIDE DEF c
    <2>2. call' = [call EXCEPT ![a] = c]
      BY <1>2 DEF c
    <2> QED
      BY <2>1, <2>2 DEF Becomes, CallType
  <1>3. ASSUME NEW B \in SUBSET Threads,
               call' = [call EXCEPT ![a] = [NoCall EXCEPT !.op = "return", !.at = "drop", !.bag = B]]
        PROVE  Becomes(a, "drop", None, B)
    <2> DEFINE c == [NoCall EXCEPT !.op = "return", !.at = "drop", !.bag = B]
    <2>1. c \in CallRecord /\ c.at = "drop" /\ c.who = None /\ c.bag = B
      BY DEF NoCall, CallRecord
    <2> HIDE DEF c
    <2>2. call' = [call EXCEPT ![a] = c]
      BY <1>3 DEF c
    <2> QED
      BY <2>1, <2>2 DEF Becomes, CallType
  <1>4. ASSUME NEW u \in Threads,
               call' = [call EXCEPT ![a] = [NoCall EXCEPT !.op = "return", !.at = "join", !.who = u]]
        PROVE  Becomes(a, "join", u, {})
    <2> DEFINE c == [NoCall EXCEPT !.op = "return", !.at = "join", !.who = u]
    <2>1. c \in CallRecord /\ c.at = "join" /\ c.who = u /\ c.bag = {}
      BY DEF NoCall, CallRecord
    <2> HIDE DEF c
    <2>2. call' = [call EXCEPT ![a] = c]
      BY <1>4 DEF c
    <2> QED
      BY <2>1, <2>2 DEF Becomes, CallType
  <1> QED
    BY <1>1, <1>2, <1>3, <1>4

\* The parts of a call that a step replaces.
LEMMA ChangedCalls ==
  ASSUME CallType, NEW a \in Actors
  PROVE  /\ \A at \in {"make", "start", "drop"} :
               call' = [call EXCEPT ![a].at = at] => Becomes(a, at, call[a].who, call[a].bag)
         /\ \A B \in SUBSET Threads :
               /\ call' = [call EXCEPT ![a].at = "drop", ![a].bag = B] => Becomes(a, "drop", call[a].who, B)
               /\ call' = [call EXCEPT ![a].bag = B] => Becomes(a, call[a].at, call[a].who, B)
               /\ call' = [call EXCEPT ![a].op = "return", ![a].bag = B] => Becomes(a, call[a].at, call[a].who, B)
               /\ \A u \in Threads :
                     call' = [call EXCEPT ![a].at = "destroy", ![a].who = u, ![a].bag = B] =>
                        Becomes(a, "destroy", u, B)
         /\ \A u \in Threads :
               call' = [call EXCEPT ![a].at = "insert", ![a].who = u] => Becomes(a, "insert", u, call[a].bag)
         /\ call' = [call EXCEPT ![a].at = "drop", ![a].who = None] => Becomes(a, "drop", None, call[a].bag)
  <1>0. call \in [Actors -> CallRecord]
    BY DEF CallType
  <1>1. ASSUME NEW at \in {"make", "start", "drop"}, call' = [call EXCEPT ![a].at = at]
        PROVE  Becomes(a, at, call[a].who, call[a].bag)
    BY <1>0, <1>1 DEF Becomes, CallRecord
  <1>2. ASSUME NEW B \in SUBSET Threads, call' = [call EXCEPT ![a].at = "drop", ![a].bag = B]
        PROVE  Becomes(a, "drop", call[a].who, B)
    BY <1>0, <1>2 DEF Becomes, CallRecord
  <1>3. ASSUME NEW B \in SUBSET Threads, call' = [call EXCEPT ![a].bag = B]
        PROVE  Becomes(a, call[a].at, call[a].who, B)
    BY <1>0, <1>3 DEF Becomes, CallRecord
  <1>4. ASSUME NEW B \in SUBSET Threads, call' = [call EXCEPT ![a].op = "return", ![a].bag = B]
        PROVE  Becomes(a, call[a].at, call[a].who, B)
    BY <1>0, <1>4 DEF Becomes, CallRecord
  <1>5. ASSUME NEW B \in SUBSET Threads, NEW u \in Threads,
               call' = [call EXCEPT ![a].at = "destroy", ![a].who = u, ![a].bag = B]
        PROVE  Becomes(a, "destroy", u, B)
    BY <1>0, <1>5, ZenonT(30) DEF Becomes, CallRecord
  <1>6. ASSUME NEW u \in Threads, call' = [call EXCEPT ![a].at = "insert", ![a].who = u]
        PROVE  Becomes(a, "insert", u, call[a].bag)
    BY <1>0, <1>6 DEF Becomes, CallRecord
  <1>7. ASSUME call' = [call EXCEPT ![a].at = "drop", ![a].who = None] PROVE Becomes(a, "drop", None, call[a].bag)
    BY <1>0, <1>7 DEF Becomes, CallRecord
  <1> QED
    BY <1>1, <1>2, <1>3, <1>4, <1>5, <1>6, <1>7

-----------------------------------------------------------------------------
(* What keeps each part of the invariant.                                  *)

LEMMA CallTypeMoves ==
  ASSUME CallType, NEW a \in Actors, NEW at, NEW who, NEW bag, Becomes(a, at, who, bag),
         at \in {"insert", "start", "join", "destroy"} <=> who # None,
         a \in Threads => /\ at # "none" => pc'[a] \in {"guest", "leave"}
                          /\ at \notin {"drop", "destroy"} => bag = {},
         \A t \in Threads : t # a => pc'[t] = pc[t] \/ call[t].at = "none"
  PROVE  CallType'
  <1>1. \A x \in Actors : CallFits(call'[x])
    BY DEF CallType, CallFits, Becomes
  <1>2. \A t \in Threads : t \in Actors
    BY DEF Actors
  <1>3. \A t \in Threads : /\ call'[t].at # "none" => pc'[t] \in {"guest", "leave"}
                           /\ call'[t].at \notin {"drop", "destroy"} => call'[t].bag = {}
    BY <1>2 DEF CallType, Becomes
  <1> QED
    BY <1>1, <1>3 DEF CallType, Becomes, CallFits

LEMMA CallTypeStands ==
  ASSUME CallType, UNCHANGED call, \A t \in Threads : pc'[t] = pc[t] \/ call[t].at = "none"
  PROVE  CallType'
  <1>1. \A a \in Actors : CallFits(call'[a])
    BY DEF CallType
  <1>2. \A t \in Threads : /\ call'[t].at # "none" => pc'[t] \in {"guest", "leave"}
                           /\ call'[t].at \notin {"drop", "destroy"} => call'[t].bag = {}
    BY DEF CallType
  <1> QED
    BY <1>1, <1>2 DEF CallType, CallFits

\* References that only move, from what a has or everyone has.
LEMMA ReferencesMove ==
  ASSUME CallType, ReferencesInv, UNCHANGED <<object, self>>,
         NEW a \in Actors, NEW at, NEW who, NEW bag, Becomes(a, at, who, bag),
         at # "destroy", call[a].at # "destroy",
         NEW S, S = tracked \cup handles \cup todo \cup call[a].bag \cup {call[a].who, None},
         tracked' \subseteq S, handles' \subseteq S, todo' \subseteq S, bag \subseteq S, who \in S
  PROVE  ReferencesInv'
  <1>1. \A u \in Threads : u \in S => Referenced(u)
    BY NoneAssumption DEF Referenced
  <1>2. \A u \in Threads : Referenced(u)' => Referenced(u)
    BY <1>1 DEF Referenced, Becomes
  <1>3. \A u \in Threads : Referenced(u)' => object'[u] = "live"
    BY <1>2 DEF ReferencesInv
  <1>4. ASSUME NEW b \in Actors, call'[b].at = "destroy"
        PROVE  /\ call'[b].who # Main /\ self'[call'[b].who] # "found"
               /\ call'[b].who \notin tracked' \cup handles' \cup todo' \cup call'[b].bag
               /\ \A x \in Actors : x # b => call'[x].who # call'[b].who /\ call'[b].who \notin call'[x].bag
    <2>1. b # a /\ call'[b] = call[b]
      BY <1>4 DEF Becomes
    <2>2. PICK w \in Threads : w = call[b].who
      BY <1>4, <2>1, CallIs
    <2>3. /\ w # Main /\ ~Found(w) /\ w \notin tracked \cup handles \cup todo \cup call[b].bag
          /\ \A x \in Actors : x # b => call[x].who # w /\ w \notin call[x].bag
      BY <1>4, <2>1, <2>2 DEF ReferencesInv
    <2>4. w \notin S
      BY <2>1, <2>2, <2>3, NoneAssumption
    <2>5. self'[w] # "found"
      BY <2>3 DEF Found
    <2>6. ASSUME NEW x \in Actors, x # b PROVE call'[x].who # w /\ w \notin call'[x].bag
      BY <2>3, <2>4, <2>6 DEF Becomes
    <2> QED
      BY <2>1, <2>2, <2>3, <2>4, <2>5, <2>6
  <1>5. object'[Main] = "live"
    BY DEF ReferencesInv
  <1> QED
    BY <1>3, <1>4, <1>5 DEF ReferencesInv, Found

LEMMA ReferencesStand ==
  ASSUME ReferencesInv, UNCHANGED <<object, self, tracked, handles, todo, call>>
  PROVE  ReferencesInv'
  BY DEF ReferencesInv, Referenced, Found

LEMMA PromptStands ==
  ASSUME RecordType, PromptInv, Final, UNCHANGED <<late, self, pc, count>>
  PROVE  PromptInv'
  BY DEF PromptInv, Found, Asked, Final, Terminated

LEMMA ShutdownStands ==
  ASSUME SetsType, ShutdownInv, Final, UNCHANGED <<session, todo, still, copied, unloaded>>,
         \A t \in Threads : Terminated(t) /\ pc[t] \in {"unborn", "gone"} => pc'[t] \in {"unborn", "gone"}
  PROVE  ShutdownInv'
  BY DEF SetsType, ShutdownInv, Final, Terminated


-----------------------------------------------------------------------------
(* The host thread's own moves.                                            *)

LEMMA AfterIs ==
  /\ DOMAIN After = {"entry", "boundary", "safepoint"}
  /\ After["entry"] = "enter" /\ After["boundary"] = "recheck" /\ After["safepoint"] = "polled"
  BY DEF After

\* Only the program counter of t moves, and not past a check it needs.
PcMoves(t) ==
    /\ UNCHANGED <<object, state, exit, count, host, self, tracked, handles, call, late>>
    /\ UNCHANGED <<session, todo, still, copied, unloaded>>
    /\ pc' \in [Threads -> Labels] /\ \A u \in Threads : u # t => pc'[u] = pc[u]
    /\ call[t].at = "none" \/ pc'[t] = pc[t]
    /\ pc[t] \notin {"unborn", "gone"} /\ pc'[t] \notin {"unborn", "gone"}
    /\ pc[t] \in Early <=> pc'[t] \in Early
    /\ pc'[t] \in Inside => pc[t] \in Inside
    /\ pc'[t] = "recheck" => pc[t] = "boundary" /\ (count[t] = 0 \/ Terminated(t))
    /\ pc'[t] = "next" => ~Found(t) \/ (pc[t] = "recheck" /\ ~Terminated(t))

LEMMA PcMovesKeeps ==
  ASSUME ThreadInv, NEW t \in Threads, PcMoves(t)
  PROVE  ThreadInv'
  <1> USE DEF ThreadInv, PcMoves
  <1>1. RecordType' /\ SetsType'
    BY DEF RecordType, SetsType
  <1>2. CallType'
    BY CallTypeStands
  <1>3. BirthInv'
    BY DEF BirthInv
  <1>4. ReferencesInv'
    BY ReferencesStand
  <1>5. ExecutingIsAlive'
    BY DEF ExecutingIsAlive
  <1>6. PromptInv'
    <2>1. late[t] \in 0 .. 2 /\ count[t] \in Nat
      BY DEF RecordType
    <2>2. ASSUME Found(t)
          PROVE  /\ late[t] <= 1 /\ (late[t] = 1 => Asked(t))
                 /\ pc'[t] = "recheck" => late[t] = 0 \/ Terminated(t)
                 /\ pc'[t] = "next" => late[t] = 0
      BY <2>1, <2>2 DEF PromptInv, Asked
    <2>3. \A u \in Threads : Found(u)' = Found(u) /\ Asked(u)' = Asked(u) /\ Terminated(u)' = Terminated(u)
      BY DEF Found, Asked, Terminated
    <2> QED
      BY <2>2, <2>3 DEF PromptInv
  <1>7. ShutdownInv'
    BY StillIsFinal, ShutdownStands
  <1> QED
    BY <1>1, <1>2, <1>3, <1>4, <1>5, <1>6, <1>7

LEMMA MovesArePc ==
  ASSUME ThreadInv, NEW t \in Threads,
         \/ Pass(t) \/ Polled(t) \/ Recheck(t) \/ Return(t) \/ Signal(t)
         \/ Poll(t) \/ Wedge(t) \/ BlockEnd(t) \/ Fault(t)
  PROVE  PcMoves(t)
  <1>1. /\ UNCHANGED <<object, state, exit, count, host, self, tracked, handles, call, late>>
        /\ UNCHANGED <<session, todo, still, copied, unloaded>>
    BY DEF Pass, Polled, Recheck, Return, Signal, Poll, Wedge, BlockEnd, Fault, record, refs, world
  <1>2. pc[t] \in Labels /\ pc \in [Threads -> Labels] /\ t \in Actors
    BY DEF ThreadInv, RecordType, Actors
  <1>3. ASSUME NEW l \in Labels, Goto(t, l)
        PROVE  pc' \in [Threads -> Labels] /\ pc'[t] = l /\ \A u \in Threads : u # t => pc'[u] = pc[u]
    BY <1>2, <1>3 DEF Goto
  <1>4. /\ call[t].at # "none" => pc[t] \in {"guest", "leave"}
        /\ Idle(t) => call[t].at = "none"
    BY NoCallIs DEF ThreadInv, CallType, Idle
  <1>5. {"enter", "recheck", "polled", "leave", "guest", "wedged", "next", "over", "safepoint", "boundary"} \subseteq Labels
    BY DEF Labels, Early, Inside
  <1> USE DEF PcMoves, Early, Inside
  <1>6. CASE Pass(t)
    <2>1. pc[t] \in {"entry", "boundary", "safepoint"} /\ Goto(t, After[pc[t]]) /\ (count[t] = 0 \/ Terminated(t))
      BY <1>6, AfterIs DEF Pass
    <2>2. CASE pc[t] = "entry"
      <3>1. Goto(t, "enter")
        BY <2>1, <2>2, AfterIs
      <3> QED
        BY <1>1, <1>3, <1>4, <1>5, <2>2, <3>1
    <2>3. CASE pc[t] = "boundary"
      <3>1. Goto(t, "recheck")
        BY <2>1, <2>3, AfterIs
      <3> QED
        BY <1>1, <1>3, <1>4, <1>5, <2>1, <2>3, <3>1
    <2>4. CASE pc[t] = "safepoint"
      <3>1. Goto(t, "polled")
        BY <2>1, <2>4, AfterIs
      <3> QED
        BY <1>1, <1>3, <1>4, <1>5, <2>4, <3>1
    <2> QED
      BY <2>1, <2>2, <2>3, <2>4
  <1>7. CASE Polled(t)
    <2>1. pc[t] = "polled" /\ (Goto(t, "leave") \/ Goto(t, "guest"))
      BY <1>7 DEF Polled
    <2> QED
      BY <1>1, <1>3, <1>4, <1>5, <2>1
  <1>8. CASE Recheck(t)
    <2>1. pc[t] = "recheck" /\ (Goto(t, "leave") \/ (Goto(t, "next") /\ ~Terminated(t)))
      BY <1>8 DEF Recheck
    <2> QED
      BY <1>1, <1>3, <1>4, <1>5, <2>1
  <1>9. CASE Return(t) \/ Signal(t)
    BY <1>1, <1>3, <1>4, <1>5, <1>9 DEF Return, Signal
  <1>10. CASE Poll(t) \/ Wedge(t) \/ Fault(t)
    BY <1>1, <1>3, <1>4, <1>5, <1>10 DEF Poll, Wedge, Fault
  <1>11. CASE BlockEnd(t)
    <2>1. /\ pc[t] \in {"guest", "wedged"} /\ Idle(t)
          /\ \/ Goto(t, "leave") \/ Goto(t, "boundary") \/ (Goto(t, "next") /\ ~Found(t))
      BY <1>11 DEF BlockEnd
    <2> QED
      BY <1>1, <1>3, <1>4, <1>5, <2>1
  <1> QED
    BY <1>6, <1>7, <1>8, <1>9, <1>10, <1>11

LEMMA SleepKeeps ==
  ASSUME ThreadInv, NEW t \in Threads, Sleep(t)
  PROVE  ThreadInv'
  <1>1. /\ UNCHANGED <<object, state, exit, count, host, self, tracked, handles, call, late, pc>>
        /\ UNCHANGED <<session, todo, still, copied, unloaded>>
    BY DEF Sleep, record, refs, world
  <1>2. pc[t] \in {"entry", "boundary", "safepoint"}
    BY AfterIs DEF Sleep
  <1>3. PcMoves(t)
    BY <1>1, <1>2 DEF PcMoves, Early, Inside, ThreadInv, RecordType
  <1> QED
    BY <1>3, PcMovesKeeps


LEMMA EnterKeeps ==
  ASSUME ThreadInv, NEW t \in Threads, Enter(t)
  PROVE  ThreadInv' /\ Final
  <1> USE DEF ThreadInv
  <1>1. /\ pc[t] = "enter" /\ UNCHANGED <<object, exit, count, host, self, tracked, handles, call, late>>
        /\ UNCHANGED <<session, todo, still, copied, unloaded>>
        /\ \/ Terminated(t) /\ pc' = [pc EXCEPT ![t] = "complete"] /\ UNCHANGED state
           \/ ~Terminated(t) /\ pc' = [pc EXCEPT ![t] = "lookup"] /\ state' = [state EXCEPT ![t] = "Running"]
    BY DEF Enter, refs, world, Goto
  <1>2. RecordType' /\ SetsType'
    BY <1>1 DEF RecordType, SetsType, Labels, Early, Inside
  <1>3. Final
    BY <1>1 DEF Final, Terminated, RecordType
  <1>4. /\ pc'[t] \in {"complete", "lookup"} /\ state'[t] \in {"Running", "Terminated"}
        /\ \A u \in Threads : u # t => pc'[u] = pc[u] /\ state'[u] = state[u]
    BY <1>1 DEF RecordType, Terminated
  <1>5. CallType'
    BY <1>1, <1>4, CallTypeStands DEF CallType
  <1>6. BirthInv'
    BY <1>1, <1>4 DEF BirthInv, Early, Inside
  <1>7. ReferencesInv'
    BY <1>1, ReferencesStand
  <1>8. ExecutingIsAlive'
    BY <1>1, <1>4 DEF ExecutingIsAlive
  <1>9. PromptInv'
    <2>1. \A u \in Threads : Found(u)' => Found(u) /\ u # t
      BY <1>1, NoneAssumption DEF Found, BirthInv, Early
    <2> QED
      BY <1>1, <1>4, <2>1 DEF PromptInv, Found, Asked, Terminated
  <1>10. ShutdownInv'
    BY <1>1, <1>3, <1>4, ShutdownStands
  <1> QED
    BY <1>2, <1>3, <1>5, <1>6, <1>7, <1>8, <1>9, <1>10

LEMMA LookupKeeps ==
  ASSUME ThreadInv, NEW t \in Threads, Lookup(t)
  PROVE  ThreadInv'
  <1> USE DEF ThreadInv
  <1> DEFINE found == IF t = Main \/ t \in tracked THEN "found" ELSE "missing"
             n == IF Asked(t) THEN 1 ELSE 0
  <1>1. /\ pc[t] = "lookup" /\ UNCHANGED <<object, state, exit, count, host, tracked, handles, call>>
        /\ UNCHANGED <<session, todo, still, copied, unloaded>>
        /\ self' = [self EXCEPT ![t] = found] /\ late' = [late EXCEPT ![t] = n]
        /\ pc' = [pc EXCEPT ![t] = "guest"]
    BY DEF Lookup, record, Goto
  <1>2. n \in 0 .. 1 /\ (n = 1 => Asked(t)) /\ found \in {"found", "missing"}
        /\ (found = "found" => t = Main \/ t \in tracked)
    OBVIOUS
  <1> HIDE DEF found, n
  <1>3. /\ pc'[t] = "guest" /\ self'[t] = found /\ late'[t] = n
        /\ \A u \in Threads : u # t => pc'[u] = pc[u] /\ self'[u] = self[u] /\ late'[u] = late[u]
    BY <1>1 DEF RecordType
  <1>4. RecordType' /\ SetsType'
    BY <1>1, <1>2 DEF RecordType, SetsType, Labels, Early, Inside
  <1>5. CallType'
    BY <1>1, <1>3, CallTypeStands DEF CallType
  <1>6. BirthInv'
    BY <1>1, <1>2, <1>3, NoneAssumption DEF BirthInv, Early, Inside
  <1>7. ReferencesInv'
    <2>1. \A u \in Threads : Referenced(u)' = Referenced(u)
      BY <1>1 DEF Referenced
    <2>2. ASSUME NEW a \in Actors, call[a].at = "destroy" PROVE self'[call[a].who] # "found"
      <3>1. call[a].who \in Threads /\ call[a].who # Main /\ call[a].who \notin tracked /\ ~Found(call[a].who)
        BY <2>2, CallIs DEF ReferencesInv
      <3> QED
        BY <1>2, <1>3, <3>1 DEF Found
    <2> QED
      BY <1>1, <2>1, <2>2 DEF ReferencesInv, Found
  <1>8. ExecutingIsAlive'
    <2>1. object[t] # "freed"
      BY <1>1, NoneAssumption DEF ExecutingIsAlive, BirthInv, Early
    <2> QED
      BY <1>1, <1>3, <2>1 DEF ExecutingIsAlive
  <1>9. PromptInv'
    <2>1. Asked(t)' = Asked(t) /\ \A u \in Threads : Terminated(u)' = Terminated(u) /\ Asked(u)' = Asked(u)
      BY <1>1 DEF Asked, Terminated
    <2> QED
      BY <1>2, <1>3, <2>1 DEF PromptInv, Found
  <1>10. ShutdownInv'
    BY <1>1, <1>3, StillIsFinal, ShutdownStands
  <1> QED
    BY <1>4, <1>5, <1>6, <1>7, <1>8, <1>9, <1>10

LEMMA NextBlockKeeps ==
  ASSUME ThreadInv, NEW t \in Threads, NextBlock(t)
  PROVE  ThreadInv'
  <1> USE DEF ThreadInv
  <1> DEFINE n == IF Asked(t) /\ late[t] < 2 THEN late[t] + 1 ELSE late[t]
  <1>1. /\ pc[t] = "next" /\ UNCHANGED <<object, state, exit, count, host, self, tracked, handles, call>>
        /\ UNCHANGED <<session, todo, still, copied, unloaded>>
        /\ late' = [late EXCEPT ![t] = n] /\ pc' = [pc EXCEPT ![t] = "guest"]
    BY DEF NextBlock, record, refs, world, Goto
  <1>2. n \in 0 .. 2 /\ (late[t] = 0 => n \in 0 .. 1 /\ (n = 1 => Asked(t)))
    BY DEF RecordType
  <1> HIDE DEF n
  <1>3. /\ pc'[t] = "guest" /\ late'[t] = n
        /\ \A u \in Threads : u # t => pc'[u] = pc[u] /\ late'[u] = late[u]
    BY <1>1 DEF RecordType
  <1>4. RecordType' /\ SetsType'
    BY <1>1, <1>2 DEF RecordType, SetsType, Labels, Early, Inside
  <1>5. CallType'
    BY <1>1, <1>3, CallTypeStands DEF CallType
  <1>6. BirthInv'
    BY <1>1, <1>3 DEF BirthInv, Early, Inside
  <1>7. ReferencesInv'
    BY <1>1, ReferencesStand
  <1>8. ExecutingIsAlive'
    BY <1>1, <1>3 DEF ExecutingIsAlive
  <1>9. PromptInv'
    <2>1. \A u \in Threads : Terminated(u)' = Terminated(u) /\ Asked(u)' = Asked(u) /\ Found(u)' = Found(u)
      BY <1>1 DEF Asked, Terminated, Found
    <2> QED
      BY <1>1, <1>2, <1>3, <2>1 DEF PromptInv
  <1>10. ShutdownInv'
    BY <1>1, <1>3, StillIsFinal, ShutdownStands
  <1> QED
    BY <1>4, <1>5, <1>6, <1>7, <1>8, <1>9, <1>10

LEMMA CompleteKeeps ==
  ASSUME ThreadInv, NEW t \in Threads, Complete(t)
  PROVE  ThreadInv' /\ Final
  <1> USE DEF ThreadInv
  <1>1. /\ pc[t] = "complete" /\ UNCHANGED <<object, count, host, self, tracked, handles, call, late>>
        /\ UNCHANGED <<session, todo, still, copied, unloaded>>
        /\ pc' = [pc EXCEPT ![t] = "signal"]
        /\ \/ Terminated(t) /\ UNCHANGED <<state, exit>>
           \/ ~Terminated(t) /\ state' = [state EXCEPT ![t] = "Terminated"] /\ exit' = [exit EXCEPT ![t] = "returned"]
    BY DEF Complete, refs, world, Goto
  <1>2. RecordType' /\ SetsType'
    BY <1>1 DEF RecordType, SetsType, Labels, Early, Inside
  <1>3. Final
    BY <1>1 DEF Final, Terminated, RecordType
  <1>4. /\ pc'[t] = "signal" /\ state'[t] = "Terminated"
        /\ \A u \in Threads : u # t => pc'[u] = pc[u] /\ state'[u] = state[u]
    BY <1>1 DEF RecordType, Terminated
  <1>5. CallType'
    BY <1>1, <1>4, CallTypeStands DEF CallType
  <1>6. BirthInv'
    BY <1>1, <1>4 DEF BirthInv, Early, Inside
  <1>7. ReferencesInv'
    BY <1>1, ReferencesStand
  <1>8. ExecutingIsAlive'
    BY <1>1, <1>4 DEF ExecutingIsAlive
  <1>9. PromptInv'
    BY <1>1, <1>4 DEF PromptInv, Found, Asked, Terminated
  <1>10. ShutdownInv'
    BY <1>1, <1>3, <1>4, ShutdownStands
  <1> QED
    BY <1>2, <1>3, <1>5, <1>6, <1>7, <1>8, <1>9, <1>10

LEMMA ExitKeeps ==
  ASSUME ThreadInv, NEW t \in Threads, Exit(t)
  PROVE  ThreadInv'
  <1> USE DEF ThreadInv
  <1>1. /\ pc[t] = "over" /\ UNCHANGED <<state, exit, count, tracked, handles, call, late>>
        /\ UNCHANGED <<session, todo, still, copied, unloaded>>
        /\ self' = [self EXCEPT ![t] = None] /\ pc' = [pc EXCEPT ![t] = "gone"]
        /\ \/ /\ Found(t) /\ ~HeldElsewhere(t, t)
              /\ object' = [object EXCEPT ![t] = "freed"] /\ host' = [host EXCEPT ![t] = "detached"]
           \/ UNCHANGED <<object, host>>
    BY DEF Exit, world, Goto
  <1>2. RecordType' /\ SetsType'
    BY <1>1 DEF RecordType, SetsType, Labels, Early, Inside
  <1>3. /\ pc'[t] = "gone" /\ self'[t] = None /\ (host'[t] = "none" => host[t] = "none")
        /\ (object'[t] = "none" => object[t] = "none")
        /\ \A u \in Threads : u # t => pc'[u] = pc[u] /\ self'[u] = self[u] /\ object'[u] = object[u] /\ host'[u] = host[u]
    BY <1>1 DEF RecordType
  <1>4. CallType'
    BY <1>1, <1>3, CallTypeStands DEF CallType
  <1>5. BirthInv'
    BY <1>1, <1>3 DEF BirthInv, Early, Inside
  <1>6. ReferencesInv'
    <2>1. \A u \in Threads : Referenced(u)' = Referenced(u)
      BY <1>1 DEF Referenced
    <2>2. call[t].bag = {} /\ t \in Actors
      BY <1>1 DEF CallType, Actors
    <2>3. object'[t] # object[t] => ~Referenced(t) /\ t # Main
      BY <1>1, <2>2 DEF HeldElsewhere, Referenced
    <2>4. \A u \in Threads : Referenced(u)' => object'[u] = "live"
      BY <1>3, <2>1, <2>3 DEF ReferencesInv
    <2>5. object'[Main] = "live"
      BY <1>3, <2>3, MainAssumption DEF ReferencesInv
    <2>6. ASSUME NEW a \in Actors, call[a].at = "destroy" PROVE self'[call[a].who] # "found"
      BY <1>3, <2>6, CallIs, NoneAssumption DEF ReferencesInv, Found
    <2> QED
      BY <1>1, <2>4, <2>5, <2>6 DEF ReferencesInv, Found
  <1>7. ExecutingIsAlive'
    BY <1>3 DEF ExecutingIsAlive
  <1>8. PromptInv'
    BY <1>1, <1>3, NoneAssumption DEF PromptInv, Found, Asked, Terminated
  <1>9. ShutdownInv'
    BY <1>1, <1>3, StillIsFinal, ShutdownStands
  <1> QED
    BY <1>2, <1>4, <1>5, <1>6, <1>7, <1>8, <1>9


-----------------------------------------------------------------------------
(* Steps of calls that leave the threads where they are.                   *)

LEMMA CallMovesKeeps ==
  ASSUME ThreadInv, RecordType', SetsType', ShutdownInv', Final,
         UNCHANGED <<object, self, pc, late, count>>, \A t \in Threads : host'[t] = "none" <=> host[t] = "none",
         NEW a \in Actors, NEW at, NEW who, NEW bag, Becomes(a, at, who, bag),
         at # "destroy", call[a].at # "destroy", at \in {"insert", "start", "join"} <=> who # None,
         a \in Threads => /\ at # "none" => pc[a] \in {"guest", "leave"}
                          /\ at # "drop" => bag = {},
         NEW S, S = tracked \cup handles \cup todo \cup call[a].bag \cup {call[a].who, None},
         tracked' \subseteq S, handles' \subseteq S, todo' \subseteq S, bag \subseteq S, who \in S
  PROVE  ThreadInv'
  <1> USE DEF ThreadInv
  <1>1. CallType'
    BY CallTypeMoves
  <1>2. ReferencesInv'
    BY ReferencesMove
  <1>3. BirthInv'
    BY DEF BirthInv, Final
  <1>4. ExecutingIsAlive'
    BY DEF ExecutingIsAlive
  <1>5. PromptInv'
    BY PromptStands
  <1> QED
    BY <1>1, <1>2, <1>3, <1>4, <1>5

LEMMA LeaveKeeps ==
  ASSUME ThreadInv, NEW t \in Threads, Leave(t)
  PROVE  ThreadInv'
  <1>0. t \in Actors /\ CallType
    BY DEF Actors, ThreadInv
  <1>1. /\ pc[t] = "leave" /\ call[t] = NoCall
        /\ UNCHANGED <<object, state, exit, count, host, self, tracked, handles, late, pc>>
        /\ UNCHANGED <<session, todo, still, copied, unloaded>>
        /\ call' = [call EXCEPT ![t] = [NoCall EXCEPT !.op = "exit", !.at = "reap"]]
    BY DEF Leave, record, refs, world, Idle
  <1>2. Becomes(t, "reap", None, {}) /\ call[t].at = "none"
    BY <1>0, <1>1, FreshCalls, NoCallIs
  <1>3. RecordType' /\ SetsType' /\ Final /\ ShutdownInv'
    BY <1>1, StillIsFinal, ShutdownStands DEF ThreadInv, RecordType, SetsType
  <1> DEFINE S == tracked \cup handles \cup todo \cup call[t].bag \cup {call[t].who, None}
  <1>4. tracked' \subseteq S /\ handles' \subseteq S /\ todo' \subseteq S /\ {} \subseteq S /\ None \in S
    BY <1>1
  <1> HIDE DEF S
  <1>5. S = tracked \cup handles \cup todo \cup call[t].bag \cup {call[t].who, None}
    BY DEF S
  <1> QED
    BY <1>0, <1>1, <1>2, <1>3, <1>4, <1>5, CallMovesKeeps

LEMMA CreateCallKeeps ==
  ASSUME ThreadInv, NEW t \in Threads, CreateCall(t)
  PROVE  ThreadInv'
  <1>0. t \in Actors /\ CallType
    BY DEF Actors, ThreadInv
  <1>1. /\ pc[t] = "guest" /\ call[t] = NoCall
        /\ UNCHANGED <<object, state, exit, count, host, self, tracked, handles, late, pc>>
        /\ UNCHANGED <<session, todo, still, copied, unloaded>>
        /\ call' = [call EXCEPT ![t] = [NoCall EXCEPT !.op = "create", !.at = "reap"]]
    BY DEF CreateCall, MayCall, record, refs, world, Idle
  <1>2. Becomes(t, "reap", None, {}) /\ call[t].at = "none"
    BY <1>0, <1>1, FreshCalls, NoCallIs
  <1>3. RecordType' /\ SetsType' /\ Final /\ ShutdownInv'
    BY <1>1, StillIsFinal, ShutdownStands DEF ThreadInv, RecordType, SetsType
  <1> DEFINE S == tracked \cup handles \cup todo \cup call[t].bag \cup {call[t].who, None}
  <1>4. tracked' \subseteq S /\ handles' \subseteq S /\ todo' \subseteq S /\ {} \subseteq S /\ None \in S
    BY <1>1
  <1> HIDE DEF S
  <1>5. S = tracked \cup handles \cup todo \cup call[t].bag \cup {call[t].who, None}
    BY DEF S
  <1> QED
    BY <1>0, <1>1, <1>2, <1>3, <1>4, <1>5, CallMovesKeeps

LEMMA CloseKeeps ==
  ASSUME ThreadInv, NEW t \in Threads, Close(t)
  PROVE  ThreadInv'
  <1>0. t \in Actors /\ CallType /\ SetsType
    BY DEF Actors, ThreadInv
  <1>1. PICK u \in handles :
          /\ pc[t] = "guest" /\ call[t] = NoCall
          /\ UNCHANGED <<object, state, exit, count, host, self, tracked, late, pc>>
          /\ UNCHANGED <<session, todo, still, copied, unloaded>> /\ handles' = handles \ {u}
          /\ call' = [call EXCEPT ![t] = [NoCall EXCEPT !.op = "return", !.at = "drop", !.bag = {u}]]
    BY DEF Close, MayCall, record, world, Idle
  <1>2. Becomes(t, "drop", None, {u}) /\ call[t].at = "none"
    BY <1>0, <1>1, FreshCalls, NoCallIs DEF SetsType
  <1>3. RecordType' /\ SetsType' /\ Final /\ ShutdownInv'
    BY <1>1, StillIsFinal, ShutdownStands DEF ThreadInv, RecordType, SetsType
  <1> DEFINE S == tracked \cup handles \cup todo \cup call[t].bag \cup {call[t].who, None}
  <1>4. tracked' \subseteq S /\ handles' \subseteq S /\ todo' \subseteq S /\ {u} \subseteq S /\ None \in S
    BY <1>1
  <1> HIDE DEF S
  <1>5. S = tracked \cup handles \cup todo \cup call[t].bag \cup {call[t].who, None}
    BY DEF S
  <1> QED
    BY <1>0, <1>1, <1>2, <1>3, <1>4, <1>5, CallMovesKeeps

LEMMA JoinCallKeeps ==
  ASSUME ThreadInv, NEW t \in Threads, JoinCall(t)
  PROVE  ThreadInv'
  <1>0. t \in Actors /\ CallType /\ SetsType
    BY DEF Actors, ThreadInv
  <1>1. PICK u \in handles :
          /\ pc[t] = "guest" /\ call[t] = NoCall
          /\ UNCHANGED <<object, state, exit, count, host, self, tracked, handles, late, pc>>
          /\ UNCHANGED <<session, todo, still, copied, unloaded>>
          /\ call' = [call EXCEPT ![t] = [NoCall EXCEPT !.op = "return", !.at = "join", !.who = u]]
    BY DEF JoinCall, MayCall, record, refs, world, Idle
  <1>2. Becomes(t, "join", u, {}) /\ call[t].at = "none" /\ u # None
    BY <1>0, <1>1, FreshCalls, NoCallIs, NoneAssumption DEF SetsType
  <1>3. RecordType' /\ SetsType' /\ Final /\ ShutdownInv'
    BY <1>1, StillIsFinal, ShutdownStands DEF ThreadInv, RecordType, SetsType
  <1> DEFINE S == tracked \cup handles \cup todo \cup call[t].bag \cup {call[t].who, None}
  <1>4. tracked' \subseteq S /\ handles' \subseteq S /\ todo' \subseteq S /\ {} \subseteq S /\ u \in S
    BY <1>1
  <1> HIDE DEF S
  <1>5. S = tracked \cup handles \cup todo \cup call[t].bag \cup {call[t].who, None}
    BY DEF S
  <1> QED
    BY <1>0, <1>1, <1>2, <1>3, <1>4, <1>5, CallMovesKeeps

LEMMA ReapKeeps ==
  ASSUME ThreadInv, NEW t \in Threads, Reap(t)
  PROVE  ThreadInv'
  <1>0. t \in Actors /\ CallType /\ SetsType
    BY DEF Actors, ThreadInv
  <1> DEFINE finished == {u \in tracked : Terminated(u) /\ ~(u = t /\ host[u] = "running")}
  <1>1. /\ call[t].at = "reap" /\ tracked' = tracked \ finished
        /\ UNCHANGED <<object, state, exit, count, host, self, handles, late, pc>>
        /\ UNCHANGED <<session, todo, still, copied, unloaded>>
        /\ call' = [call EXCEPT ![t].at = "drop", ![t].bag = finished]
    BY DEF Reap, record, world
  <1>2. finished \subseteq tracked
    OBVIOUS
  <1> HIDE DEF finished
  <1>3. call[t].who = None /\ pc[t] \in {"guest", "leave"}
    BY <1>0, <1>1, CallIs DEF CallType
  <1>4. Becomes(t, "drop", None, finished)
    <2>1. finished \in SUBSET Threads
      BY <1>0, <1>2 DEF SetsType
    <2> QED
      BY <1>0, <1>1, <1>3, <2>1, ChangedCalls
  <1>5. RecordType' /\ SetsType' /\ Final /\ ShutdownInv'
    BY <1>1, StillIsFinal, ShutdownStands DEF ThreadInv, RecordType, SetsType
  <1> DEFINE S == tracked \cup handles \cup todo \cup call[t].bag \cup {call[t].who, None}
  <1>6. tracked' \subseteq S /\ handles' \subseteq S /\ todo' \subseteq S /\ finished \subseteq S /\ None \in S
    BY <1>1, <1>2
  <1> HIDE DEF S
  <1>7. S = tracked \cup handles \cup todo \cup call[t].bag \cup {call[t].who, None}
    BY DEF S
  <1> QED
    BY <1>0, <1>1, <1>3, <1>4, <1>5, <1>6, <1>7, CallMovesKeeps

LEMMA InsertKeeps ==
  ASSUME ThreadInv, NEW t \in Threads, Insert(t)
  PROVE  ThreadInv' /\ Final
  <1>0. t \in Actors /\ CallType /\ SetsType
    BY DEF Actors, ThreadInv
  <1>1. /\ call[t].at = "insert"
        /\ UNCHANGED <<object, count, host, self, tracked, late, pc>>
        /\ UNCHANGED <<session, todo, still, copied, unloaded>>
    BY DEF Insert, world
  <1>2. PICK u \in Threads : u = call[t].who
    BY <1>0, <1>1, CallIs
  <1>3. call[t].bag = {} /\ pc[t] \in {"guest", "leave"} /\ u # None
    BY <1>0, <1>1, NoneAssumption DEF CallType
  <1> DEFINE S == tracked \cup handles \cup todo \cup call[t].bag \cup {call[t].who, None}
  <1>4. CASE /\ handles' = handles \cup {u} /\ call' = [call EXCEPT ![t].at = "start"]
             /\ UNCHANGED <<state, exit>>
    <2>1. Becomes(t, "start", u, {})
      BY <1>0, <1>2, <1>3, <1>4, ChangedCalls
    <2>2. RecordType' /\ SetsType' /\ Final /\ ShutdownInv'
      BY <1>1, <1>4, StillIsFinal, ShutdownStands DEF ThreadInv, RecordType, SetsType
    <2>3. tracked' \subseteq S /\ handles' \subseteq S /\ todo' \subseteq S /\ {} \subseteq S /\ u \in S
      BY <1>1, <1>2, <1>4
    <2> HIDE DEF S
    <2>4. S = tracked \cup handles \cup todo \cup call[t].bag \cup {call[t].who, None}
      BY DEF S
    <2> QED
      BY <1>0, <1>1, <1>3, <2>1, <2>2, <2>3, <2>4, CallMovesKeeps
  <1>5. CASE Terminates({u}, "host") /\ call' = [call EXCEPT ![t] = Returning(t)] /\ UNCHANGED handles
    <2>1. Becomes(t, "drop", None, {u})
      BY <1>0, <1>2, <1>5, FreshCalls DEF Returning
    <2>2. Final /\ RecordType' /\ SetsType'
      BY <1>1, <1>5, TerminatesIs DEF ThreadInv, RecordType, SetsType
    <2>3. ShutdownInv'
      BY <1>1, <2>2, ShutdownStands DEF ThreadInv
    <2>4. tracked' \subseteq S /\ handles' \subseteq S /\ todo' \subseteq S /\ {u} \subseteq S /\ None \in S
      BY <1>1, <1>2, <1>5
    <2> HIDE DEF S
    <2>5. S = tracked \cup handles \cup todo \cup call[t].bag \cup {call[t].who, None}
      BY DEF S
    <2> QED
      BY <1>0, <1>1, <1>3, <2>1, <2>2, <2>3, <2>4, <2>5, CallMovesKeeps
  <1> QED
    BY <1>2, <1>4, <1>5 DEF Insert


LEMMA StartKeeps ==
  ASSUME ThreadInv, NEW t \in Threads, Start(t)
  PROVE  ThreadInv' /\ Final
  <1> USE DEF ThreadInv
  <1>0. t \in Actors
    BY DEF Actors
  <1>1. /\ call[t].at = "start" /\ call' = [call EXCEPT ![t] = Returning(t)]
        /\ UNCHANGED <<object, count, self, tracked, handles, late>>
        /\ UNCHANGED <<session, todo, still, copied, unloaded>>
    BY DEF Start, refs, world
  <1>2. PICK u \in Threads : u = call[t].who
    BY <1>0, <1>1, CallIs
  <1>3. call[t].bag = {} /\ pc[t] \in {"guest", "leave"} /\ u # None
    BY <1>0, <1>1, NoneAssumption DEF CallType
  <1>4. Becomes(t, "drop", None, {u})
    BY <1>0, <1>1, <1>2, FreshCalls DEF Returning
  <1>5. PICK S : S = tracked \cup handles \cup todo \cup call[t].bag \cup {call[t].who, None}
    OBVIOUS
  <1>6. tracked' \subseteq S /\ handles' \subseteq S /\ todo' \subseteq S /\ {u} \subseteq S /\ None \in S
    BY <1>1, <1>2, <1>5
  <1>7. CASE /\ state[u] = "Initialized" /\ host' = [host EXCEPT ![u] = "running"]
             /\ state' = [state EXCEPT ![u] = IF count[u] > 0 THEN "Suspended" ELSE "Ready"]
             /\ Goto(u, "entry") /\ UNCHANGED exit
    <2>1. pc[u] = "unborn" /\ u # t /\ call[u].at = "none" /\ self[u] = None
      BY <1>3, <1>7 DEF BirthInv, CallType, Early
    <2>2. object[u] = "live"
      BY <1>0, <1>2 DEF ReferencesInv, Referenced
    <2>3. RecordType' /\ SetsType'
      BY <1>1, <1>7 DEF RecordType, SetsType, Goto, Labels, Early
    <2>4. /\ pc'[u] = "entry" /\ host'[u] = "running" /\ state'[u] \in {"Suspended", "Ready"}
          /\ \A x \in Threads : x # u => pc'[x] = pc[x] /\ host'[x] = host[x] /\ state'[x] = state[x]
      BY <1>7 DEF RecordType, Goto
    <2>5. Final
      BY <1>7, <2>4 DEF Final, Terminated
    <2>6. CallType'
      BY <1>0, <1>3, <1>4, <2>1, <2>4, CallTypeMoves
    <2>7. ReferencesInv'
      BY <1>0, <1>1, <1>4, <1>5, <1>6, ReferencesMove
    <2>8. BirthInv'
      BY <1>1, <2>1, <2>2, <2>4 DEF BirthInv, Early, Inside
    <2>9. ExecutingIsAlive'
      BY <1>1, <2>2, <2>4 DEF ExecutingIsAlive
    <2>10. PromptInv'
      BY <1>1, <2>1, <2>4, NoneAssumption DEF PromptInv, Found, Asked, Terminated
    <2>11. ShutdownInv'
      BY <1>1, <1>7, <2>4, <2>5, ShutdownStands DEF Terminated
    <2> QED
      BY <2>3, <2>5, <2>6, <2>7, <2>8, <2>9, <2>10, <2>11
  <1>8. CASE Terminates({u}, "host") /\ UNCHANGED <<pc, host>>
    <2>1. Final /\ RecordType' /\ SetsType'
      BY <1>1, <1>8, TerminatesIs DEF RecordType, SetsType
    <2>2. ShutdownInv'
      BY <1>1, <1>8, <2>1, ShutdownStands
    <2> QED
      BY <1>0, <1>1, <1>3, <1>4, <1>5, <1>6, <1>8, <2>1, <2>2, CallMovesKeeps
  <1> QED
    BY <1>2, <1>7, <1>8 DEF Start

LEMMA JoinKeeps ==
  ASSUME ThreadInv, NEW t \in Threads, Join(t)
  PROVE  ThreadInv'
  <1> USE DEF ThreadInv
  <1>0. t \in Actors
    BY DEF Actors
  <1>1. /\ call[t].at = "join" /\ call' = [call EXCEPT ![t] = Returning(t)]
        /\ UNCHANGED <<object, state, exit, count, pc, self, tracked, handles, late>>
        /\ UNCHANGED <<session, todo, still, copied, unloaded>>
    BY DEF Join, refs, world
  <1>2. PICK u \in Threads : u = call[t].who
    BY <1>0, <1>1, CallIs
  <1>3. call[t].bag = {} /\ pc[t] \in {"guest", "leave"} /\ u # None
    BY <1>0, <1>1, NoneAssumption DEF CallType
  <1>4. Becomes(t, "drop", None, {u})
    BY <1>0, <1>1, <1>2, FreshCalls DEF Returning
  <1>5. host' = [host EXCEPT ![u] = IF host[u] # "running" THEN host[u]
                                    ELSE IF u = t THEN "detached" ELSE "joined"]
    BY <1>2 DEF Join
  <1>6. RecordType' /\ SetsType' /\ \A x \in Threads : host'[x] = "none" <=> host[x] = "none"
    BY <1>1, <1>5 DEF RecordType, SetsType
  <1>7. Final /\ ShutdownInv'
    BY <1>1, StillIsFinal, ShutdownStands
  <1>8. PICK S : S = tracked \cup handles \cup todo \cup call[t].bag \cup {call[t].who, None}
    OBVIOUS
  <1>9. tracked' \subseteq S /\ handles' \subseteq S /\ todo' \subseteq S /\ {u} \subseteq S /\ None \in S
    BY <1>1, <1>2, <1>8
  <1> QED
    BY <1>0, <1>1, <1>3, <1>4, <1>6, <1>7, <1>8, <1>9, CallMovesKeeps

LEMMA DroppedKeeps ==
  ASSUME ThreadInv, NEW t \in Threads, Dropped(t)
  PROVE  ThreadInv'
  <1> USE DEF ThreadInv
  <1>0. t \in Actors
    BY DEF Actors
  <1>1. /\ call[t].at = "drop" /\ call[t].bag = {}
        /\ UNCHANGED <<object, state, exit, count, host, self, tracked, handles, late>>
        /\ UNCHANGED <<session, todo, still, copied, unloaded>>
    BY DEF Dropped, record, refs, world
  <1>2. call[t].who = None /\ pc[t] \in {"guest", "leave"}
    BY <1>0, <1>1, CallIs DEF CallType
  <1>3. Final /\ SetsType'
    BY <1>1, StillIsFinal DEF SetsType
  <1>4. PICK S : S = tracked \cup handles \cup todo \cup call[t].bag \cup {call[t].who, None}
    OBVIOUS
  <1>5. tracked' \subseteq S /\ handles' \subseteq S /\ todo' \subseteq S /\ {} \subseteq S /\ None \in S
    BY <1>1, <1>4
  <1>6. CASE UNCHANGED pc
    <2>1. PICK at \in {"make", "none"} : Becomes(t, at, None, {})
      BY <1>0, <1>1, <1>2, FreshCalls, ChangedCalls DEF Dropped
    <2>2. RecordType' /\ ShutdownInv'
      BY <1>1, <1>3, <1>6, ShutdownStands DEF RecordType
    <2> QED
      BY <1>0, <1>1, <1>2, <1>3, <1>4, <1>5, <1>6, <2>1, <2>2, CallMovesKeeps
  <1>7. CASE call' = [call EXCEPT ![t] = NoCall] /\ Goto(t, "complete")
    <2>1. Becomes(t, "none", None, {})
      BY <1>0, <1>7, FreshCalls
    <2>2. /\ pc' \in [Threads -> Labels] /\ pc'[t] = "complete"
          /\ \A u \in Threads : u # t => pc'[u] = pc[u]
      BY <1>7 DEF RecordType, Goto, Labels
    <2>3. RecordType'
      BY <1>1, <2>2 DEF RecordType
    <2>4. CallType'
      BY <1>0, <2>1, <2>2, CallTypeMoves
    <2>5. ReferencesInv'
      BY <1>0, <1>1, <1>4, <1>5, <2>1, ReferencesMove
    <2>6. BirthInv'
      BY <1>1, <1>2, <2>2 DEF BirthInv, Early, Inside
    <2>7. ExecutingIsAlive'
      BY <1>1, <1>2, <2>2 DEF ExecutingIsAlive
    <2>8. PromptInv'
      BY <1>1, <2>2 DEF PromptInv, Found, Asked, Terminated
    <2>9. ShutdownInv'
      BY <1>1, <1>2, <1>3, <2>2, ShutdownStands
    <2> QED
      BY <1>3, <2>3, <2>4, <2>5, <2>6, <2>7, <2>8, <2>9
  <1> QED
    BY <1>6, <1>7 DEF Dropped

LEMMA MakeKeeps ==
  ASSUME ThreadInv, NEW t \in Threads, Make(t)
  PROVE  ThreadInv'
  <1> USE DEF ThreadInv
  <1>0. t \in Actors
    BY DEF Actors
  <1>1. PICK u \in Threads, n \in {0, 1} :
          /\ call[t].at = "make" /\ object[u] = "none"
          /\ object' = [object EXCEPT ![u] = "live"] /\ count' = [count EXCEPT ![u] = n]
          /\ tracked' = tracked \cup {u}
          /\ call' = [call EXCEPT ![t].at = "insert", ![t].who = u]
          /\ UNCHANGED <<state, exit, host, pc, self, handles, late>>
          /\ UNCHANGED <<session, todo, still, copied, unloaded>>
    BY DEF Make, world
  <1>2. call[t].bag = {} /\ pc[t] \in {"guest", "leave"} /\ u # None
    BY <1>0, <1>1, NoneAssumption DEF CallType
  <1>3. Becomes(t, "insert", u, {})
    BY <1>0, <1>1, <1>2, ChangedCalls
  <1>4. pc[u] = "unborn" /\ self[u] = None /\ ~Referenced(u)
    BY <1>1 DEF BirthInv, ReferencesInv, Early
  <1>5. RecordType' /\ SetsType'
    BY <1>1 DEF RecordType, SetsType
  <1>6. /\ object'[u] = "live" /\ \A x \in Threads : x # u => object'[x] = object[x] /\ count'[x] = count[x]
    BY <1>1 DEF RecordType
  <1>7. CallType'
    BY <1>0, <1>1, <1>2, <1>3, CallTypeMoves
  <1>8. BirthInv'
    BY <1>1, <1>4, <1>6 DEF BirthInv
  <1>9. ExecutingIsAlive'
    BY <1>1, <1>6 DEF ExecutingIsAlive
  <1>10. PromptInv'
    BY <1>1, <1>4, <1>6, NoneAssumption DEF PromptInv, Found, Asked, Terminated
  <1>11. ShutdownInv'
    BY <1>1, StillIsFinal, ShutdownStands
  <1>12. ReferencesInv'
    <2>1. \A x \in Threads : Referenced(x)' => x = u \/ Referenced(x)
      BY <1>1, <1>3 DEF Referenced, Becomes
    <2>2. \A x \in Threads : Referenced(x)' => object'[x] = "live"
      BY <1>6, <2>1 DEF ReferencesInv
    <2>3. object'[Main] = "live"
      BY <1>6, MainAssumption DEF ReferencesInv
    <2>4. ASSUME NEW b \in Actors, call'[b].at = "destroy"
          PROVE  /\ call'[b].who # Main /\ self'[call'[b].who] # "found"
                 /\ call'[b].who \notin tracked' \cup handles' \cup todo' \cup call'[b].bag
                 /\ \A x \in Actors : x # b => call'[x].who # call'[b].who /\ call'[b].who \notin call'[x].bag
      <3>1. b # t /\ call'[b] = call[b]
        BY <1>3, <2>4 DEF Becomes
      <3>2. PICK w \in Threads : w = call[b].who
        BY <2>4, <3>1, CallIs
      <3>3. /\ w # Main /\ ~Found(w) /\ w \notin tracked \cup handles \cup todo \cup call[b].bag
            /\ \A x \in Actors : x # b => call[x].who # w /\ w \notin call[x].bag
        BY <2>4, <3>1, <3>2 DEF ReferencesInv
      <3>4. w # u
        BY <1>4, <3>2 DEF Referenced
      <3>5. ASSUME NEW x \in Actors, x # b PROVE call'[x].who # w /\ w \notin call'[x].bag
        BY <1>3, <3>3, <3>4, <3>5 DEF Becomes
      <3>6. self'[w] # "found" /\ w \notin tracked' \cup handles' \cup todo' \cup call[b].bag
        BY <1>1, <3>3, <3>4 DEF Found
      <3> QED
        BY <3>1, <3>2, <3>3, <3>5, <3>6
    <2> QED
      BY <2>2, <2>3, <2>4 DEF ReferencesInv, Found
  <1> QED
    BY <1>5, <1>7, <1>8, <1>9, <1>10, <1>11, <1>12


\* A reference that a destructor does not follow, and one that it does.
LEMMA DropKeeps ==
  ASSUME ThreadInv, NEW a \in Actors, Drop(a)
  PROVE  ThreadInv' /\ Final
  <1> USE DEF ThreadInv
  <1>1. PICK u \in call[a].bag :
          /\ call[a].at = "drop"
          /\ IF Found(u) \/ HeldElsewhere(u, a) \/ host[u] = "none"
             THEN /\ call' = [call EXCEPT ![a].bag = @ \ {u}]
                  /\ object' = IF Found(u) \/ HeldElsewhere(u, a) THEN object
                               ELSE [object EXCEPT ![u] = "freed"]
                  /\ UNCHANGED <<state, exit>>
             ELSE /\ Terminates({u}, "destroyed")
                  /\ call' = [call EXCEPT ![a].at = "destroy", ![a].who = u, ![a].bag = @ \ {u}]
                  /\ UNCHANGED object
          /\ UNCHANGED <<count, host, pc, self, tracked, handles, late>>
          /\ UNCHANGED <<session, todo, still, copied, unloaded>>
    BY DEF Drop, refs, world
  <1>2. u \in Threads /\ call[a].bag \subseteq Threads /\ call[a].who = None /\ u # None
    BY <1>1, CallIs, NoneAssumption
  <1>3. PICK B \in SUBSET Threads : B = call[a].bag \ {u}
    BY <1>2
  <1>4. a \in Threads => pc[a] \in {"guest", "leave"}
    BY <1>1 DEF CallType
  <1>5. PICK S : S = tracked \cup handles \cup todo \cup call[a].bag \cup {call[a].who, None}
    OBVIOUS
  <1>6. tracked' \subseteq S /\ handles' \subseteq S /\ todo' \subseteq S /\ B \subseteq S /\ None \in S
    BY <1>1, <1>3, <1>5
  <1>7. CASE Found(u) \/ HeldElsewhere(u, a)
    <2>1. Becomes(a, "drop", None, B) /\ UNCHANGED <<object, state, exit>>
      BY <1>1, <1>2, <1>3, <1>7, ChangedCalls
    <2>2. RecordType' /\ SetsType' /\ Final /\ ShutdownInv'
      BY <1>1, <2>1, StillIsFinal, ShutdownStands DEF RecordType, SetsType
    <2> QED
      BY <1>1, <1>4, <1>5, <1>6, <2>1, <2>2, CallMovesKeeps
  <1>8. CASE ~Found(u) /\ ~HeldElsewhere(u, a) /\ host[u] = "none"
    <2>1. Becomes(a, "drop", None, B) /\ UNCHANGED <<state, exit>> /\ object' = [object EXCEPT ![u] = "freed"]
      BY <1>1, <1>2, <1>3, <1>8, ChangedCalls
    <2>2. RecordType' /\ SetsType' /\ Final /\ ShutdownInv'
      BY <1>1, <1>2, <2>1, StillIsFinal, ShutdownStands DEF RecordType, SetsType
    <2>3. CallType'
      BY <1>1, <1>4, <2>1, CallTypeMoves
    <2>4. pc[u] = "unborn"
      BY <1>2, <1>8 DEF BirthInv
    <2>5. object'[u] = "freed" /\ \A x \in Threads : x # u => object'[x] = object[x]
      BY <1>2, <2>1 DEF RecordType
    <2>6. BirthInv' /\ ExecutingIsAlive'
      BY <1>1, <2>1, <2>4, <2>5 DEF BirthInv, ExecutingIsAlive
    <2>7. PromptInv'
      BY <1>1, <2>2, PromptStands
    <2>8. /\ u # Main /\ u \notin tracked \cup handles \cup todo
          /\ \A x \in Actors : call[x].who # u /\ (x # a => u \notin call[x].bag)
      BY <1>8 DEF HeldElsewhere
    <2>9. ReferencesInv'
      <3>1. ~Referenced(u)'
        BY <1>1, <1>2, <1>3, <2>1, <2>8 DEF Referenced, Becomes
      <3>2. \A x \in Threads : Referenced(x)' => Referenced(x)
        BY <1>1, <1>2, <1>3, <2>1, NoneAssumption DEF Referenced, Becomes
      <3>3. \A x \in Threads : Referenced(x)' => object'[x] = "live"
        BY <2>5, <3>1, <3>2 DEF ReferencesInv
      <3>4. object'[Main] = "live"
        BY <2>5, <2>8, MainAssumption DEF ReferencesInv
      <3>5. ASSUME NEW b \in Actors, call'[b].at = "destroy"
            PROVE  /\ call'[b].who # Main /\ self'[call'[b].who] # "found"
                   /\ call'[b].who \notin tracked' \cup handles' \cup todo' \cup call'[b].bag
                   /\ \A x \in Actors : x # b => call'[x].who # call'[b].who /\ call'[b].who \notin call'[x].bag
        <4>1. b # a /\ call'[b] = call[b]
          BY <2>1, <3>5 DEF Becomes
        <4>2. PICK w \in Threads : w = call[b].who
          BY <3>5, <4>1, CallIs
        <4>3. /\ w # Main /\ ~Found(w) /\ w \notin tracked \cup handles \cup todo \cup call[b].bag
              /\ \A x \in Actors : x # b => call[x].who # w /\ w \notin call[x].bag
          BY <3>5, <4>1, <4>2 DEF ReferencesInv
        <4>4. ASSUME NEW x \in Actors, x # b PROVE call'[x].who # w /\ w \notin call'[x].bag
          BY <1>3, <2>1, <4>2, <4>3, <4>4, NoneAssumption DEF Becomes
        <4>5. self'[w] # "found" /\ w \notin tracked' \cup handles' \cup todo' \cup call[b].bag
          BY <1>1, <4>3 DEF Found
        <4> QED
          BY <4>1, <4>2, <4>3, <4>4, <4>5
      <3> QED
        BY <3>3, <3>4, <3>5 DEF ReferencesInv, Found
    <2> QED
      BY <2>2, <2>3, <2>6, <2>7, <2>9
  <1>9. CASE ~Found(u) /\ ~HeldElsewhere(u, a) /\ host[u] # "none"
    <2>1. Becomes(a, "destroy", u, B) /\ UNCHANGED object /\ Terminates({u}, "destroyed")
      BY <1>1, <1>2, <1>3, <1>9, ChangedCalls
    <2>2. RecordType' /\ SetsType' /\ Final
      BY <1>1, <1>2, <2>1, TerminatesIs DEF RecordType, SetsType
    <2>3. ShutdownInv' /\ PromptInv'
      BY <1>1, <2>2, ShutdownStands, PromptStands
    <2>4. CallType'
      BY <1>1, <1>2, <1>4, <2>1, CallTypeMoves
    <2>5. BirthInv' /\ ExecutingIsAlive'
      BY <1>1, <2>1, <2>2 DEF BirthInv, ExecutingIsAlive, Final
    <2>6. /\ u # Main /\ u \notin tracked \cup handles \cup todo
          /\ \A x \in Actors : call[x].who # u /\ (x # a => u \notin call[x].bag)
      BY <1>9 DEF HeldElsewhere
    <2>7. ReferencesInv'
      <3>1. \A x \in Threads : Referenced(x)' => Referenced(x)
        BY <1>1, <1>2, <1>3, <2>1 DEF Referenced, Becomes
      <3>2. \A x \in Threads : Referenced(x)' => object'[x] = "live"
        BY <2>1, <3>1 DEF ReferencesInv
      <3>3. object'[Main] = "live"
        BY <2>1 DEF ReferencesInv
      <3>4. ASSUME NEW b \in Actors, call'[b].at = "destroy", b # a
            PROVE  /\ call'[b].who # Main /\ self'[call'[b].who] # "found"
                   /\ call'[b].who \notin tracked' \cup handles' \cup todo' \cup call'[b].bag
                   /\ \A x \in Actors : x # b => call'[x].who # call'[b].who /\ call'[b].who \notin call'[x].bag
        <4>1. call'[b] = call[b]
          BY <2>1, <3>4 DEF Becomes
        <4>2. PICK w \in Threads : w = call[b].who
          BY <3>4, <4>1, CallIs
        <4>3. /\ w # Main /\ ~Found(w) /\ w \notin tracked \cup handles \cup todo \cup call[b].bag
              /\ \A x \in Actors : x # b => call[x].who # w /\ w \notin call[x].bag
          BY <3>4, <4>1, <4>2 DEF ReferencesInv
        <4>4. ASSUME NEW x \in Actors, x # b PROVE call'[x].who # w /\ w \notin call'[x].bag
          BY <1>3, <2>1, <2>6, <4>2, <4>3, <4>4 DEF Becomes
        <4>5. self'[w] # "found" /\ w \notin tracked' \cup handles' \cup todo' \cup call[b].bag
          BY <1>1, <4>3 DEF Found
        <4> QED
          BY <4>1, <4>2, <4>3, <4>4, <4>5
      <3>5. /\ call'[a].who # Main /\ self'[call'[a].who] # "found"
            /\ call'[a].who \notin tracked' \cup handles' \cup todo' \cup call'[a].bag
            /\ \A x \in Actors : x # a => call'[x].who # call'[a].who /\ call'[a].who \notin call'[x].bag
        <4>1. call'[a].who = u /\ call'[a].bag = B /\ \A x \in Actors : x # a => call'[x] = call[x]
          BY <2>1 DEF Becomes
        <4>2. self'[u] # "found" /\ u \notin tracked' \cup handles' \cup todo' \cup B
          BY <1>1, <1>3, <1>9, <2>6 DEF Found
        <4> QED
          BY <2>6, <4>1, <4>2
      <3> QED
        BY <3>2, <3>3, <3>4, <3>5 DEF ReferencesInv, Found
    <2> QED
      BY <2>2, <2>3, <2>4, <2>5, <2>7
  <1> QED
    BY <1>7, <1>8, <1>9

\* The last reference is gone: a thread on which the destructor runs, or which
\* outlasts its join, did not find itself in threads_.
LEMMA DestroyKeeps ==
  ASSUME ThreadInv, NEW a \in Actors, Destroy(a)
  PROVE  ThreadInv'
  <1> USE DEF ThreadInv
  <1>1. /\ call[a].at = "destroy" /\ call' = [call EXCEPT ![a].at = "drop", ![a].who = None]
        /\ UNCHANGED <<state, exit, count, pc, self, tracked, handles, late>>
        /\ UNCHANGED <<session, todo, still, copied, unloaded>>
    BY DEF Destroy, refs, world
  <1>2. PICK u \in Threads : u = call[a].who
    BY <1>1, CallIs
  <1>3. /\ u = a \/ Ended(u) \/ (~Done(u) /\ Stuck(u))
        /\ object' = [object EXCEPT ![u] = "freed"]
        /\ host' = [host EXCEPT ![u] = IF u # a /\ Ended(u) /\ host[u] = "running" THEN "joined"
                                       ELSE IF host[u] = "running" THEN "detached" ELSE host[u]]
    BY <1>2 DEF Destroy
  <1>4. /\ u # Main /\ ~Found(u) /\ u \notin tracked \cup handles \cup todo \cup call[a].bag
        /\ \A x \in Actors : x # a => call[x].who # u /\ u \notin call[x].bag
    BY <1>1, <1>2 DEF ReferencesInv
  <1>5. Becomes(a, "drop", None, call[a].bag)
    BY <1>1, ChangedCalls
  <1>6. RecordType' /\ SetsType' /\ Final /\ PromptInv' /\ ShutdownInv'
    BY <1>1, <1>3, StillIsFinal, PromptStands, ShutdownStands DEF RecordType, SetsType
  <1>7. CallType'
    <2>1. a \in Threads => pc[a] \in {"guest", "leave"}
      BY <1>1 DEF CallType
    <2> QED
      BY <1>1, <1>5, <2>1, CallTypeMoves
  <1>8. /\ object'[u] = "freed" /\ (\A x \in Threads : x # u => object'[x] = object[x])
        /\ \A x \in Threads : host'[x] = "none" <=> host[x] = "none"
    BY <1>3 DEF RecordType
  <1>9. BirthInv'
    BY <1>1, <1>8 DEF BirthInv
  <1>10. ExecutingIsAlive'
    <2>1. pc[u] \in Inside => self[u] = "missing"
      BY <1>4 DEF BirthInv, Found, RecordType
    <2>2. CASE u = a
      <3>1. pc[u] \in Inside
        BY <1>1, <2>2 DEF CallType, Inside
      <3> QED
        BY <1>1, <1>8, <2>1, <3>1 DEF ExecutingIsAlive
    <2>3. CASE Ended(u)
      BY <1>1, <1>8, <2>3 DEF ExecutingIsAlive, Ended
    <2>4. CASE Stuck(u)
      <3>1. pc[u] \in Inside
        BY <2>4 DEF Stuck, CallType, Inside
      <3> QED
        BY <1>1, <1>8, <2>1, <3>1 DEF ExecutingIsAlive
    <2> QED
      BY <1>3, <2>2, <2>3, <2>4
  <1>11. ReferencesInv'
    <2>1. ~Referenced(u)'
      BY <1>1, <1>2, <1>4, <1>5, NoneAssumption DEF Referenced, Becomes
    <2>2. \A x \in Threads : Referenced(x)' => Referenced(x)
      BY <1>1, <1>5, NoneAssumption DEF Referenced, Becomes
    <2>3. \A x \in Threads : Referenced(x)' => object'[x] = "live"
      BY <1>8, <2>1, <2>2 DEF ReferencesInv
    <2>4. object'[Main] = "live"
      BY <1>4, <1>8, MainAssumption DEF ReferencesInv
    <2>5. ASSUME NEW b \in Actors, call'[b].at = "destroy"
          PROVE  /\ call'[b].who # Main /\ self'[call'[b].who] # "found"
                 /\ call'[b].who \notin tracked' \cup handles' \cup todo' \cup call'[b].bag
                 /\ \A x \in Actors : x # b => call'[x].who # call'[b].who /\ call'[b].who \notin call'[x].bag
      <3>1. b # a /\ call'[b] = call[b]
        BY <1>5, <2>5 DEF Becomes
      <3>2. PICK w \in Threads : w = call[b].who
        BY <2>5, <3>1, CallIs
      <3>3. /\ w # Main /\ ~Found(w) /\ w \notin tracked \cup handles \cup todo \cup call[b].bag
            /\ \A x \in Actors : x # b => call[x].who # w /\ w \notin call[x].bag
        BY <2>5, <3>1, <3>2 DEF ReferencesInv
      <3>4. ASSUME NEW x \in Actors, x # b PROVE call'[x].who # w /\ w \notin call'[x].bag
        BY <1>5, <3>3, <3>4, NoneAssumption DEF Becomes
      <3>5. self'[w] # "found" /\ w \notin tracked' \cup handles' \cup todo' \cup call[b].bag
        BY <1>1, <3>3 DEF Found
      <3> QED
        BY <3>1, <3>2, <3>3, <3>4, <3>5
    <2> QED
      BY <2>3, <2>4, <2>5 DEF ReferencesInv, Found
  <1> QED
    BY <1>6, <1>7, <1>9, <1>10, <1>11


-----------------------------------------------------------------------------
(* Suspending, resuming and terminating.                                   *)

LEMMA StateStepKeeps ==
  ASSUME ThreadInv, RecordType', Final, PromptInv', UNCHANGED <<object, host, pc, self, tracked, handles, call>>,
         UNCHANGED <<session, todo, still, copied, unloaded>>
  PROVE  ThreadInv'
  <1> USE DEF ThreadInv
  <1>1. SetsType' /\ CallType' /\ ReferencesInv' /\ ShutdownInv'
    BY CallTypeStands, ReferencesStand, ShutdownStands DEF SetsType
  <1>2. BirthInv' /\ ExecutingIsAlive'
    BY DEF BirthInv, ExecutingIsAlive, Final
  <1> QED
    BY <1>1, <1>2

LEMMA SuspendKeeps ==
  ASSUME ThreadInv, NEW t \in Threads, Suspend(t)
  PROVE  ThreadInv' /\ Final
  <1>1. PICK u \in handles :
          /\ SuspendBody(u) /\ UNCHANGED <<object, exit, host, pc, self, tracked, handles, call, late>>
          /\ UNCHANGED <<session, todo, still, copied, unloaded>>
    BY DEF Suspend, refs, world
  <1>2. u \in Threads
    BY DEF ThreadInv, SetsType
  <1>3. CASE Terminated(u)
    <2>1. UNCHANGED <<state, count>>
      BY <1>1, <1>3 DEF SuspendBody
    <2>2. RecordType' /\ Final /\ PromptInv'
      BY <1>1, <2>1, StillIsFinal, PromptStands DEF ThreadInv, RecordType
    <2> QED
      BY <1>1, <2>2, StateStepKeeps
  <1>4. CASE ~Terminated(u)
    <2>1. /\ count' = [count EXCEPT ![u] = count[u] + 1]
          /\ state' = IF count[u] = 0 THEN [state EXCEPT ![u] = "Suspended"] ELSE state
      BY <1>1, <1>4 DEF SuspendBody
    <2>2. RecordType'
      BY <1>1, <1>2, <2>1 DEF ThreadInv, RecordType
    <2>3. /\ count'[u] > 0 /\ (\A x \in Threads : x # u => count'[x] = count[x] /\ state'[x] = state[x])
          /\ state'[u] \in {state[u], "Suspended"}
      BY <1>2, <2>1 DEF ThreadInv, RecordType
    <2>4. Final
      BY <1>1, <1>4, <2>3 DEF Final, Terminated
    <2>5. PromptInv'
      BY <1>1, <1>4, <2>3, <2>4 DEF ThreadInv, PromptInv, Found, Asked, Terminated
    <2> QED
      BY <1>1, <2>2, <2>4, <2>5, StateStepKeeps
  <1> QED
    BY <1>3, <1>4

LEMMA ResumeKeeps ==
  ASSUME ThreadInv, NEW t \in Threads, Resume(t)
  PROVE  ThreadInv' /\ Final
  <1>1. PICK u \in handles :
          /\ ResumeBody(u) /\ UNCHANGED <<object, exit, host, pc, self, tracked, handles, call>>
          /\ UNCHANGED <<session, todo, still, copied, unloaded>>
          /\ late' = [late EXCEPT ![u] = IF count[u] = 1 /\ ~Terminated(u) THEN 0 ELSE late[u]]
    BY DEF Resume, refs, world
  <1>2. u \in Threads
    BY DEF ThreadInv, SetsType
  <1>3. CASE Terminated(u) \/ count[u] = 0
    <2>1. UNCHANGED <<state, count>> /\ late' = late
      BY <1>1, <1>2, <1>3 DEF ResumeBody, ThreadInv, RecordType
    <2>2. RecordType' /\ Final /\ PromptInv'
      BY <1>1, <2>1, StillIsFinal, PromptStands DEF ThreadInv, RecordType
    <2> QED
      BY <1>1, <2>2, StateStepKeeps
  <1>4. CASE ~Terminated(u) /\ count[u] # 0
    <2>1. /\ count' = [count EXCEPT ![u] = count[u] - 1]
          /\ \/ count[u] = 1 /\ state' = [state EXCEPT ![u] = "Ready"] /\ late' = [late EXCEPT ![u] = 0]
             \/ count[u] # 1 /\ state' = state /\ late' = [late EXCEPT ![u] = late[u]]
      BY <1>1, <1>4 DEF ResumeBody
    <2>2. RecordType'
      BY <1>1, <1>2, <1>4, <2>1 DEF ThreadInv, RecordType
    <2>3. /\ \A x \in Threads : x # u => count'[x] = count[x] /\ state'[x] = state[x] /\ late'[x] = late[x]
          /\ state'[u] \in {state[u], "Ready"}
          /\ late'[u] = 0 \/ (late'[u] = late[u] /\ count'[u] > 0)
      BY <1>2, <1>4, <2>1 DEF ThreadInv, RecordType
    <2>4. Final
      BY <1>1, <1>4, <2>3 DEF Final, Terminated
    <2>5. PromptInv'
      BY <1>1, <1>4, <2>3, <2>4 DEF ThreadInv, PromptInv, Found, Asked, Terminated
    <2> QED
      BY <1>1, <2>2, <2>4, <2>5, StateStepKeeps
  <1> QED
    BY <1>3, <1>4

LEMMA TerminateSelfKeeps ==
  ASSUME ThreadInv, NEW t \in Threads, TerminateSelf(t)
  PROVE  ThreadInv' /\ Final
  <1>1. /\ UNCHANGED <<object, count, host, pc, self, tracked, handles, call, late>>
        /\ UNCHANGED <<session, todo, still, copied, unloaded>>
        /\ Terminates({t}, "guest") \/ UNCHANGED <<state, exit>>
    BY DEF TerminateSelf, refs, world
  <1>2. RecordType' /\ Final
    <2>1. CASE Terminates({t}, "guest")
      BY <1>1, <2>1, TerminatesIs DEF ThreadInv, RecordType
    <2>2. CASE UNCHANGED <<state, exit>>
      BY <1>1, <2>2, StillIsFinal DEF ThreadInv, RecordType
    <2> QED
      BY <1>1, <2>1, <2>2
  <1>3. PromptInv'
    BY <1>1, <1>2, PromptStands DEF ThreadInv
  <1> QED
    BY <1>1, <1>2, <1>3, StateStepKeeps

-----------------------------------------------------------------------------
(* The session.  Its host thread is in no call while it waits in stop(), or *)
(* joins the threads it took.                                              *)

SessionInv == session \in {"running", "stopping", "taking"} => call[Session].at = "none"

LEMMA SessionIsApart ==
  ASSUME ThreadInv, NEW t \in Threads,
         \/ HostStep(t) \/ Poll(t) \/ Wedge(t) \/ BlockEnd(t) \/ Fault(t) \/ GuestCall(t) \/ CallStep(t)
  PROVE  call'[Session] = call[Session] /\ session' = session
  <1>0. t # Session /\ Session \in Actors /\ call \in [Actors -> CallRecord]
    BY MainAssumption DEF Actors, ThreadInv, CallType
  <1>1. CASE HostStep(t) \/ Poll(t) \/ Wedge(t) \/ BlockEnd(t) \/ Fault(t)
    BY <1>0, <1>1 DEF HostStep, Pass, Sleep, Enter, Lookup, Polled, Recheck, NextBlock, Return, Leave, Complete,
                      Signal, Exit, Poll, Wedge, BlockEnd, Fault, world
  <1>2. CASE GuestCall(t)
    BY <1>0, <1>2 DEF GuestCall, CreateCall, Close, Suspend, Resume, TerminateSelf, JoinCall, world
  <1>3. CASE CallStep(t)
    BY <1>0, <1>3 DEF CallStep, Reap, Drop, Destroy, Dropped, Make, Insert, Start, Join, world
  <1> QED
    BY <1>1, <1>2, <1>3

LEMMA SweepKeeps ==
  ASSUME ThreadInv, SessionInv, StopActive \/ Shutdown
  PROVE  ThreadInv' /\ SessionInv' /\ Final
  <1> USE DEF ThreadInv
  <1>0. Session \in Actors /\ Session \notin Threads
    BY MainAssumption DEF Actors
  <1>1. /\ UNCHANGED <<object, count, host, pc, self, tracked, handles, late, todo, still, copied, unloaded>>
        /\ session \in {"running", "stopped"} /\ session' \in {"stopped", "joining"}
        /\ Terminates(tracked, "host") /\ call[Session].at = "none"
        /\ call' = [call EXCEPT ![Session] = [NoCall EXCEPT !.op = "return", !.at = "drop", !.bag = tracked]]
    BY NoCallIs DEF StopActive, Shutdown, Sweep, refs, SessionInv, Idle
  <1>2. Final /\ RecordType' /\ SetsType'
    BY <1>1, TerminatesIs DEF RecordType, SetsType
  <1>3. ShutdownInv' /\ SessionInv'
    BY <1>1 DEF ShutdownInv, SessionInv
  <1>4. Becomes(Session, "drop", None, tracked)
    BY <1>0, <1>1, FreshCalls DEF SetsType
  <1>5. PICK S : S = tracked \cup handles \cup todo \cup call[Session].bag \cup {call[Session].who, None}
    OBVIOUS
  <1>6. tracked' \subseteq S /\ handles' \subseteq S /\ todo' \subseteq S /\ tracked \subseteq S /\ None \in S
    BY <1>1, <1>5
  <1> QED
    BY <1>0, <1>1, <1>2, <1>3, <1>4, <1>5, <1>6, CallMovesKeeps

LEMMA StopKeeps ==
  ASSUME ThreadInv, SessionInv, StopIdle \/ StopJoined
  PROVE  ThreadInv' /\ SessionInv' /\ Final
  <1> USE DEF ThreadInv
  <1>1. /\ UNCHANGED <<object, state, exit, count, pc, self, tracked, handles, call, late>>
        /\ UNCHANGED <<todo, still, copied, unloaded>>
        /\ session \in {"running", "stopping"} /\ session' \in {"stopping", "stopped"}
        /\ host' = host \/ host' = [host EXCEPT ![Main] = IF host[Main] = "running" THEN "joined" ELSE host[Main]]
    BY DEF StopIdle, StopJoined, record, refs
  <1>2. RecordType' /\ SetsType' /\ \A x \in Threads : host'[x] = "none" <=> host[x] = "none"
    BY <1>1, MainAssumption DEF RecordType, SetsType
  <1>3. ShutdownInv' /\ SessionInv'
    BY <1>1 DEF ShutdownInv, SessionInv
  <1>4. Final /\ CallType' /\ ReferencesInv' /\ PromptInv'
    BY <1>1, StillIsFinal, CallTypeStands, ReferencesStand, PromptStands
  <1>5. BirthInv' /\ ExecutingIsAlive'
    BY <1>1, <1>2 DEF BirthInv, ExecutingIsAlive
  <1> QED
    BY <1>2, <1>3, <1>4, <1>5

LEMMA SweptKeeps ==
  ASSUME ThreadInv, SessionInv, Swept \/ DropCopied \/ Unload
  PROVE  ThreadInv' /\ SessionInv' /\ Final
  <1> USE DEF ThreadInv
  <1>0. Session \in Actors /\ Session \notin Threads
    BY MainAssumption DEF Actors
  <1>1. UNCHANGED <<object, state, exit, count, host, pc, self, tracked, handles, late, todo, still, copied>>
    BY DEF Swept, DropCopied, Unload, record, refs, world
  <1>2. Final /\ RecordType'
    BY <1>1, StillIsFinal DEF RecordType
  <1>3. PICK S : S = tracked \cup handles \cup todo \cup call[Session].bag \cup {call[Session].who, None}
    OBVIOUS
  <1>4. tracked' \subseteq S /\ handles' \subseteq S /\ todo' \subseteq S /\ {} \subseteq S /\ None \in S
        /\ call[Session].bag \subseteq S
    BY <1>1, <1>3
  <1>5. CASE Swept
    <2>1. /\ UNCHANGED <<session, unloaded>> /\ call[Session].at = "drop"
          /\ call' = [call EXCEPT ![Session] = NoCall]
      BY <1>5 DEF Swept, world
    <2>2. Becomes(Session, "none", None, {})
      BY <1>0, <2>1, FreshCalls
    <2>3. SetsType' /\ ShutdownInv' /\ SessionInv'
      BY <1>1, <1>2, <2>1, ShutdownStands DEF SetsType, SessionInv
    <2> QED
      BY <1>0, <1>1, <1>2, <1>3, <1>4, <2>1, <2>2, <2>3, CallMovesKeeps
  <1>6. CASE DropCopied
    <2>1. /\ session = "taking" /\ todo = {} /\ session' = "dropping" /\ UNCHANGED unloaded /\ call[Session].at = "none"
          /\ call' = [call EXCEPT ![Session].at = "drop"]
      BY <1>6 DEF DropCopied, SessionInv
    <2>2. Becomes(Session, "drop", None, call[Session].bag)
      BY <1>0, <2>1, CallIs, ChangedCalls
    <2>3. SetsType' /\ ShutdownInv' /\ SessionInv'
      BY <1>1, <2>1 DEF SetsType, ShutdownInv, SessionInv, Terminated
    <2> QED
      BY <1>0, <1>1, <1>2, <1>3, <1>4, <2>1, <2>2, <2>3, CallMovesKeeps
  <1>7. CASE Unload
    <2>1. /\ session = "dropping" /\ session' = "ended" /\ unloaded' = (still = {}) /\ call[Session].at = "drop"
          /\ call' = [call EXCEPT ![Session] = NoCall]
      BY <1>7 DEF Unload
    <2>2. Becomes(Session, "none", None, {})
      BY <1>0, <2>1, FreshCalls
    <2>3. SetsType' /\ ShutdownInv' /\ SessionInv'
      BY <1>1, <2>1 DEF SetsType, ShutdownInv, SessionInv, Terminated
    <2> QED
      BY <1>0, <1>1, <1>2, <1>3, <1>4, <2>1, <2>2, <2>3, CallMovesKeeps
  <1> QED
    BY <1>5, <1>6, <1>7

LEMMA TakeKeeps ==
  ASSUME ThreadInv, SessionInv, Take
  PROVE  ThreadInv' /\ SessionInv' /\ Final
  <1> USE DEF ThreadInv
  <1>0. Session \in Actors /\ Session \notin Threads
    BY MainAssumption DEF Actors
  <1>1. /\ UNCHANGED <<object, count, pc, self, handles, call, still, unloaded, late>>
        /\ session = "joining" /\ session' = "taking" /\ call[Session] = NoCall
        /\ todo' = tracked /\ copied' = tracked /\ tracked' = {} /\ Terminates(tracked, "host")
        /\ host' = [host EXCEPT ![Main] = IF host[Main] = "running" THEN "joined" ELSE host[Main]]
    BY DEF Take, Idle
  <1>2. call[Session].at = "none" /\ call[Session].who = None /\ call[Session].bag = {}
    BY <1>1, NoCallIs
  <1>3. Becomes(Session, "none", None, {})
    BY <1>1, <1>2 DEF Becomes, CallType
  <1>4. Final /\ (\A t \in tracked : state'[t] = "Terminated") /\ RecordType' /\ SetsType'
        /\ \A x \in Threads : host'[x] = "none" <=> host[x] = "none"
    BY <1>1, TerminatesIs, MainAssumption DEF RecordType, SetsType
  <1>5. ShutdownInv' /\ SessionInv'
    BY <1>1, <1>2, <1>4 DEF ShutdownInv, SessionInv, Terminated
  <1>6. PICK S : S = tracked \cup handles \cup todo \cup call[Session].bag \cup {call[Session].who, None}
    OBVIOUS
  <1>7. tracked' \subseteq S /\ handles' \subseteq S /\ todo' \subseteq S /\ {} \subseteq S /\ None \in S
    BY <1>1, <1>6
  <1> QED
    BY <1>0, <1>1, <1>2, <1>3, <1>4, <1>5, <1>6, <1>7, CallMovesKeeps

LEMMA JoinCopiedKeeps ==
  ASSUME ThreadInv, SessionInv, JoinCopied
  PROVE  ThreadInv' /\ SessionInv' /\ Final
  <1> USE DEF ThreadInv
  <1>0. Session \in Actors /\ Session \notin Threads
    BY MainAssumption DEF Actors
  <1>1. PICK u \in todo :
          /\ UNCHANGED <<object, state, exit, count, pc, self, tracked, handles, late, session, copied, unloaded>>
          /\ session = "taking"
          /\ still' = IF host[u] # "none" /\ ~Ended(u) THEN still \cup {u} ELSE still
          /\ host' = [host EXCEPT ![u] = IF Ended(u) /\ host[u] = "running" THEN "joined" ELSE host[u]]
          /\ todo' = todo \ {u}
          /\ call' = [call EXCEPT ![Session].op = "return", ![Session].bag = call[Session].bag \cup {u}]
    BY DEF JoinCopied, refs
  <1>2. u \in Threads /\ call[Session].at = "none" /\ call[Session].who = None /\ call[Session].bag \subseteq Threads
    BY <1>0, <1>1, CallIs DEF SessionInv, SetsType
  <1>3. PICK B \in SUBSET Threads : B = call[Session].bag \cup {u}
    BY <1>2
  <1>4. Becomes(Session, "none", None, B)
    BY <1>0, <1>1, <1>2, <1>3, ChangedCalls
  <1>5. /\ RecordType' /\ SetsType' /\ Final
        /\ \A x \in Threads : host'[x] = "none" <=> host[x] = "none"
    BY <1>1, <1>2, StillIsFinal DEF RecordType, SetsType
  <1>6. ShutdownInv'
    <2>1. u \in still' \/ pc[u] \in {"unborn", "gone"}
      BY <1>1, <1>2 DEF BirthInv, Ended
    <2>2. still \subseteq still' /\ todo' = todo \ {u} /\ ~unloaded
      BY <1>1 DEF ShutdownInv
    <2>3. \A t \in copied : Terminated(t)' /\ (t \in todo' \cup still' \/ pc'[t] \in {"unborn", "gone"})
      BY <1>1, <2>1, <2>2 DEF ShutdownInv, Terminated
    <2> QED
      BY <1>1, <2>2, <2>3 DEF ShutdownInv
  <1>7. SessionInv'
    BY <1>4 DEF SessionInv, Becomes
  <1>8. PICK S : S = tracked \cup handles \cup todo \cup call[Session].bag \cup {call[Session].who, None}
    OBVIOUS
  <1>9. tracked' \subseteq S /\ handles' \subseteq S /\ todo' \subseteq S /\ B \subseteq S /\ None \in S
    BY <1>1, <1>3, <1>8
  <1> QED
    BY <1>0, <1>1, <1>2, <1>4, <1>5, <1>6, <1>7, <1>8, <1>9, CallMovesKeeps


-----------------------------------------------------------------------------
LEMMA HostStepKeeps ==
  ASSUME ThreadInv, NEW t \in Threads, HostStep(t) \/ Poll(t) \/ Wedge(t) \/ BlockEnd(t) \/ Fault(t)
  PROVE  ThreadInv' /\ Final
  <1>1. CASE \/ Pass(t) \/ Polled(t) \/ Recheck(t) \/ Return(t) \/ Signal(t)
             \/ Poll(t) \/ Wedge(t) \/ BlockEnd(t) \/ Fault(t)
    <2>1. PcMoves(t)
      BY <1>1, MovesArePc
    <2> QED
      BY <2>1, PcMovesKeeps, StillIsFinal DEF PcMoves
  <1>2. CASE Sleep(t)
    BY <1>2, SleepKeeps, StillIsFinal DEF Sleep, record
  <1>3. CASE Enter(t)
    BY <1>3, EnterKeeps
  <1>4. CASE Lookup(t)
    BY <1>4, LookupKeeps, StillIsFinal DEF Lookup, record
  <1>5. CASE NextBlock(t)
    BY <1>5, NextBlockKeeps, StillIsFinal DEF NextBlock, record
  <1>6. CASE Leave(t)
    BY <1>6, LeaveKeeps, StillIsFinal DEF Leave, record
  <1>7. CASE Complete(t)
    BY <1>7, CompleteKeeps
  <1>8. CASE Exit(t)
    BY <1>8, ExitKeeps, StillIsFinal DEF Exit
  <1> QED
    BY <1>1, <1>2, <1>3, <1>4, <1>5, <1>6, <1>7, <1>8, Zenon DEF HostStep

LEMMA GuestCallKeeps ==
  ASSUME ThreadInv, NEW t \in Threads, GuestCall(t)
  PROVE  ThreadInv' /\ Final
  <1>1. CASE CreateCall(t)
    BY <1>1, CreateCallKeeps, StillIsFinal DEF CreateCall, record
  <1>2. CASE Close(t)
    BY <1>2, CloseKeeps, StillIsFinal DEF Close, record
  <1>3. CASE Suspend(t)
    BY <1>3, SuspendKeeps
  <1>4. CASE Resume(t)
    BY <1>4, ResumeKeeps
  <1>5. CASE TerminateSelf(t)
    BY <1>5, TerminateSelfKeeps
  <1>6. CASE JoinCall(t)
    BY <1>6, JoinCallKeeps, StillIsFinal DEF JoinCall, record
  <1> QED
    BY <1>1, <1>2, <1>3, <1>4, <1>5, <1>6, Zenon DEF GuestCall

LEMMA CallStepKeeps ==
  ASSUME ThreadInv, NEW t \in Threads, CallStep(t)
  PROVE  ThreadInv' /\ Final
  <1>0. t \in Actors
    BY DEF Actors
  <1>1. CASE Reap(t)
    BY <1>1, ReapKeeps, StillIsFinal DEF Reap, record
  <1>2. CASE Drop(t)
    BY <1>0, <1>2, DropKeeps
  <1>3. CASE Destroy(t)
    BY <1>0, <1>3, DestroyKeeps, StillIsFinal DEF Destroy
  <1>4. CASE Dropped(t)
    BY <1>4, DroppedKeeps, StillIsFinal DEF Dropped, record
  <1>5. CASE Make(t)
    BY <1>5, MakeKeeps, StillIsFinal DEF Make
  <1>6. CASE Insert(t)
    BY <1>6, InsertKeeps
  <1>7. CASE Start(t)
    BY <1>7, StartKeeps
  <1>8. CASE Join(t)
    BY <1>8, JoinKeeps, StillIsFinal DEF Join
  <1> QED
    BY <1>1, <1>2, <1>3, <1>4, <1>5, <1>6, <1>7, <1>8, Zenon DEF CallStep

LEMMA SessionKeeps ==
  ASSUME ThreadInv, SessionInv, SessionCall \/ SessionStep
  PROVE  ThreadInv' /\ SessionInv' /\ Final
  <1>0. Session \in Actors
    BY DEF Actors
  <1>1. CASE StopActive \/ Shutdown
    BY <1>1, SweepKeeps
  <1>2. CASE StopIdle \/ StopJoined
    BY <1>2, StopKeeps
  <1>3. CASE Swept \/ DropCopied \/ Unload
    BY <1>3, SweptKeeps
  <1>4. CASE Take
    BY <1>4, TakeKeeps
  <1>5. CASE JoinCopied
    BY <1>5, JoinCopiedKeeps
  <1>6. CASE Drop(Session)
    <2>1. call[Session].at = "drop" /\ session' = session
      BY <1>6 DEF Drop, world
    <2>2. SessionInv'
      BY <2>1 DEF SessionInv
    <2> QED
      BY <1>0, <1>6, <2>2, DropKeeps
  <1>7. CASE Destroy(Session)
    <2>1. call[Session].at = "destroy" /\ session' = session
      BY <1>7 DEF Destroy, world
    <2>2. SessionInv'
      BY <2>1 DEF SessionInv
    <2> QED
      BY <1>0, <1>7, <2>2, DestroyKeeps, StillIsFinal DEF Destroy
  <1> QED
    BY <1>1, <1>2, <1>3, <1>4, <1>5, <1>6, <1>7, Zenon DEF SessionCall, SessionStep

LEMMA StepKeeps ==
  ASSUME ThreadInv, SessionInv, Next
  PROVE  ThreadInv' /\ SessionInv' /\ Final
  <1>1. CASE SessionCall \/ SessionStep
    BY <1>1, SessionKeeps
  <1>2. ASSUME NEW t \in Threads,
               \/ HostStep(t) \/ Poll(t) \/ Wedge(t) \/ BlockEnd(t) \/ Fault(t) \/ GuestCall(t) \/ CallStep(t)
        PROVE  ThreadInv' /\ SessionInv' /\ Final
    <2>1. ThreadInv' /\ Final
      BY <1>2, HostStepKeeps, GuestCallKeeps, CallStepKeeps
    <2>2. SessionInv'
      BY <1>2, SessionIsApart DEF SessionInv
    <2> QED
      BY <2>1, <2>2
  <1> QED
    BY <1>1, <1>2, Zenon DEF Next

LEMMA ThreadsStart == Init => ThreadInv /\ SessionInv
  <1> SUFFICES ASSUME Init PROVE ThreadInv /\ SessionInv
    OBVIOUS
  <1> USE MainAssumption, NoneAssumption DEF Init
  <1>1. \A a \in Actors : call[a].at = "none" /\ call[a].who = None /\ call[a].bag = {}
    BY NoCallIs
  <1>2. RecordType /\ SetsType
    <2>1. "unborn" \in Labels /\ "entry" \in Labels
      BY DEF Labels, Early
    <2>2. object \in [Threads -> {"none", "live", "freed"}]
      OBVIOUS
    <2>3. state \in [Threads -> {"Initialized", "Ready", "Suspended", "Running", "Terminated"}]
      OBVIOUS
    <2>4. /\ exit \in [Threads -> {None, "returned", "guest", "host", "destroyed"}]
          /\ count \in [Threads -> Nat] /\ late \in [Threads -> 0 .. 2]
      OBVIOUS
    <2>5. host \in [Threads -> {"none", "running", "joined", "detached"}]
      OBVIOUS
    <2>6. pc \in [Threads -> Labels] /\ self \in [Threads -> {None, "found", "missing"}]
      BY <2>1
    <2> QED
      BY <2>2, <2>3, <2>4, <2>5, <2>6 DEF RecordType, SetsType
  <1>3. CallType
    BY <1>1, NoCallIs DEF CallType, CallFits, Actors
  <1>4. BirthInv /\ ExecutingIsAlive
    BY DEF BirthInv, ExecutingIsAlive, Early, Inside
  <1>5. ReferencesInv
    BY <1>1 DEF ReferencesInv, Referenced
  <1>6. PromptInv /\ ShutdownInv
    BY DEF PromptInv, ShutdownInv, Found
  <1>7. SessionInv
    BY <1>1 DEF SessionInv, Actors
  <1> QED
    BY <1>2, <1>3, <1>4, <1>5, <1>6, <1>7 DEF ThreadInv

LEMMA ThreadsStay ==
  ASSUME ThreadInv, SessionInv, UNCHANGED vars
  PROVE  ThreadInv' /\ SessionInv'
  <1>1. /\ UNCHANGED <<object, state, exit, count, host, pc, self, tracked, handles, call, late>>
        /\ UNCHANGED <<session, todo, still, copied, unloaded>>
    BY DEF vars, record, refs, world
  <1>2. Final /\ RecordType' /\ PromptInv'
    BY <1>1, StillIsFinal, PromptStands DEF ThreadInv, RecordType
  <1> QED
    BY <1>1, <1>2, StateStepKeeps DEF SessionInv

LEMMA ThreadsAlways == Spec => [](ThreadInv /\ SessionInv)
  <1>1. ThreadInv /\ SessionInv /\ [Next]_vars => (ThreadInv /\ SessionInv)'
    BY StepKeeps, ThreadsStay
  <1> QED
    BY <1>1, ThreadsStart, PTL DEF Spec

-----------------------------------------------------------------------------
\* KernelThread::terminate() and the last section of thread_main: a thread that
\* has been terminated stays so and keeps the exit code it was given first,
\* whoever suspends, resumes, terminates, joins or destroys it later and even
\* when its own entry function returns after that.
THEOREM TerminationStays == Spec => TerminationIsFinal
  <1>1. ThreadInv /\ SessionInv /\ [Next]_vars
          => [\A t \in Threads : Terminated(t) => Terminated(t)' /\ exit'[t] = exit[t]]_vars
    <2> SUFFICES ASSUME ThreadInv, SessionInv, Next
                 PROVE  \A t \in Threads : Terminated(t) => Terminated(t)' /\ exit'[t] = exit[t]
      OBVIOUS
    <2>1. Final
      BY StepKeeps
    <2> QED
      BY <2>1 DEF Final
  <1> QED
    BY <1>1, ThreadsAlways, PTL DEF Spec, TerminationIsFinal

\* wait_while_suspended() at the loop's boundary, its second test and the
\* safepoints: a thread that found itself in threads_ begins at most one block
\* between a suspend or a terminate and its next safepoint.
THEOREM SuspendTakesABlock == Spec => []SuspendIsPrompt
  <1>1. ThreadInv => SuspendIsPrompt
    BY DEF ThreadInv, PromptInv, SuspendIsPrompt
  <1> QED
    BY <1>1, ThreadsAlways, PTL

\* ~KernelThread() runs where the last reference goes, which may be any thread:
\* the object is not destroyed under a host thread that runs on it, unless that
\* thread did not find itself in threads_ and so holds no reference.
THEOREM ExecutingHasObject == Spec => []ExecutingIsAlive
  <1>1. ThreadInv => ExecutingIsAlive
    BY DEF ThreadInv
  <1> QED
    BY <1>1, ThreadsAlways, PTL

\* ThreadManager::shutdown() and unload_native_extension(): the code is unloaded
\* only when every thread of the list that was taken has ended or never began,
\* however many were still to be started when it was taken.
THEOREM UnloadsAfterJoins == Spec => []JoinedBeforeUnload
  <1>1. ThreadInv => JoinedBeforeUnload
    BY DEF ThreadInv, ShutdownInv, JoinedBeforeUnload
  <1> QED
    BY <1>1, ThreadsAlways, PTL

=============================================================================
