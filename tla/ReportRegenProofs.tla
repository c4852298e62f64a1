--------------------------- MODULE ReportRegenProofs ---------------------------
(***************************************************************************)
(* Proofs about ReportRegen, for any number of requests, workers, templates *)
(* and report identifiers, and any debounces.                               *)
(***************************************************************************)
EXTENDS ReportRegen, FiniteSetTheorems, TLAPS

\* The version next_version_number returns is a natural number.
LEMMA NextVersionIsNat ==
    \A s : NextVersion(s) \subseteq VersionNumbers /\ VersionNumbers \subseteq Nat
PROOF
<1>1. Cardinality(Reports) \in Nat
    BY ConstantsAssumption, FS_CardinalityType
<1> QED BY <1>1 DEF NextVersion, VersionNumbers

\* Fresh identifiers are unused and differ from each other.
LEMMA FreshIsInjection ==
    ASSUME NEW S, NEW new \in Fresh(S)
    PROVE  /\ new \in [S -> Unused]
           /\ \A s, t \in S : new[s] = new[t] => s = t
PROOF
<1> DEFINE Injections == {f \in [S -> Unused] : \A s, t \in S : f[s] = f[t] => s = t}
<1>1. Fresh(S) = IF Injections = {} THEN {} ELSE {CHOOSE f \in Injections : TRUE}
    BY DEF Fresh
<1>2. new \in Injections
    <2> HIDE DEF Injections
    <2> QED BY <1>1
<1> QED BY <1>2

\* The durations are natural numbers.
LEMMA Durations ==
    /\ Margin \in Nat /\ Handling \in Nat /\ Backlog \in Nat /\ Visibility \in Nat
    /\ \A d \in Debounces : d \in Nat
PROOF BY ConstantsAssumption

-----------------------------------------------------------------------------
(* Type correctness                                                          *)

\* Every store of a fresh deployment has its type.
LEMMA InitTypeOK == Init => TypeOK
PROOF
<1> SUFFICES ASSUME Init PROVE TypeOK
    OBVIOUS
<1> USE DEF Init
<1>1. client \in [Clients -> Request] /\ run \in [Workers -> Run]
    BY DEF Request, Run
<1>2. rows \in [Reports -> Row]
    BY DEF Row, NoRow, Seeds
<1>3. /\ key \in [token : Nat, ttl : Nat]
      /\ lastRun \in [token : Nat, age : Nat]
    OBVIOUS
<1>4. messages \subseteq Message
    OBVIOUS
<1> QED BY <1>1, <1>2, <1>3, <1>4 DEF TypeOK

\* No step of a handler, a worker, the clock or a fault leaves the types.
LEMMA StepTypeOK == TypeOK /\ [Next]_vars => TypeOK'
PROOF
<1> SUFFICES ASSUME TypeOK, [Next]_vars PROVE TypeOK'
    OBVIOUS
<1> USE Durations DEF TypeOK, triggerVars, tableVars, boundVars, historyVars
<1>1. ASSUME NEW c \in Clients, Arm(c) PROVE TypeOK'
    BY <1>1 DEF Arm, Request
<1>2. ASSUME NEW c \in Clients, ArmFails(c) PROVE TypeOK'
    BY <1>2 DEF ArmFails, Fault, Request
<1>3. ASSUME NEW c \in Clients, Schedule(c) PROVE TypeOK'
    BY <1>3 DEF Schedule, Request, Message, Idle
<1>4. ASSUME NEW c \in Clients, ScheduleFails(c) PROVE TypeOK'
    BY <1>4 DEF ScheduleFails, Fault, Request, Idle
<1>5. ASSUME NEW c \in Clients, Commit(c) PROVE TypeOK'
    BY <1>5 DEF Commit, Request
<1>6. ASSUME NEW c \in Clients, Rollback(c) PROVE TypeOK'
    BY <1>6 DEF Rollback, Request
<1>7. ASSUME NEW w \in Workers, NEW m \in messages, CheckPasses(w, m) PROVE TypeOK'
    BY <1>7 DEF CheckPasses, Message, Run
<1>8. ASSUME NEW w \in Workers, NEW m \in messages, CheckSkips(w, m) PROVE TypeOK'
    BY <1>8 DEF CheckSkips
<1>9. ASSUME NEW w \in Workers, NEW m \in messages, CheckFails(w, m) PROVE TypeOK'
    BY <1>9 DEF CheckFails, Fault
<1>10. ASSUME NEW w \in Workers, Plan(w) PROVE TypeOK'
    <2>1. CASE LiveSeeds = {}
        BY <1>10, <2>1 DEF Plan, Run
    <2>2. CASE LiveSeeds # {}
        <3>1. LiveSeeds \subseteq Seeds
            BY DEF LiveSeeds, Row
        <3>2. PICK v \in [Seeds -> VersionNumbers] :
                  run' = [run EXCEPT ![w] = [pc |-> "planned", token |-> run[w].token,
                                             seeds |-> LiveSeeds, version |-> v]]
            BY <1>10, <2>2 DEF Plan
        <3>3. v \in [Seeds -> Nat]
            BY NextVersionIsNat
        <3>4. run[w].token \in Nat
            BY <1>10 DEF Plan, Run, Idle
        <3>5. run' \in [Workers -> Run]
            BY <3>1, <3>2, <3>3, <3>4 DEF Run
        <3> QED BY <1>10, <3>5 DEF Plan
    <2> QED BY <2>1, <2>2
<1>11. ASSUME NEW w \in Workers, PlanFails(w) PROVE TypeOK'
    BY <1>11 DEF PlanFails, Fault, Run
<1>12. ASSUME NEW w \in Workers, CreateRows(w) PROVE TypeOK'
    BY <1>12, FreshIsInjection DEF CreateRows, Run, Idle, Row, Unused
<1>13. ASSUME NEW w \in Workers, CreateFails(w) PROVE TypeOK'
    BY <1>13 DEF CreateFails, Run
<1>14. ASSUME NEW w \in Workers, NEW id \in Reports, Dispatch(w, id) PROVE TypeOK'
    BY <1>14 DEF Dispatch, Run, Idle
<1>15. ASSUME NEW w \in Workers, DispatchFails(w) PROVE TypeOK'
    BY <1>15 DEF DispatchFails, Fault, Run
<1>16. ASSUME NEW w \in Workers, FinishRun(w) PROVE TypeOK'
    BY <1>16 DEF FinishRun, Run
<1>17. ASSUME NEW w \in Workers, CrashRun(w) PROVE TypeOK'
    BY <1>17 DEF CrashRun, Fault, Run, Message
<1>18. ASSUME NEW m \in messages, CrashWaiting(m) PROVE TypeOK'
    BY <1>18 DEF CrashWaiting, Fault, Message
<1>19. ASSUME NEW c \in Clients, NEW s \in Seeds, EnqueueRead(c, s) PROVE TypeOK'
    BY <1>19, NextVersionIsNat DEF EnqueueRead, Request
<1>20. ASSUME NEW c \in Clients, EnqueueCommit(c) PROVE TypeOK'
    BY <1>20, FreshIsInjection DEF EnqueueCommit, Request, Idle, Row, Unused
<1>21. ASSUME NEW c \in Clients, EnqueueRejected(c) PROVE TypeOK'
    BY <1>21 DEF EnqueueRejected, Request
<1>22. ASSUME NEW c \in Clients, EnqueueSend(c) PROVE TypeOK'
    BY <1>22 DEF EnqueueSend, Request, Idle
<1>23. ASSUME NEW c \in Clients, EnqueueSendFails(c) PROVE TypeOK'
    BY <1>23 DEF EnqueueSendFails, Fault, Request
<1>24. ASSUME NEW id \in Reports, Render(id) PROVE TypeOK'
    BY <1>24 DEF Render, Row
<1>25. ASSUME NEW id \in Reports, DeleteReport(id) PROVE TypeOK'
    BY <1>25 DEF DeleteReport, Deletion, Row
<1>26. ASSUME NEW t \in Templates, DeleteTemplate(t) PROVE TypeOK'
    BY <1>26 DEF DeleteTemplate, Deletion, Row, Seeds
<1>27. CASE Evict
    BY <1>27 DEF Evict, Fault
<1>28. CASE Tick
    BY <1>28 DEF Tick, Open, Request, Idle, Message
<1>29. CASE UNCHANGED vars
    BY <1>29 DEF vars
<1> QED
    BY <1>1, <1>2, <1>3, <1>4, <1>5, <1>6, <1>7, <1>8, <1>9, <1>10, <1>11, <1>12, <1>13,
       <1>14, <1>15, <1>16, <1>17, <1>18, <1>19, <1>20, <1>21, <1>22, <1>23, <1>24, <1>25,
       <1>26, <1>27, <1>28, <1>29
    DEF Next, HandlerStep, WorkerStep

\* Every state has the types the code's columns, keys and messages have; the
\* stored TTL never runs below zero.
THEOREM TypeCorrect == Spec => []TypeOK
PROOF BY InitTypeOK, StepTypeOK, PTL DEF Spec

-----------------------------------------------------------------------------
(* Tokens, their time to live and the runs they start                        *)

TokenInvariant ==
    /\ TokensHandedOut
    /\ UnscheduledIsPrivate
    /\ TtlRunsFromSet
    /\ TokenOutlivesRun
    /\ RunWaitsForHandlers

\* What all other steps leave alone: requests between trigger and COMMIT, the
\* trigger's stores, and the token of a run.
TokensUntouched ==
    /\ armed' = armed /\ key' = key /\ messages' = messages
    /\ ~broken' => ~broken
    /\ \A c \in Clients : \/ client'[c] = client[c]
                          \/ /\ client[c].pc \notin {"armed", "handled"}
                             /\ client'[c].pc \notin {"armed", "handled"}
    /\ \A w \in Workers : run'[w] # Idle => run[w] # Idle /\ run'[w].token = run[w].token

\* No token is handed out at the start.
LEMMA InitTokens == Init => TokenInvariant
PROOF BY DEF Init, Idle, TokenInvariant, TokensHandedOut, UnscheduledIsPrivate, TtlRunsFromSet,
             TokenOutlivesRun, RunWaitsForHandlers, Open

\* Steps that touch no token, message or open request keep the token invariant.
LEMMA UntouchedKeepsTokens ==
    TypeOK /\ TokenInvariant /\ TokensUntouched => TokenInvariant'
PROOF
<1> SUFFICES ASSUME TypeOK, TokenInvariant, TokensUntouched PROVE TokenInvariant'
    OBVIOUS
<1> USE DEF TokenInvariant, TokensUntouched, Open
<1>1. TokensHandedOut'
    BY DEF TokensHandedOut
<1>2. UnscheduledIsPrivate'
    BY DEF UnscheduledIsPrivate
<1>3. TtlRunsFromSet'
    BY DEF TtlRunsFromSet
<1>4. TokenOutlivesRun'
    BY DEF TokenOutlivesRun
<1>5. RunWaitsForHandlers'
    BY DEF RunWaitsForHandlers, NewestUnscheduled
<1> QED BY <1>1, <1>2, <1>3, <1>4, <1>5

\* With the timing of the settings every step keeps the token invariant: the heart
\* is Schedule, which starts the newest run, and Tick, which ages everything.
LEMMA StepTokens ==
    ASSUME Timely, TypeOK, TokenInvariant, [Next]_vars
    PROVE  TokenInvariant'
PROOF
<1> USE Durations DEF triggerVars, tableVars, boundVars, historyVars
<1>1. ASSUME NEW c \in Clients, Arm(c) PROVE TokenInvariant'
    <2> USE <1>1 DEF Arm, TypeOK, TokenInvariant, Request, Run, Message, Idle
    <2>1. TokensHandedOut'
        BY DEF TokensHandedOut
    <2>2. UnscheduledIsPrivate'
        BY DEF UnscheduledIsPrivate, TokensHandedOut
    <2>3. TtlRunsFromSet'
        BY DEF TtlRunsFromSet, TokensHandedOut
    <2>4. TokenOutlivesRun'
        BY DEF TokenOutlivesRun, TokensHandedOut
    <2>5. RunWaitsForHandlers'
        BY DEF RunWaitsForHandlers, NewestUnscheduled, Open
    <2> QED BY <2>1, <2>2, <2>3, <2>4, <2>5
<1>2. ASSUME NEW c \in Clients, ArmFails(c) PROVE TokenInvariant'
    <2> USE <1>2 DEF ArmFails, TypeOK, TokenInvariant, Request, Run, Message, Idle
    <2>1. TokensHandedOut'
        BY DEF TokensHandedOut
    <2>2. UnscheduledIsPrivate'
        BY DEF UnscheduledIsPrivate
    <2>3. TtlRunsFromSet'
        BY DEF TtlRunsFromSet
    <2>4. TokenOutlivesRun'
        BY DEF TokenOutlivesRun
    <2>5. RunWaitsForHandlers'
        BY DEF RunWaitsForHandlers, NewestUnscheduled, Open
    <2> QED BY <2>1, <2>2, <2>3, <2>4, <2>5
<1>3. ASSUME NEW c \in Clients, Schedule(c) PROVE TokenInvariant'
    <2> USE <1>3 DEF Schedule, TypeOK, TokenInvariant, Request, Run, Message, Idle
    <2>1. TokensHandedOut'
        BY DEF TokensHandedOut
    <2>2. UnscheduledIsPrivate'
        BY DEF UnscheduledIsPrivate
    <2>3. TtlRunsFromSet'
        BY DEF TtlRunsFromSet
    <2>4. TokenOutlivesRun'
        <3> SUFFICES ASSUME ~broken' PROVE TokenOutlivesRun'
            BY DEF TokenOutlivesRun
        <3>1. key.token = armed \/ client[c].token # armed
            BY DEF TokenOutlivesRun, TokensHandedOut
        <3>2. ~broken \/ key.token = client[c].token
            OBVIOUS
        <3>3. key.token = client[c].token => client[c].token = armed
            BY DEF TokensHandedOut
        <3>4. ASSUME NEW d \in Clients, client'[d].pc = "armed", client'[d].token = armed'
              PROVE  key'.token = armed'
            BY <3>2, <3>3, <3>4 DEF TokenOutlivesRun, UnscheduledIsPrivate
        <3>5. ASSUME NEW m \in messages', m.token = armed'
              PROVE  key'.token = armed' /\ key'.ttl > m.delay + Backlog
            <4>1. CASE m \in messages
                BY <3>2, <3>3, <3>5, <4>1 DEF TokenOutlivesRun, UnscheduledIsPrivate
            <4>2. CASE m = [token |-> client[c].token, delay |-> client[c].wait]
                <5>1. client[c].token = armed /\ key.token = armed
                    BY <3>1, <3>5, <4>2
                <5>2. key.ttl + client[c].age >= client[c].wait + Margin
                    BY <5>1 DEF TtlRunsFromSet
                <5>3. client[c].age \in 0..Handling /\ client[c].wait \in Nat
                    OBVIOUS
                <5> QED BY <4>2, <5>1, <5>2, <5>3 DEF Timely
            <4> QED BY <4>1, <4>2
        <3> QED BY <3>4, <3>5 DEF TokenOutlivesRun
    <2>5. RunWaitsForHandlers'
        <3> SUFFICES ASSUME ~broken', NEW d \in Clients, Open(d)'
                     PROVE  \/ NewestUnscheduled'
                            \/ \E m \in messages' : /\ m.token = armed'
                                                    /\ m.delay + client'[d].age > Handling
            BY DEF RunWaitsForHandlers
        <3>1. Open(d) /\ client'[d].age = client[d].age
            BY DEF Open
        <3>2. CASE client[c].token = armed
            <4> DEFINE new == [token |-> client[c].token, delay |-> client[c].wait]
            <4>1. new \in messages' /\ new.token = armed' /\ new.delay = client[c].wait
                BY <3>2
            <4>2. client[c].wait > Handling /\ client[c].wait \in Nat
                BY DEF Timely
            <4>3. client[d].age \in Nat
                BY <3>1 DEF Open
            <4>4. new.delay + client'[d].age > Handling
                BY <3>1, <4>1, <4>2, <4>3
            <4> QED BY <4>1, <4>4
        <3>3. CASE client[c].token # armed
            <4>1. ~broken
                BY <3>3 DEF TokensHandedOut
            <4>2. CASE NewestUnscheduled
                <5>1. PICK e \in Clients : client[e].pc = "armed" /\ client[e].token = armed
                    BY <4>2 DEF NewestUnscheduled
                <5> QED BY <3>3, <5>1 DEF NewestUnscheduled
            <4>3. CASE \E m \in messages : m.token = armed /\ m.delay + client[d].age > Handling
                BY <3>1, <4>3
            <4> QED BY <3>1, <4>1, <4>2, <4>3 DEF RunWaitsForHandlers
        <3> QED BY <3>2, <3>3
    <2> QED BY <2>1, <2>2, <2>3, <2>4, <2>5
<1>4. ASSUME NEW c \in Clients, ScheduleFails(c) PROVE TokenInvariant'
    <2> USE <1>4 DEF ScheduleFails, TypeOK, TokenInvariant, Request, Run, Message, Idle
    <2>1. TokensHandedOut'
        BY DEF TokensHandedOut
    <2>2. UnscheduledIsPrivate'
        BY DEF UnscheduledIsPrivate
    <2>3. TtlRunsFromSet'
        BY DEF TtlRunsFromSet
    <2>4. TokenOutlivesRun'
        BY DEF TokenOutlivesRun
    <2>5. RunWaitsForHandlers'
        BY DEF RunWaitsForHandlers, NewestUnscheduled, Open
    <2> QED BY <2>1, <2>2, <2>3, <2>4, <2>5
<1>5. ASSUME NEW c \in Clients, Commit(c) PROVE TokenInvariant'
    <2> USE <1>5 DEF Commit, TypeOK, TokenInvariant, Request, Run, Message, Idle
    <2>1. TokensHandedOut'
        BY DEF TokensHandedOut
    <2>2. UnscheduledIsPrivate'
        BY DEF UnscheduledIsPrivate
    <2>3. TtlRunsFromSet'
        BY DEF TtlRunsFromSet
    <2>4. TokenOutlivesRun'
        BY DEF TokenOutlivesRun
    <2>5. RunWaitsForHandlers'
        BY DEF RunWaitsForHandlers, NewestUnscheduled, Open
    <2> QED BY <2>1, <2>2, <2>3, <2>4, <2>5
<1>6. ASSUME NEW c \in Clients, Rollback(c) PROVE TokenInvariant'
    <2> USE <1>6 DEF Rollback, TypeOK, TokenInvariant, Request, Run, Message, Idle
    <2>1. TokensHandedOut'
        BY DEF TokensHandedOut
    <2>2. UnscheduledIsPrivate'
        BY DEF UnscheduledIsPrivate
    <2>3. TtlRunsFromSet'
        BY DEF TtlRunsFromSet
    <2>4. TokenOutlivesRun'
        BY DEF TokenOutlivesRun
    <2>5. RunWaitsForHandlers'
        BY DEF RunWaitsForHandlers, NewestUnscheduled, Open
    <2> QED BY <2>1, <2>2, <2>3, <2>4, <2>5
<1>7. ASSUME NEW w \in Workers, NEW m \in messages, CheckPasses(w, m) PROVE TokenInvariant'
    <2> USE <1>7 DEF CheckPasses, TypeOK, TokenInvariant, Request, Run, Message, Idle
    <2>1. TokensHandedOut'
        BY DEF TokensHandedOut
    <2>2. UnscheduledIsPrivate'
        BY DEF UnscheduledIsPrivate
    <2>3. TtlRunsFromSet'
        BY DEF TtlRunsFromSet
    <2>4. TokenOutlivesRun'
        BY DEF TokenOutlivesRun
    <2>5. RunWaitsForHandlers'
        BY DEF RunWaitsForHandlers, NewestUnscheduled, Open
    <2> QED BY <2>1, <2>2, <2>3, <2>4, <2>5
<1>8. ASSUME NEW w \in Workers, NEW m \in messages, CheckSkips(w, m) PROVE TokenInvariant'
    <2> USE <1>8 DEF CheckSkips, TypeOK, TokenInvariant, Request, Run, Message, Idle
    <2>1. TokensHandedOut'
        BY DEF TokensHandedOut
    <2>2. UnscheduledIsPrivate'
        BY DEF UnscheduledIsPrivate
    <2>3. TtlRunsFromSet'
        BY DEF TtlRunsFromSet
    <2>4. TokenOutlivesRun'
        BY DEF TokenOutlivesRun
    <2>5. RunWaitsForHandlers'
        BY DEF RunWaitsForHandlers, NewestUnscheduled, Open
    <2> QED BY <2>1, <2>2, <2>3, <2>4, <2>5
<1>9. ASSUME NEW w \in Workers, NEW m \in messages, CheckFails(w, m) PROVE TokenInvariant'
    <2> USE <1>9 DEF CheckFails, TypeOK, TokenInvariant, Request, Run, Message, Idle
    <2>1. TokensHandedOut'
        BY DEF TokensHandedOut
    <2>2. UnscheduledIsPrivate'
        BY DEF UnscheduledIsPrivate
    <2>3. TtlRunsFromSet'
        BY DEF TtlRunsFromSet
    <2>4. TokenOutlivesRun'
        BY DEF TokenOutlivesRun
    <2>5. RunWaitsForHandlers'
        BY DEF RunWaitsForHandlers, NewestUnscheduled, Open
    <2> QED BY <2>1, <2>2, <2>3, <2>4, <2>5
<1>10. ASSUME NEW w \in Workers, PlanFails(w) PROVE TokenInvariant'
    <2> USE <1>10 DEF PlanFails, TypeOK, TokenInvariant, Request, Run, Message, Idle
    <2>1. TokensHandedOut'
        BY DEF TokensHandedOut
    <2>2. UnscheduledIsPrivate'
        BY DEF UnscheduledIsPrivate
    <2>3. TtlRunsFromSet'
        BY DEF TtlRunsFromSet
    <2>4. TokenOutlivesRun'
        BY DEF TokenOutlivesRun
    <2>5. RunWaitsForHandlers'
        BY DEF RunWaitsForHandlers, NewestUnscheduled, Open
    <2> QED BY <2>1, <2>2, <2>3, <2>4, <2>5
<1>11. ASSUME NEW w \in Workers, CreateFails(w) PROVE TokenInvariant'
    <2> USE <1>11 DEF CreateFails, TypeOK, TokenInvariant, Request, Run, Message, Idle
    <2>1. TokensHandedOut'
        BY DEF TokensHandedOut
    <2>2. UnscheduledIsPrivate'
        BY DEF UnscheduledIsPrivate
    <2>3. TtlRunsFromSet'
        BY DEF TtlRunsFromSet
    <2>4. TokenOutlivesRun'
        BY DEF TokenOutlivesRun
    <2>5. RunWaitsForHandlers'
        BY DEF RunWaitsForHandlers, NewestUnscheduled, Open
    <2> QED BY <2>1, <2>2, <2>3, <2>4, <2>5
<1>12. ASSUME NEW w \in Workers, CrashRun(w) PROVE TokenInvariant'
    <2> USE <1>12 DEF CrashRun, TypeOK, TokenInvariant, Request, Run, Message, Idle
    <2>1. TokensHandedOut'
        BY DEF TokensHandedOut
    <2>2. UnscheduledIsPrivate'
        BY DEF UnscheduledIsPrivate
    <2>3. TtlRunsFromSet'
        BY DEF TtlRunsFromSet
    <2>4. TokenOutlivesRun'
        BY DEF TokenOutlivesRun
    <2>5. RunWaitsForHandlers'
        BY DEF RunWaitsForHandlers, NewestUnscheduled, Open
    <2> QED BY <2>1, <2>2, <2>3, <2>4, <2>5
<1>13. ASSUME NEW m \in messages, CrashWaiting(m) PROVE TokenInvariant'
    <2> USE <1>13 DEF CrashWaiting, TypeOK, TokenInvariant, Request, Run, Message, Idle
    <2>1. TokensHandedOut'
        BY DEF TokensHandedOut
    <2>2. UnscheduledIsPrivate'
        BY DEF UnscheduledIsPrivate
    <2>3. TtlRunsFromSet'
        BY DEF TtlRunsFromSet
    <2>4. TokenOutlivesRun'
        BY DEF TokenOutlivesRun
    <2>5. RunWaitsForHandlers'
        BY DEF RunWaitsForHandlers, NewestUnscheduled, Open
    <2> QED BY <2>1, <2>2, <2>3, <2>4, <2>5
<1>14. CASE Evict
    <2> USE <1>14 DEF Evict, TypeOK, TokenInvariant, Request, Run, Message, Idle
    <2>1. TokensHandedOut'
        BY DEF TokensHandedOut
    <2>2. UnscheduledIsPrivate'
        BY DEF UnscheduledIsPrivate
    <2>3. TtlRunsFromSet'
        BY DEF TtlRunsFromSet, TokensHandedOut
    <2>4. TokenOutlivesRun'
        BY DEF TokenOutlivesRun
    <2>5. RunWaitsForHandlers'
        BY DEF RunWaitsForHandlers, NewestUnscheduled, Open
    <2> QED BY <2>1, <2>2, <2>3, <2>4, <2>5
<1>15. CASE Tick
    <2> USE <1>15 DEF Tick, TypeOK, TokenInvariant, Request, Run, Message, Idle
    <2>1. TokensHandedOut'
        BY DEF TokensHandedOut
    <2>2. UnscheduledIsPrivate'
        BY DEF UnscheduledIsPrivate
    <2>3. TtlRunsFromSet'
        BY DEF TtlRunsFromSet, TokensHandedOut, Open
    <2>4. TokenOutlivesRun'
        <3> SUFFICES ASSUME ~broken' PROVE TokenOutlivesRun'
            BY DEF TokenOutlivesRun
        <3>1. ~broken /\ key \in [token : Nat, ttl : Nat]
            OBVIOUS
        <3>2. key.ttl > 1 => key'.token = key.token /\ key'.ttl = key.ttl - 1
            BY <3>1
        <3>3. ASSUME NEW c \in Clients, client'[c].pc = "armed", client'[c].token = armed'
              PROVE  key'.token = armed'
            <4>1. client[c].pc = "armed" /\ client[c].token = armed /\ client[c].age < Handling
                BY <3>3 DEF Open
            <4>2. key.token = armed
                BY <3>1, <4>1 DEF TokenOutlivesRun
            <4>3. key.ttl + client[c].age >= client[c].wait + Margin
                BY <4>1, <4>2 DEF TtlRunsFromSet
            <4>4. client[c].wait \in Nat /\ client[c].age \in Nat
                BY <4>1
            <4>5. key.ttl > 1
                BY <3>1, <4>1, <4>3, <4>4 DEF Timely
            <4> QED BY <3>2, <4>2, <4>5
        <3>4. ASSUME NEW n \in messages', n.token = armed'
              PROVE  key'.token = armed' /\ key'.ttl > n.delay + Backlog
            <4>1. PICK m \in messages : n = [m EXCEPT !.delay = m.delay - 1]
                OBVIOUS
            <4>2. m \in Message /\ m.delay > -Backlog
                OBVIOUS
            <4>3. n.token = m.token /\ n.delay = m.delay - 1
                BY <4>1, <4>2
            <4>4. key.token = armed /\ key.ttl > m.delay + Backlog
                BY <3>1, <3>4, <4>3 DEF TokenOutlivesRun
            <4>5. key.ttl > 1
                BY <3>1, <4>2, <4>4
            <4> QED BY <3>1, <3>2, <4>2, <4>3, <4>4, <4>5
        <3> QED BY <3>3, <3>4 DEF TokenOutlivesRun
    <2>5. RunWaitsForHandlers'
        <3> SUFFICES ASSUME ~broken', NEW d \in Clients, Open(d)'
                     PROVE  \/ NewestUnscheduled'
                            \/ \E n \in messages' : /\ n.token = armed'
                                                    /\ n.delay + client'[d].age > Handling
            BY DEF RunWaitsForHandlers
        <3>1. ~broken /\ Open(d)
            BY DEF Open
        <3>2. client'[d].age = client[d].age + 1 /\ client[d].age \in Nat
            BY <3>1 DEF Open
        <3>3. CASE NewestUnscheduled
            <4>1. PICK c \in Clients : client[c].pc = "armed" /\ client[c].token = armed
                BY <3>3 DEF NewestUnscheduled
            <4>2. client'[c].pc = "armed" /\ client'[c].token = armed'
                BY <4>1 DEF Open
            <4> QED BY <4>2 DEF NewestUnscheduled
        <3>4. ASSUME NEW m \in messages, m.token = armed, m.delay + client[d].age > Handling
              PROVE  \E n \in messages' : /\ n.token = armed'
                                          /\ n.delay + client'[d].age > Handling
            <4> DEFINE n == [m EXCEPT !.delay = m.delay - 1]
            <4>1. n \in messages'
                OBVIOUS
            <4>2. n.token = armed' /\ n.delay = m.delay - 1 /\ m.delay \in Int
                BY <3>4
            <4>3. n.delay + client'[d].age > Handling
                BY <3>2, <3>4, <4>2
            <4> QED BY <4>1, <4>2, <4>3
        <3> QED BY <3>1, <3>3, <3>4 DEF RunWaitsForHandlers
    <2> QED BY <2>1, <2>2, <2>3, <2>4, <2>5
<1>16. ASSUME NEW w \in Workers, Plan(w) PROVE TokenInvariant'
    <2>1. TokensUntouched
        BY <1>16 DEF Plan, TokensUntouched, TypeOK, Request, Run, Idle, Open
    <2> QED BY <2>1, UntouchedKeepsTokens
<1>17. ASSUME NEW w \in Workers, CreateRows(w) PROVE TokenInvariant'
    <2>1. TokensUntouched
        BY <1>17 DEF CreateRows, TokensUntouched, TypeOK, Request, Run, Idle, Open
    <2> QED BY <2>1, UntouchedKeepsTokens
<1>18. ASSUME NEW w \in Workers, NEW id \in Reports, Dispatch(w, id) PROVE TokenInvariant'
    <2>1. TokensUntouched
        BY <1>18 DEF Dispatch, TokensUntouched, TypeOK, Request, Run, Idle, Open
    <2> QED BY <2>1, UntouchedKeepsTokens
<1>19. ASSUME NEW w \in Workers, DispatchFails(w) PROVE TokenInvariant'
    <2>1. TokensUntouched
        BY <1>19 DEF DispatchFails, TokensUntouched, TypeOK, Request, Run, Idle, Open
    <2> QED BY <2>1, UntouchedKeepsTokens
<1>20. ASSUME NEW w \in Workers, FinishRun(w) PROVE TokenInvariant'
    <2>1. TokensUntouched
        BY <1>20 DEF FinishRun, TokensUntouched, TypeOK, Request, Run, Idle, Open
    <2> QED BY <2>1, UntouchedKeepsTokens
<1>21. ASSUME NEW c \in Clients, NEW s \in Seeds, EnqueueRead(c, s) PROVE TokenInvariant'
    <2>1. TokensUntouched
        BY <1>21 DEF EnqueueRead, TokensUntouched, TypeOK, Request, Run, Idle, Open
    <2> QED BY <2>1, UntouchedKeepsTokens
<1>22. ASSUME NEW c \in Clients, EnqueueCommit(c) PROVE TokenInvariant'
    <2>1. TokensUntouched
        BY <1>22 DEF EnqueueCommit, TokensUntouched, TypeOK, Request, Run, Idle, Open
    <2> QED BY <2>1, UntouchedKeepsTokens
<1>23. ASSUME NEW c \in Clients, EnqueueRejected(c) PROVE TokenInvariant'
    <2>1. TokensUntouched
        BY <1>23 DEF EnqueueRejected, TokensUntouched, TypeOK, Request, Run, Idle, Open
    <2> QED BY <2>1, UntouchedKeepsTokens
<1>24. ASSUME NEW c \in Clients, EnqueueSend(c) PROVE TokenInvariant'
    <2>1. TokensUntouched
        BY <1>24 DEF EnqueueSend, TokensUntouched, TypeOK, Request, Run, Idle, Open
    <2> QED BY <2>1, UntouchedKeepsTokens
<1>25. ASSUME NEW c \in Clients, EnqueueSendFails(c) PROVE TokenInvariant'
    <2>1. TokensUntouched
        BY <1>25 DEF EnqueueSendFails, TokensUntouched, TypeOK, Request, Run, Idle, Open
    <2> QED BY <2>1, UntouchedKeepsTokens
<1>26. ASSUME NEW id \in Reports, Render(id) PROVE TokenInvariant'
    <2>1. TokensUntouched
        BY <1>26 DEF Render, TokensUntouched, TypeOK, Request, Run, Idle, Open
    <2> QED BY <2>1, UntouchedKeepsTokens
<1>27. ASSUME NEW id \in Reports, DeleteReport(id) PROVE TokenInvariant'
    <2>1. TokensUntouched
        BY <1>27 DEF DeleteReport, TokensUntouched, TypeOK, Request, Run, Idle, Open
    <2> QED BY <2>1, UntouchedKeepsTokens
<1>28. ASSUME NEW t \in Templates, DeleteTemplate(t) PROVE TokenInvariant'
    <2>1. TokensUntouched
        BY <1>28 DEF DeleteTemplate, TokensUntouched, TypeOK, Request, Run, Idle, Open
    <2> QED BY <2>1, UntouchedKeepsTokens
<1>29. CASE UNCHANGED vars
    <2>1. TokensUntouched
        BY <1>29 DEF vars, TokensUntouched, TypeOK, Request, Run, Idle, Open
    <2> QED BY <2>1, UntouchedKeepsTokens
<1> QED
    BY <1>1, <1>2, <1>3, <1>4, <1>5, <1>6, <1>7, <1>8, <1>9, <1>10, <1>11, <1>12, <1>13,
       <1>14, <1>15, <1>16, <1>17, <1>18, <1>19, <1>20, <1>21, <1>22, <1>23, <1>24,
       <1>25, <1>26, <1>27, <1>28, <1>29
    DEF Next, HandlerStep, WorkerStep

-----------------------------------------------------------------------------
(* Seeds without a current version                                           *)

\* What a step has to respect to keep the newest change's way open.
KeepsWays ==
    /\ \A s \in LiveSeeds' : Covered(s)' \/ (s \in LiveSeeds /\ ~Covered(s))
    /\ templates' \subseteq templates
    /\ ~broken' => ~broken
    /\ NewestUnscheduled \/ NewestWaiting => NewestUnscheduled' \/ NewestWaiting'
    /\ \A w \in Workers : run[w].pc \in {"checked", "planned"} => run'[w] = run[w]

\* There is no report at the start.
LEMMA InitStaleSeed == Init => StaleSeedIsPlanned
PROOF BY DEF Init, StaleSeedIsPlanned, LiveSeeds, InTable, NoRow

\* A step that opens no gap in coverage and closes no way keeps every stale seed planned.
LEMMA KeepsWaysIsEnough == StaleSeedIsPlanned /\ KeepsWays => StaleSeedIsPlanned'
PROOF BY DEF StaleSeedIsPlanned, KeepsWays, Exists

\* Steps that leave the reports and the content alone.
LEMMA SameCoverage ==
    content' = content /\ rows' = rows =>
        \A s \in LiveSeeds' : Covered(s)' \/ (s \in LiveSeeds /\ ~Covered(s))
PROOF BY DEF LiveSeeds, InTable, Covered

\* Every step leaves a stale seed with a run on its way: Commit makes seeds stale,
\* CreateRows covers them, DeleteTemplate moves them to the base report.
LEMMA StepStaleSeed ==
    ASSUME Timely, TypeOK, TokenInvariant, StaleSeedIsPlanned, [Next]_vars
    PROVE  StaleSeedIsPlanned'
PROOF
<1> USE DEF triggerVars, tableVars, boundVars, historyVars
<1>1. ASSUME NEW c \in Clients, Schedule(c) PROVE StaleSeedIsPlanned'
    <2> SUFFICES ASSUME ~broken' PROVE StaleSeedIsPlanned'
        BY DEF StaleSeedIsPlanned
    <2>1. CASE client[c].token = armed
        <3> DEFINE new == [token |-> client[c].token, delay |-> client[c].wait]
        <3>1. new \in messages' /\ new.token = armed'
            BY <1>1, <2>1 DEF Schedule
        <3>2. NewestWaiting'
            BY <3>1 DEF NewestWaiting
        <3> QED BY <3>2 DEF StaleSeedIsPlanned
    <2>2. CASE client[c].token # armed
        <3>1. ~broken
            <4>1. key.token # client[c].token
                BY <1>1, <2>2 DEF Schedule, TokenInvariant, TokensHandedOut
            <4>2. broken' = (broken /\ key.token # client[c].token)
                BY <1>1 DEF Schedule
            <4> QED BY <4>1, <4>2
        <3>2. NewestUnscheduled => NewestUnscheduled'
            BY <1>1, <2>2 DEF Schedule, NewestUnscheduled
        <3>3. NewestWaiting => NewestWaiting'
            BY <1>1 DEF Schedule, NewestWaiting
        <3>4. KeepsWays
            BY <1>1, <3>1, <3>2, <3>3, SameCoverage DEF Schedule, KeepsWays
        <3> QED BY <3>4, KeepsWaysIsEnough
    <2> QED BY <2>1, <2>2
<1>2. ASSUME NEW c \in Clients, ScheduleFails(c) PROVE StaleSeedIsPlanned'
    BY ZenonT(40), <1>2 DEF ScheduleFails, StaleSeedIsPlanned, LiveSeeds, InTable, Covered, Exists,
        NewestUnscheduled, NewestWaiting, TypeOK, Request, Run, Idle
<1>3. ASSUME NEW c \in Clients, Commit(c) PROVE StaleSeedIsPlanned'
    <2> SUFFICES ASSUME ~broken' PROVE StaleSeedIsPlanned'
        BY DEF StaleSeedIsPlanned
    <2>1. ~broken /\ Open(c)
        BY <1>3 DEF Commit, Open
    <2>2. NewestUnscheduled \/ NewestWaiting
        BY <2>1 DEF TokenInvariant, RunWaitsForHandlers, NewestWaiting
    <2>3. NewestUnscheduled' \/ NewestWaiting'
        BY <1>3, <2>2 DEF Commit, NewestUnscheduled, NewestWaiting
    <2> QED BY <2>3 DEF StaleSeedIsPlanned
<1>4. ASSUME NEW w \in Workers, NEW m \in messages, CheckPasses(w, m) PROVE StaleSeedIsPlanned'
    BY <1>4 DEF CheckPasses, StaleSeedIsPlanned, LiveSeeds, InTable, Covered, Exists,
        NewestUnscheduled, NewestWaiting, TypeOK, Request, Run, Idle
<1>5. ASSUME NEW w \in Workers, Plan(w) PROVE StaleSeedIsPlanned'
    <2>1. CASE LiveSeeds = {}
        <3>1. LiveSeeds' = {}
            BY <1>5, <2>1 DEF Plan, LiveSeeds, InTable
        <3> QED BY <3>1 DEF StaleSeedIsPlanned
    <2>2. CASE LiveSeeds # {}
        <3>1. run'[w].pc = "planned" /\ run'[w].seeds = LiveSeeds
            BY <1>5, <2>2 DEF Plan, TypeOK
        <3>2. LiveSeeds' = LiveSeeds
            BY <1>5 DEF Plan, LiveSeeds, InTable
        <3> QED BY <3>1, <3>2 DEF StaleSeedIsPlanned
    <2> QED BY <2>1, <2>2
<1>6. ASSUME NEW w \in Workers, CreateRows(w) PROVE StaleSeedIsPlanned'
    <2>1. PICK new \in Fresh(run[w].seeds) :
              rows' = [id \in Reports |->
                  IF \E s \in run[w].seeds : new[s] = id
                  THEN LET s == CHOOSE x \in run[w].seeds : new[x] = id
                       IN [status |-> "pending", seed |-> s,
                           version |-> run[w].version[s], basis |-> content]
                  ELSE rows[id]]
        BY <1>6 DEF CreateRows
    <2>2. /\ new \in [run[w].seeds -> Unused]
          /\ \A s, t \in run[w].seeds : new[s] = new[t] => s = t
        BY FreshIsInjection
    <2>3. content' = content /\ content \in Nat
        BY <1>6 DEF CreateRows, TypeOK
    <2>4. ASSUME NEW s \in run[w].seeds
          PROVE  /\ new[s] \in Reports /\ rows'[new[s]].status = "pending"
                 /\ rows'[new[s]].seed = s /\ rows'[new[s]].basis = content
        <3>1. new[s] \in Reports
            BY <2>2 DEF Unused
        <3>2. (CHOOSE x \in run[w].seeds : new[x] = new[s]) = s
            BY <2>2
        <3> QED BY <2>1, <3>1, <3>2
    <2>5. \A s \in run[w].seeds : Covered(s)'
        BY <2>3, <2>4 DEF Covered
    <2>6. \A id \in Reports : rows[id].status # "none" => rows'[id] = rows[id]
        BY <2>1, <2>2 DEF Unused
    <2>7. \A s : Covered(s) => Covered(s)'
        BY <2>3, <2>6 DEF Covered
    <2>8. \A s \in LiveSeeds' : s \in LiveSeeds \/ s \in run[w].seeds
        <3> SUFFICES ASSUME NEW id \in Reports, InTable(id)'
                     PROVE  rows'[id].seed \in LiveSeeds \/ rows'[id].seed \in run[w].seeds
            BY DEF LiveSeeds
        <3>1. CASE \E s \in run[w].seeds : new[s] = id
            BY <2>4, <3>1
        <3>2. CASE ~ \E s \in run[w].seeds : new[s] = id
            BY <2>1, <3>2 DEF LiveSeeds, InTable
        <3> QED BY <3>1, <3>2
    <2>9. \A t \in run[w].seeds : Exists(t)
        BY <1>6 DEF CreateRows
    <2>10. /\ \A v \in Workers : v # w => run'[v] = run[v]
           /\ UNCHANGED <<armed, messages, client, templates>>
           /\ broken' = broken
           /\ run[w].pc = "planned"
        BY <1>6 DEF CreateRows, TypeOK
    <2> SUFFICES ASSUME ~broken', NEW s \in LiveSeeds', ~Covered(s)',
                        ~NewestUnscheduled', ~NewestWaiting'
                 PROVE  \/ \E v \in Workers : run'[v].pc = "checked"
                        \/ \E v \in Workers :
                              /\ run'[v].pc = "planned"
                              /\ s \in run'[v].seeds \/ \E t \in run'[v].seeds : ~Exists(t)'
        BY DEF StaleSeedIsPlanned
    <2>11. s \in LiveSeeds /\ ~Covered(s) /\ s \notin run[w].seeds
        BY <2>5, <2>7, <2>8
    <2>12. ~broken /\ ~NewestUnscheduled /\ ~NewestWaiting
        BY <2>10 DEF NewestUnscheduled, NewestWaiting
    <2>13. \/ \E v \in Workers : run[v].pc = "checked"
           \/ \E v \in Workers :
                 /\ run[v].pc = "planned"
                 /\ s \in run[v].seeds \/ \E t \in run[v].seeds : ~Exists(t)
        BY <2>11, <2>12 DEF StaleSeedIsPlanned
    <2> QED BY <2>9, <2>10, <2>11, <2>13 DEF Exists
<1>7. ASSUME NEW c \in Clients, EnqueueCommit(c) PROVE StaleSeedIsPlanned'
    <2>1. PICK id \in Reports :
              /\ rows[id].status = "none"
              /\ rows'[id].status = "pending" /\ rows'[id].basis = content
              /\ rows'[id].seed = client[c].seed
              /\ \A i \in Reports : i # id => rows'[i] = rows[i]
        <3> DEFINE s == client[c].seed
        <3>1. PICK new \in Fresh({s}) :
                  rows' = [rows EXCEPT ![new[s]] = [status |-> "pending", seed |-> s,
                              version |-> client[c].version, basis |-> content]]
            BY <1>7 DEF EnqueueCommit
        <3>2. new[s] \in Unused
            BY FreshIsInjection
        <3> QED BY <3>1, <3>2 DEF Unused, TypeOK
    <2>2. content' = content /\ content \in Nat
        BY <1>7 DEF EnqueueCommit, TypeOK
    <2>3. \A s \in LiveSeeds' : Covered(s)' \/ (s \in LiveSeeds /\ ~Covered(s))
        BY <2>1, <2>2 DEF LiveSeeds, InTable, Covered
    <2>4. NewestUnscheduled \/ NewestWaiting => NewestUnscheduled' \/ NewestWaiting'
        BY <1>7 DEF EnqueueCommit, NewestUnscheduled, NewestWaiting, TypeOK
    <2>5. KeepsWays
        BY <1>7, <2>3, <2>4 DEF EnqueueCommit, KeepsWays
    <2> QED BY <2>5, KeepsWaysIsEnough
<1>8. ASSUME NEW id \in Reports, Render(id) PROVE StaleSeedIsPlanned'
    <2>1. \A i \in Reports : /\ rows'[i].seed = rows[i].seed /\ rows'[i].basis = rows[i].basis
                             /\ InTable(i)' => InTable(i)
                             /\ rows[i].status # "none" => rows'[i].status # "none"
        BY <1>8 DEF Render, InTable, TypeOK, Row
    <2>2. content' = content
        BY <1>8 DEF Render
    <2>3. \A s \in LiveSeeds' : Covered(s)' \/ (s \in LiveSeeds /\ ~Covered(s))
        BY <2>1, <2>2 DEF LiveSeeds, Covered
    <2>4. KeepsWays
        BY <1>8, <2>3 DEF Render, KeepsWays, NewestUnscheduled, NewestWaiting
    <2> QED BY <2>4, KeepsWaysIsEnough
<1>9. ASSUME NEW id \in Reports, DeleteReport(id) PROVE StaleSeedIsPlanned'
    <2>1. \A i \in Reports : /\ rows'[i].seed = rows[i].seed /\ rows'[i].basis = rows[i].basis
                             /\ InTable(i)' => InTable(i)
                             /\ rows[i].status # "none" => rows'[i].status # "none"
        BY <1>9 DEF DeleteReport, InTable, TypeOK, Row
    <2>2. content' = content
        BY <1>9 DEF DeleteReport
    <2>3. \A s \in LiveSeeds' : Covered(s)' \/ (s \in LiveSeeds /\ ~Covered(s))
        BY <2>1, <2>2 DEF LiveSeeds, Covered
    <2>4. KeepsWays
        BY <1>9, <2>3 DEF DeleteReport, KeepsWays, NewestUnscheduled, NewestWaiting
    <2> QED BY <2>4, KeepsWaysIsEnough
<1>10. ASSUME NEW t \in Templates, DeleteTemplate(t) PROVE StaleSeedIsPlanned'
    <2>1. \A i \in Reports : /\ rows'[i].seed = IF rows[i].seed = t THEN Base ELSE rows[i].seed
                             /\ rows'[i].basis = rows[i].basis
                             /\ rows'[i].status = rows[i].status
        BY <1>10 DEF DeleteTemplate, TypeOK, Row
    <2>2. /\ content' = content /\ broken' = broken
          /\ templates' = templates \ {t}
          /\ UNCHANGED <<armed, messages, client, run>>
          /\ t # Base
        BY <1>10, ConstantsAssumption DEF DeleteTemplate
    <2> SUFFICES ASSUME ~broken', NEW s \in LiveSeeds', ~Covered(s)',
                        ~NewestUnscheduled', ~NewestWaiting'
                 PROVE  \/ \E w \in Workers : run'[w].pc = "checked"
                        \/ \E w \in Workers :
                              /\ run'[w].pc = "planned"
                              /\ s \in run'[w].seeds \/ \E u \in run'[w].seeds : ~Exists(u)'
        BY DEF StaleSeedIsPlanned
    <2>3. PICK id \in Reports : InTable(id)' /\ rows'[id].seed = s
        BY DEF LiveSeeds
    <2>4. rows[id].seed \in LiveSeeds
        BY <2>1, <2>3 DEF LiveSeeds, InTable
    <2>5. ~Covered(rows[id].seed)
        BY <2>1, <2>2, <2>3 DEF Covered
    <2>6. ~broken /\ ~NewestUnscheduled /\ ~NewestWaiting
        BY <2>2 DEF NewestUnscheduled, NewestWaiting
    <2>7. \/ \E w \in Workers : run[w].pc = "checked"
          \/ \E w \in Workers :
                /\ run[w].pc = "planned"
                /\ rows[id].seed \in run[w].seeds \/ \E u \in run[w].seeds : ~Exists(u)
        BY <2>4, <2>5, <2>6 DEF StaleSeedIsPlanned
    <2>8. \A u : ~Exists(u) => ~Exists(u)'
        BY <2>2 DEF Exists
    <2>9. ~Exists(t)'
        BY <2>2 DEF Exists
    <2>10. rows[id].seed = s \/ rows[id].seed = t
        BY <2>1, <2>3
    <2> QED BY <2>2, <2>7, <2>8, <2>9, <2>10
<1>11. ASSUME NEW c \in Clients, ArmFails(c) PROVE StaleSeedIsPlanned'
    BY <1>11 DEF ArmFails, StaleSeedIsPlanned
<1>12. ASSUME NEW w \in Workers, NEW m \in messages, CheckFails(w, m) PROVE StaleSeedIsPlanned'
    BY <1>12 DEF CheckFails, StaleSeedIsPlanned
<1>13. ASSUME NEW w \in Workers, PlanFails(w) PROVE StaleSeedIsPlanned'
    BY <1>13 DEF PlanFails, StaleSeedIsPlanned
<1>14. ASSUME NEW w \in Workers, CreateFails(w) PROVE StaleSeedIsPlanned'
    BY <1>14 DEF CreateFails, StaleSeedIsPlanned
<1>15. ASSUME NEW w \in Workers, CrashRun(w) PROVE StaleSeedIsPlanned'
    BY <1>15 DEF CrashRun, StaleSeedIsPlanned
<1>16. ASSUME NEW m \in messages, CrashWaiting(m) PROVE StaleSeedIsPlanned'
    BY <1>16 DEF CrashWaiting, StaleSeedIsPlanned
<1>17. CASE Evict
    BY <1>17 DEF Evict, StaleSeedIsPlanned
<1>18. ASSUME NEW c \in Clients, Arm(c) PROVE StaleSeedIsPlanned'
    <2>1. KeepsWays
        BY <1>18, SameCoverage DEF Arm, KeepsWays, NewestUnscheduled, NewestWaiting, TypeOK,
            Request, Run, Idle
    <2> QED BY <2>1, KeepsWaysIsEnough
<1>19. ASSUME NEW c \in Clients, Rollback(c) PROVE StaleSeedIsPlanned'
    <2>1. KeepsWays
        BY <1>19, SameCoverage DEF Rollback, KeepsWays, NewestUnscheduled, NewestWaiting,
            TypeOK, Request, Run, Idle
    <2> QED BY <2>1, KeepsWaysIsEnough
<1>20. ASSUME NEW w \in Workers, NEW m \in messages, CheckSkips(w, m) PROVE StaleSeedIsPlanned'
    <2> SUFFICES ASSUME ~broken' PROVE StaleSeedIsPlanned'
        BY DEF StaleSeedIsPlanned
    <2>1. ~broken /\ m.token # armed
        BY <1>20 DEF CheckSkips, TokenInvariant, TokenOutlivesRun
    <2>2. NewestWaiting => NewestWaiting'
        BY <1>20, <2>1 DEF CheckSkips, NewestWaiting
    <2>3. KeepsWays
        BY <1>20, <2>1, <2>2, SameCoverage DEF CheckSkips, KeepsWays, NewestUnscheduled
    <2> QED BY <2>3, KeepsWaysIsEnough
<1>21. ASSUME NEW w \in Workers, NEW id \in Reports, Dispatch(w, id) PROVE StaleSeedIsPlanned'
    <2>1. KeepsWays
        BY <1>21, SameCoverage DEF Dispatch, KeepsWays, NewestUnscheduled, NewestWaiting,
            TypeOK, Request, Run, Idle
    <2> QED BY <2>1, KeepsWaysIsEnough
<1>22. ASSUME NEW w \in Workers, DispatchFails(w) PROVE StaleSeedIsPlanned'
    <2>1. KeepsWays
        BY <1>22, SameCoverage DEF DispatchFails, KeepsWays, NewestUnscheduled, NewestWaiting,
            TypeOK, Request, Run, Idle
    <2> QED BY <2>1, KeepsWaysIsEnough
<1>23. ASSUME NEW w \in Workers, FinishRun(w) PROVE StaleSeedIsPlanned'
    <2>1. KeepsWays
        BY <1>23, SameCoverage DEF FinishRun, KeepsWays, NewestUnscheduled, NewestWaiting,
            TypeOK, Request, Run, Idle
    <2> QED BY <2>1, KeepsWaysIsEnough
<1>24. ASSUME NEW c \in Clients, NEW s \in Seeds, EnqueueRead(c, s) PROVE StaleSeedIsPlanned'
    <2>1. KeepsWays
        BY <1>24, SameCoverage DEF EnqueueRead, KeepsWays, NewestUnscheduled, NewestWaiting,
            TypeOK, Request, Run, Idle
    <2> QED BY <2>1, KeepsWaysIsEnough
<1>25. ASSUME NEW c \in Clients, EnqueueRejected(c) PROVE StaleSeedIsPlanned'
    <2>1. KeepsWays
        BY <1>25, SameCoverage DEF EnqueueRejected, KeepsWays, NewestUnscheduled, NewestWaiting,
            TypeOK, Request, Run, Idle
    <2> QED BY <2>1, KeepsWaysIsEnough
<1>26. ASSUME NEW c \in Clients, EnqueueSend(c) PROVE StaleSeedIsPlanned'
    <2>1. KeepsWays
        BY <1>26, SameCoverage DEF EnqueueSend, KeepsWays, NewestUnscheduled, NewestWaiting,
            TypeOK, Request, Run, Idle
    <2> QED BY <2>1, KeepsWaysIsEnough
<1>27. ASSUME NEW c \in Clients, EnqueueSendFails(c) PROVE StaleSeedIsPlanned'
    <2>1. KeepsWays
        BY <1>27, SameCoverage DEF EnqueueSendFails, KeepsWays, NewestUnscheduled,
            NewestWaiting, TypeOK, Request, Run, Idle
    <2> QED BY <2>1, KeepsWaysIsEnough
<1>28. CASE Tick
    <2>1. NewestUnscheduled => NewestUnscheduled'
        BY <1>28 DEF Tick, NewestUnscheduled, Open, TypeOK, Request, Idle
    <2>2. NewestWaiting => NewestWaiting'
        <3> SUFFICES ASSUME NEW m \in messages, m.token = armed PROVE NewestWaiting'
            BY DEF NewestWaiting
        <3> DEFINE n == [m EXCEPT !.delay = m.delay - 1]
        <3>1. n \in messages' /\ n.token = m.token /\ armed' = armed
            BY <1>28 DEF Tick, TypeOK, Message
        <3> QED BY <3>1 DEF NewestWaiting
    <2>3. KeepsWays
        BY <1>28, <2>1, <2>2, SameCoverage DEF Tick, KeepsWays
    <2> QED BY <2>3, KeepsWaysIsEnough
<1>29. CASE UNCHANGED vars
    <2>1. KeepsWays
        BY <1>29, SameCoverage DEF vars, KeepsWays, NewestUnscheduled, NewestWaiting, TypeOK,
            Request, Run, Idle
    <2> QED BY <2>1, KeepsWaysIsEnough
<1> QED
    BY <1>1, <1>2, <1>3, <1>4, <1>5, <1>6, <1>7, <1>8, <1>9, <1>10, <1>11, <1>12, <1>13,
       <1>14, <1>15, <1>16, <1>17, <1>18, <1>19, <1>20, <1>21, <1>22, <1>23, <1>24,
       <1>25, <1>26, <1>27, <1>28, <1>29
    DEF Next, HandlerStep, WorkerStep

-----------------------------------------------------------------------------
(* Every pending row has a job                                               *)

HasJob(id) ==
    \/ id \in queue
    \/ \E c \in Clients : client[c] = [pc |-> "enqueued", id |-> id]
    \/ \E w \in Workers : run[w].pc = "created" /\ id \in run[w].jobs

\* No step without a fault leaves a pending row without a job.
LEMMA StepPendingHasJob == TypeOK /\ PendingHasJob /\ [Next]_vars => PendingHasJob'
PROOF
<1> SUFFICES ASSUME TypeOK, PendingHasJob, [Next]_vars, faults' = 0,
                    NEW id \in Reports, rows'[id].status = "pending"
             PROVE  HasJob(id)'
    BY DEF PendingHasJob, HasJob
<1>0. faults = 0 /\ rows[id].status = "pending" => HasJob(id)
    BY DEF PendingHasJob, HasJob
<1> USE DEF triggerVars, tableVars, boundVars, historyVars
<1>1. ASSUME NEW c \in Clients, Arm(c) PROVE HasJob(id)'
    BY <1>0, <1>1 DEF Arm, HasJob, TypeOK, Request, Run, Idle
<1>2. ASSUME NEW c \in Clients, ArmFails(c) PROVE HasJob(id)'
    BY <1>0, <1>2 DEF ArmFails, HasJob, TypeOK, Request, Run, Idle, Fault
<1>3. ASSUME NEW c \in Clients, Schedule(c) PROVE HasJob(id)'
    BY <1>0, <1>3 DEF Schedule, HasJob, TypeOK, Request, Run, Idle
<1>4. ASSUME NEW c \in Clients, ScheduleFails(c) PROVE HasJob(id)'
    BY <1>0, <1>4 DEF ScheduleFails, HasJob, TypeOK, Request, Run, Idle, Fault
<1>5. ASSUME NEW c \in Clients, Commit(c) PROVE HasJob(id)'
    BY <1>0, <1>5 DEF Commit, HasJob, TypeOK, Request, Run, Idle
<1>6. ASSUME NEW c \in Clients, Rollback(c) PROVE HasJob(id)'
    BY <1>0, <1>6 DEF Rollback, HasJob, TypeOK, Request, Run, Idle
<1>7. ASSUME NEW w \in Workers, NEW m \in messages, CheckPasses(w, m) PROVE HasJob(id)'
    BY <1>0, <1>7 DEF CheckPasses, HasJob, TypeOK, Request, Run, Idle
<1>8. ASSUME NEW w \in Workers, NEW m \in messages, CheckSkips(w, m) PROVE HasJob(id)'
    BY <1>0, <1>8 DEF CheckSkips, HasJob, TypeOK, Request, Run, Idle
<1>9. ASSUME NEW w \in Workers, NEW m \in messages, CheckFails(w, m) PROVE HasJob(id)'
    BY <1>0, <1>9 DEF CheckFails, HasJob, TypeOK, Request, Run, Idle, Fault
<1>10. ASSUME NEW w \in Workers, Plan(w) PROVE HasJob(id)'
    BY <1>0, <1>10 DEF Plan, HasJob, TypeOK, Request, Run, Idle
<1>11. ASSUME NEW w \in Workers, PlanFails(w) PROVE HasJob(id)'
    BY <1>0, <1>11 DEF PlanFails, HasJob, TypeOK, Request, Run, Idle, Fault
<1>12. ASSUME NEW w \in Workers, CreateFails(w) PROVE HasJob(id)'
    BY <1>0, <1>12 DEF CreateFails, HasJob, TypeOK, Request, Run, Idle, Fault
<1>13. ASSUME NEW w \in Workers, NEW i \in Reports, Dispatch(w, i) PROVE HasJob(id)'
    BY <1>0, <1>13 DEF Dispatch, HasJob, TypeOK, Request, Run, Idle
<1>14. ASSUME NEW w \in Workers, DispatchFails(w) PROVE HasJob(id)'
    BY <1>0, <1>14 DEF DispatchFails, HasJob, TypeOK, Request, Run, Idle, Fault
<1>15. ASSUME NEW w \in Workers, FinishRun(w) PROVE HasJob(id)'
    BY <1>0, <1>15 DEF FinishRun, HasJob, TypeOK, Request, Run, Idle
<1>16. ASSUME NEW w \in Workers, CrashRun(w) PROVE HasJob(id)'
    BY <1>0, <1>16 DEF CrashRun, HasJob, TypeOK, Request, Run, Idle, Fault
<1>17. ASSUME NEW m \in messages, CrashWaiting(m) PROVE HasJob(id)'
    BY <1>0, <1>17 DEF CrashWaiting, HasJob, TypeOK, Request, Run, Idle, Fault
<1>18. ASSUME NEW c \in Clients, NEW s \in Seeds, EnqueueRead(c, s) PROVE HasJob(id)'
    BY <1>0, <1>18 DEF EnqueueRead, HasJob, TypeOK, Request, Run, Idle
<1>19. ASSUME NEW c \in Clients, EnqueueRejected(c) PROVE HasJob(id)'
    BY <1>0, <1>19 DEF EnqueueRejected, HasJob, TypeOK, Request, Run, Idle
<1>20. ASSUME NEW c \in Clients, EnqueueSend(c) PROVE HasJob(id)'
    BY <1>0, <1>20 DEF EnqueueSend, HasJob, TypeOK, Request, Run, Idle
<1>21. ASSUME NEW c \in Clients, EnqueueSendFails(c) PROVE HasJob(id)'
    BY <1>0, <1>21 DEF EnqueueSendFails, HasJob, TypeOK, Request, Run, Idle, Fault
<1>22. ASSUME NEW i \in Reports, Render(i) PROVE HasJob(id)'
    BY <1>0, <1>22 DEF Render, HasJob, TypeOK, Request, Run, Idle, InTable, Row
<1>23. ASSUME NEW i \in Reports, DeleteReport(i) PROVE HasJob(id)'
    BY <1>0, <1>23 DEF DeleteReport, HasJob, TypeOK, Request, Run, Idle, Deletion, Row
<1>24. ASSUME NEW t \in Templates, DeleteTemplate(t) PROVE HasJob(id)'
    BY <1>0, <1>24 DEF DeleteTemplate, HasJob, TypeOK, Request, Run, Idle, Deletion, Row
<1>25. CASE Evict
    BY <1>0, <1>25 DEF Evict, HasJob, TypeOK, Request, Run, Idle, Fault
<1>26. CASE Tick
    BY <1>0, <1>26 DEF Tick, HasJob, TypeOK, Request, Run, Idle, Open
<1>27. CASE UNCHANGED vars
    BY <1>0, <1>27 DEF vars, HasJob, TypeOK, Request, Run, Idle
<1>28. ASSUME NEW w \in Workers, CreateRows(w) PROVE HasJob(id)'
    BY <1>0, <1>28, FreshIsInjection DEF CreateRows, HasJob, TypeOK, Request, Run, Idle, Unused,
        Row
<1>29. ASSUME NEW c \in Clients, EnqueueCommit(c) PROVE HasJob(id)'
    BY <1>0, <1>29, FreshIsInjection DEF EnqueueCommit, HasJob, TypeOK, Request, Run, Idle,
        Unused, Row
<1> QED
    BY <1>1, <1>2, <1>3, <1>4, <1>5, <1>6, <1>7, <1>8, <1>9, <1>10, <1>11, <1>12, <1>13,
       <1>14, <1>15, <1>16, <1>17, <1>18, <1>19, <1>20, <1>21, <1>22, <1>23, <1>24,
       <1>25, <1>26, <1>27, <1>28, <1>29
    DEF Next, HandlerStep, WorkerStep

\* As long as nothing fails, a committed pending row has its job in the queue, in
\* the hands of the request that asked for it, or on the list of a run.
THEOREM PendingRowsHaveJobs == Spec => []PendingHasJob
PROOF
<1>1. Init => PendingHasJob
    BY DEF Init, PendingHasJob, NoRow
<1> QED BY <1>1, TypeCorrect, StepPendingHasJob, PTL DEF Spec

-----------------------------------------------------------------------------
(* The newest change                                                         *)

\* The inductive invariant, for every timing in which a handler commits before
\* its run is due and the TTL's margin covers handler and backlog.
THEOREM InductiveHolds == ASSUME Timely PROVE Spec => []Inductive
PROOF
<1>1. Init => Inductive
    BY InitTypeOK, InitTokens, InitStaleSeed DEF Inductive, TokenInvariant
<1>2. Inductive /\ [Next]_vars => Inductive'
    BY Timely, StepTypeOK, StepTokens, StepStaleSeed DEF Inductive, TokenInvariant
<1> QED BY <1>1, <1>2, PTL DEF Spec

\* The run of the newest change finds its token: the margin of the TTL is enough
\* as long as handler and backlog together stay below it.
THEOREM NewestRunIsNotSkipped == ASSUME Timely PROVE Spec => []NewestRunFindsToken
PROOF
<1>1. Inductive => NewestRunFindsToken
    BY DEF Inductive, TokenOutlivesRun, NewestRunFindsToken
<1> QED BY <1>1, InductiveHolds, PTL

\* When nothing is left to do, every seed has a version made after the last
\* change, unless a fault hit the newest change.
THEOREM FinalStateIsRegenerated == ASSUME Timely PROVE Spec => []QuietMeansCurrent
PROOF
<1>1. Inductive => QuietMeansCurrent
    BY DEF Inductive, StaleSeedIsPlanned, QuietMeansCurrent, Quiet, NewestUnscheduled,
           NewestWaiting, Idle
<1> QED BY <1>1, InductiveHolds, PTL

-----------------------------------------------------------------------------
(* One run per debounce                                                      *)

\* A lost message comes back no earlier than some debounce: the broker's visibility
\* timeout is an hour, the longest debounce the settings accept.
Patient == \E d \in Debounces : d <= Visibility

\* While the debounce of the last run lasts, a newer message has waited as long as
\* that run lies back, and its debounce is not over before.
Spaced ==
    lastRun.token # 0 =>
        /\ lastRun.token <= armed
        /\ \A m \in messages : m.token > lastRun.token =>
              \E d \in Debounces : m.delay + lastRun.age >= d

\* A step that neither arms, schedules nor starts a run, and takes no time.
RunsOn ==
    /\ armed' = armed /\ lastRun' = lastRun /\ key'.token \in {0, key.token}
    /\ \A c \in Clients : client'[c].pc = "armed" =>
          client[c].pc = "armed" /\ client'[c].token = client[c].token
    /\ \A m \in messages' : m \in messages \/ (m.delay = Visibility /\ m.token \in 1..armed)
    /\ \A w \in Workers : run'[w] # Idle => run[w] # Idle /\ run'[w].token = run[w].token

LEMMA MostStepsRunOn ==
    ASSUME TypeOK, TokensHandedOut, [Next]_vars
    PROVE  \/ RunsOn
           \/ \E c \in Clients : Arm(c) \/ Schedule(c)
           \/ \E w \in Workers, m \in messages : CheckPasses(w, m)
           \/ Tick
PROOF
<1> USE DEF RunsOn, TypeOK, TokensHandedOut, triggerVars, tableVars, boundVars, historyVars
<1>1. ASSUME NEW c \in Clients, ArmFails(c) PROVE RunsOn
    BY <1>1 DEF ArmFails, Idle
<1>2. ASSUME NEW c \in Clients, ScheduleFails(c) PROVE RunsOn
    BY <1>2 DEF ScheduleFails
<1>3. ASSUME NEW c \in Clients, Commit(c) PROVE RunsOn
    BY <1>3 DEF Commit, Idle
<1>4. ASSUME NEW c \in Clients, Rollback(c) PROVE RunsOn
    BY <1>4 DEF Rollback, Idle
<1>5. ASSUME NEW c \in Clients, NEW s \in Seeds, EnqueueRead(c, s) PROVE RunsOn
    BY <1>5 DEF EnqueueRead
<1>6. ASSUME NEW c \in Clients, EnqueueCommit(c) PROVE RunsOn
    BY <1>6 DEF EnqueueCommit
<1>7. ASSUME NEW c \in Clients, EnqueueRejected(c) PROVE RunsOn
    BY <1>7 DEF EnqueueRejected, Idle
<1>8. ASSUME NEW c \in Clients, EnqueueSend(c) PROVE RunsOn
    BY <1>8 DEF EnqueueSend, Idle
<1>9. ASSUME NEW c \in Clients, EnqueueSendFails(c) PROVE RunsOn
    BY <1>9 DEF EnqueueSendFails, Idle
<1>10. ASSUME NEW w \in Workers, NEW m \in messages, CheckSkips(w, m) PROVE RunsOn
    BY <1>10 DEF CheckSkips
<1>11. ASSUME NEW w \in Workers, NEW m \in messages, CheckFails(w, m) PROVE RunsOn
    BY <1>11 DEF CheckFails
<1>12. ASSUME NEW w \in Workers, Plan(w) PROVE RunsOn
    BY <1>12 DEF Plan, Run, Idle
<1>13. ASSUME NEW w \in Workers, PlanFails(w) PROVE RunsOn
    BY <1>13 DEF PlanFails, Idle
<1>14. ASSUME NEW w \in Workers, CreateRows(w) PROVE RunsOn
    BY <1>14 DEF CreateRows, Run, Idle
<1>15. ASSUME NEW w \in Workers, CreateFails(w) PROVE RunsOn
    BY <1>15 DEF CreateFails, Idle
<1>16. ASSUME NEW w \in Workers, NEW id \in Reports, Dispatch(w, id) PROVE RunsOn
    BY <1>16 DEF Dispatch, Run, Idle
<1>17. ASSUME NEW w \in Workers, DispatchFails(w) PROVE RunsOn
    BY <1>17 DEF DispatchFails, Idle
<1>18. ASSUME NEW w \in Workers, FinishRun(w) PROVE RunsOn
    BY <1>18 DEF FinishRun, Idle
<1>19. ASSUME NEW w \in Workers, CrashRun(w) PROVE RunsOn
    BY <1>19 DEF CrashRun, Idle
<1>20. ASSUME NEW m \in messages, CrashWaiting(m) PROVE RunsOn
    BY <1>20 DEF CrashWaiting, Message
<1>21. ASSUME NEW id \in Reports, Render(id) PROVE RunsOn
    BY <1>21 DEF Render
<1>22. ASSUME NEW id \in Reports, DeleteReport(id) PROVE RunsOn
    BY <1>22 DEF DeleteReport
<1>23. ASSUME NEW t \in Templates, DeleteTemplate(t) PROVE RunsOn
    BY <1>23 DEF DeleteTemplate
<1>24. CASE Evict
    BY <1>24 DEF Evict
<1>25. CASE UNCHANGED vars
    BY <1>25 DEF vars
<1> QED
    BY <1>1, <1>2, <1>3, <1>4, <1>5, <1>6, <1>7, <1>8, <1>9, <1>10, <1>11, <1>12, <1>13,
       <1>14, <1>15, <1>16, <1>17, <1>18, <1>19, <1>20, <1>21, <1>22, <1>23, <1>24, <1>25
    DEF Next, HandlerStep, WorkerStep

\* Schedule makes a message wait for its whole debounce; a tick takes from its delay
\* what it adds to the age of the last run.
LEMMA StepSpaced ==
    ASSUME Patient, TypeOK, TokensHandedOut, Spaced, [Next]_vars
    PROVE  TokensHandedOut' /\ Spaced'
PROOF
<1> USE Durations DEF TypeOK
<1>0. /\ armed \in Nat /\ lastRun.token \in Nat /\ lastRun.age \in Nat
      /\ \A m \in messages : m.token \in Nat /\ m.delay \in Int
    BY DEF Message
<1>1. CASE RunsOn
    <2>1. TokensHandedOut'
        BY <1>1 DEF RunsOn, TokensHandedOut
    <2>2. \A m \in messages' : m.delay = Visibility =>
              \E d \in Debounces : m.delay + lastRun.age >= d
        BY <1>0 DEF Patient
    <2>3. Spaced'
        BY <1>1, <2>2 DEF RunsOn, Spaced
    <2> QED BY <2>1, <2>3
<1>2. ASSUME NEW c \in Clients, Arm(c) PROVE TokensHandedOut' /\ Spaced'
    <2>1. TokensHandedOut'
        BY <1>0, <1>2 DEF Arm, TokensHandedOut, Idle
    <2>2. Spaced'
        BY <1>0, <1>2 DEF Arm, Spaced, historyVars
    <2> QED BY <2>1, <2>2
<1>3. ASSUME NEW c \in Clients, Schedule(c) PROVE TokensHandedOut' /\ Spaced'
    <2>1. client[c].wait \in Debounces /\ client[c].token \in Nat
        BY <1>3 DEF Schedule, Request, Idle
    <2>2. PICK n : n = [token |-> client[c].token, delay |-> client[c].wait]
        OBVIOUS
    <2>3. /\ messages' = messages \cup {n} /\ lastRun' = lastRun
          /\ UNCHANGED <<armed, key, run>>
        BY <1>3, <2>2 DEF Schedule, boundVars
    <2>4. TokensHandedOut'
        BY <1>0, <1>3, <2>2, <2>3 DEF Schedule, TokensHandedOut, Idle
    <2>5. n.delay + lastRun.age >= client[c].wait
        BY <1>0, <2>1, <2>2
    <2>6. Spaced'
        BY <2>1, <2>3, <2>5 DEF Spaced
    <2> QED BY <2>4, <2>6
<1>4. ASSUME NEW w \in Workers, NEW m \in messages, CheckPasses(w, m)
      PROVE  TokensHandedOut' /\ Spaced'
    <2>1. m.token = armed
        BY <1>4 DEF CheckPasses, TokensHandedOut
    <2>2. TokensHandedOut'
        BY <1>0, <1>4, <2>1 DEF CheckPasses, TokensHandedOut, Idle
    <2>3. /\ lastRun'.token = armed /\ armed' = armed /\ messages' \subseteq messages
        BY <1>4, <2>1 DEF CheckPasses
    <2>4. \A n \in messages' : ~(n.token > lastRun'.token)
        BY <1>0, <2>3 DEF TokensHandedOut
    <2> QED BY <1>0, <2>2, <2>3, <2>4 DEF Spaced
<1>5. CASE Tick
    <2>1. /\ messages' = {[m EXCEPT !.delay = @ - 1] : m \in messages} /\ armed' = armed
          /\ key'.token \in {0, key.token} /\ run' = run
        BY <1>5 DEF Tick
    <2>2. \A c \in Clients : client'[c].pc = client[c].pc
                             /\ (client[c].pc = "armed" => client'[c].token = client[c].token)
        BY <1>5 DEF Tick, Open, Request, Idle
    <2>3. \A n \in messages' : \E m \in messages : n.token = m.token /\ n.delay = m.delay - 1
        BY <2>1 DEF Message
    <2>4. TokensHandedOut'
        BY <2>1, <2>2, <2>3 DEF TokensHandedOut
    <2>5. \/ lastRun'.token = 0
          \/ lastRun'.token = lastRun.token /\ lastRun'.age = lastRun.age + 1
        BY <1>5 DEF Tick
    <2>6. Spaced'
        <3> SUFFICES ASSUME lastRun'.token # 0, NEW n \in messages', n.token > lastRun'.token
                     PROVE  \E d \in Debounces : n.delay + lastRun'.age >= d
            BY <2>1, <2>5 DEF Spaced
        <3>1. PICK m \in messages : n.token = m.token /\ n.delay = m.delay - 1
            BY <2>3
        <3>2. PICK d \in Debounces : m.delay + lastRun.age >= d
            BY <2>5, <3>1 DEF Spaced
        <3>3. n.delay + lastRun'.age = m.delay + lastRun.age
            BY <1>0, <2>5, <3>1
        <3> QED BY <3>2, <3>3
    <2> QED BY <2>4, <2>6
<1> QED BY <1>1, <1>2, <1>3, <1>4, <1>5, MostStepsRunOn

\* A burst of changes yields one regeneration, whatever fails meanwhile: a run that
\* passes its check has waited for its debounce since the last run of another change.
THEOREM BurstsAreRegeneratedOnce == ASSUME Patient PROVE Spec => OneRunPerDebounce
PROOF
<1> DEFINE Steps == lastRun'.token \notin {0, lastRun.token} /\ lastRun.token # 0 =>
                        \E d \in Debounces : lastRun.age >= d
<1>1. Init => TypeOK /\ TokensHandedOut /\ Spaced
    BY InitTypeOK, InitTokens DEF TokenInvariant, Init, Spaced
<1>2. TypeOK /\ TokensHandedOut /\ Spaced /\ [Next]_vars => (TypeOK /\ TokensHandedOut /\ Spaced)'
    BY Patient, StepTypeOK, StepSpaced
<1>3. TypeOK /\ TokensHandedOut /\ Spaced /\ [Next]_vars => [Steps]_vars
    <2> SUFFICES ASSUME TypeOK, TokensHandedOut, Spaced, [Next]_vars,
                        lastRun'.token \notin {0, lastRun.token}, lastRun.token # 0
                 PROVE  \E d \in Debounces : lastRun.age >= d
        OBVIOUS
    <2>1. ~RunsOn /\ ~Tick /\ \A c \in Clients : ~Arm(c) /\ ~Schedule(c)
        <3>1. ~RunsOn
            BY DEF RunsOn
        <3>2. ~Tick
            BY DEF Tick, TypeOK
        <3>3. ASSUME NEW c \in Clients PROVE ~Arm(c) /\ ~Schedule(c)
            <4>1. lastRun' # lastRun
                OBVIOUS
            <4> QED BY <4>1 DEF Arm, Schedule, historyVars
        <3> QED BY <3>1, <3>2, <3>3
    <2>2. PICK w \in Workers, m \in messages : CheckPasses(w, m)
        BY <2>1, MostStepsRunOn
    <2>3. m.token = armed /\ m.delay <= 0 /\ lastRun'.token = armed
        BY <2>2 DEF CheckPasses, TokensHandedOut
    <2>4. m.delay \in Int /\ armed \in Nat /\ lastRun.token \in Nat /\ lastRun.age \in Nat
        BY DEF TypeOK, Message
    <2>5. m.token > lastRun.token
        BY <2>3, <2>4 DEF Spaced
    <2>6. PICK d \in Debounces : m.delay + lastRun.age >= d
        BY <2>5 DEF Spaced
    <2> QED BY <2>3, <2>4, <2>6, Durations
<1> QED BY <1>1, <1>2, <1>3, PTL DEF Spec, OneRunPerDebounce

=============================================================================
