---------------------------- MODULE GatewayProofs ----------------------------
(***************************************************************************)
(* Proofs about six parts of the gateway:  its durable audit (AuditOutbox),*)
(* for every set of mutations and gateways and every number of starts; the *)
(* onboarding of a partner (Onboarding), for every set of gateways; the    *)
(* runtime requests of the portal (PortalAccess), for every set of modules *)
(* and workers; the users, sessions and reset tokens (Identities), for     *)
(* every set of identities, e-mails and overlapping requests; the sign-in  *)
(* of an account (SignIn), for every set of client keys, every limit and   *)
(* every number of attempts in progress; and the screens of the console    *)
(* (ScreenSnapshots), for every set of workers.                            *)
(***************************************************************************)
EXTENDS AuditOutbox, Onboarding, PortalAccess, Identities, SignIn, ScreenSnapshots, FiniteSetTheorems, TLAPS

AuOutcomes == {"SUCCESS", "FAILED", "INTERRUPTED"}

AuStates ==
    [at : {"new", "refused", "over"}]
    \cup [at : {"intended", "calling"}, by : AuGateways]
    \cup [at : {"answered"}, by : AuGateways, outcome : {"SUCCESS", "FAILED"}]

AuTypeOK ==
    /\ auOutbox \subseteq AuMutations
    /\ auEvents \in [AuMutations -> Seq(AuOutcomes)]
    /\ auMutation \in [AuMutations -> AuStates]
    /\ auCalls \subseteq AuMutations /\ auExecuted \subseteq AuMutations
    /\ auGateway \in [AuGateways -> [at : {"down", "up", "recovering"}, todo : SUBSET AuMutations]]
    /\ auShared \subseteq AuMutations

\* A mutation nobody has begun to serve has left no trace that a start could find.
AuNewIsUnknown ==
    \A m \in AuMutations : AuAt(m, "new") =>
        /\ m \notin auOutbox /\ auEvents[m] = <<>>
        /\ \A g \in AuGateways : m \notin auGateway[g].todo

\* While a mutation is served, or waits for its recovery, its intent is there,
\* unless another gateway has come across it.
AuServedIsIntended ==
    \A m \in AuServed : /\ m \in auOutbox \/ auEvents[m] # <<>>
                        /\ m \in auOutbox \/ m \in auShared
AuTodoIsIntended ==
    \A g \in AuGateways : \A m \in auGateway[g].todo :
        /\ m \in auOutbox \/ m \in auShared
        /\ m \in AuServed => m \in auShared
        /\ \A h \in AuGateways \ {g} : m \in auGateway[h].todo => m \in auShared

\* The outcome a handler will record is the service's.
AuAnswerIsTrue ==
    \A m \in AuMutations : AuAt(m, "answered") /\ auMutation[m].outcome = "SUCCESS" => m \in auExecuted

AuInv == /\ AuTypeOK /\ AuNewIsUnknown /\ AuServedIsIntended /\ AuTodoIsIntended
         /\ AuAnswerIsTrue /\ AuditSafe
-----------------------------------------------------------------------------
\* A mutation that moves on leaves the others where they are.
LEMMA AuMoved ==
    ASSUME AuTypeOK, NEW m \in AuMutations, NEW state \in AuStates, AuMove(m, state)
    PROVE  /\ auMutation' \in [AuMutations -> AuStates] /\ auMutation'[m] = state
           /\ \A x \in AuMutations \ {m} : auMutation'[x] = auMutation[x]
BY DEF AuMove, AuTypeOK

\* An outcome is added at the end of the events of one mutation.
LEMMA AuAppended ==
    ASSUME AuTypeOK, NEW m \in AuMutations, NEW outcome \in AuOutcomes, AuAppend(m, outcome)
    PROVE  /\ auEvents' \in [AuMutations -> Seq(AuOutcomes)]
           /\ auEvents'[m] # <<>> /\ Len(auEvents'[m]) = Len(auEvents[m]) + 1
           /\ auEvents'[m][Len(auEvents[m]) + 1] = outcome
           /\ \A i \in 1..Len(auEvents[m]) : auEvents'[m][i] = auEvents[m][i]
           /\ \A x \in AuMutations \ {m} : auEvents'[x] = auEvents[x]
<1>1. auEvents[m] \in Seq(AuOutcomes) /\ auEvents'[m] = Append(auEvents[m], outcome)
  BY DEF AuAppend, AuTypeOK
<1>2. Append(auEvents[m], outcome) \in Seq(AuOutcomes)
  BY <1>1
<1>3. auEvents' \in [AuMutations -> Seq(AuOutcomes)]
  BY <1>2 DEF AuAppend, AuTypeOK
<1>4. \A x \in AuMutations \ {m} : auEvents'[x] = auEvents[x]
  BY DEF AuAppend, AuTypeOK
<1> QED BY <1>1, <1>3, <1>4

\* Nothing is known of any mutation before the first request.
LEMMA AuInitInv == AuInit => AuInv
BY DEF AuInit, AuInv, AuTypeOK, AuStates, AuNewIsUnknown, AuServedIsIntended, AuTodoIsIntended,
   AuAnswerIsTrue, AuditSafe, AuNothingUnseen, AuOneEvent, AuSuccessIsTrue, AuAt, AuServed, AuDown,
   AuOutcomes

\* An intent makes a mutation known, before anything is done for it.
LEMMA AuIntendInv ==
    ASSUME AuInv, NEW m \in AuMutations, NEW g \in AuGateways, AuIntend(m, g)
    PROVE  AuInv'
<1>0. AuTypeOK /\ AuNewIsUnknown /\ AuServedIsIntended /\ AuTodoIsIntended /\ AuAnswerIsTrue
      /\ AuNothingUnseen /\ AuOneEvent /\ AuSuccessIsTrue
  BY DEF AuInv, AuditSafe
<1> USE <1>0
<1> DEFINE began == {[at |-> "intended", by |-> g], [at |-> "refused"]}
<1>a. PICK state \in began : AuMove(m, state) /\ (state.at = "intended" => m \in auOutbox')
  BY DEF AuIntend
<1>b. state \in AuStates /\ state.at \in {"intended", "refused"}
  BY DEF AuStates
<1>c. AuAt(m, "new") /\ auOutbox' \in {auOutbox, auOutbox \cup {m}}
      /\ UNCHANGED <<auEvents, auCalls, auExecuted, auGateway, auShared>>
  BY DEF AuIntend
<1>m. /\ auMutation' \in [AuMutations -> AuStates] /\ auMutation'[m] = state
      /\ \A x \in AuMutations \ {m} : auMutation'[x] = auMutation[x]
  BY <1>a, <1>b, AuMoved
<1>1. AuTypeOK'
  BY <1>a, <1>b, <1>c, <1>m DEF AuTypeOK
<1>2. AuNewIsUnknown'
  <2> SUFFICES ASSUME NEW x \in AuMutations, auMutation'[x].at = "new"
               PROVE  /\ x \notin auOutbox' /\ auEvents[x] = <<>>
                      /\ \A h \in AuGateways : x \notin auGateway[h].todo
    BY <1>c DEF AuNewIsUnknown, AuAt
  <2>1. x # m
    BY <1>b, <1>m
  <2>2. AuAt(x, "new")
    BY <2>1, <1>m DEF AuAt
  <2> QED BY <2>1, <2>2, <1>c DEF AuNewIsUnknown
<1>3. AuServedIsIntended'
  BY <1>a, <1>b, <1>c, <1>m DEF AuTypeOK, AuServedIsIntended, AuTodoIsIntended, AuServed, AuAt, AuNewIsUnknown
<1>4. AuTodoIsIntended'
  BY <1>a, <1>b, <1>c, <1>m DEF AuTypeOK, AuTodoIsIntended, AuServedIsIntended, AuNewIsUnknown, AuServed, AuAt
<1>5. AuAnswerIsTrue'
  BY <1>a, <1>b, <1>c, <1>m DEF AuTypeOK, AuAnswerIsTrue, AuAt
<1>6. AuNothingUnseen'
  BY <1>a, <1>b, <1>c, <1>m DEF AuTypeOK, AuNothingUnseen, AuServedIsIntended, AuServed, AuAt
<1>7. AuOneEvent'
  BY <1>a, <1>b, <1>c, <1>m DEF AuTypeOK, AuOneEvent, AuSuccessIsTrue, AuTodoIsIntended, AuServedIsIntended, AuServed, AuAt
<1>8. AuSuccessIsTrue'
  BY <1>a, <1>b, <1>c, <1>m DEF AuTypeOK, AuSuccessIsTrue, AuAnswerIsTrue, AuNewIsUnknown, AuServed, AuAt
<1> QED BY <1>1, <1>2, <1>3, <1>4, <1>5, <1>6, <1>7, <1>8 DEF AuInv, AuditSafe

\* What is handed to a service has its intent or an event.
LEMMA AuServeInv ==
    ASSUME AuInv, NEW m \in AuMutations, AuServe(m)
    PROVE  AuInv'
<1>0. AuTypeOK /\ AuNewIsUnknown /\ AuServedIsIntended /\ AuTodoIsIntended /\ AuAnswerIsTrue
      /\ AuNothingUnseen /\ AuOneEvent /\ AuSuccessIsTrue
  BY DEF AuInv, AuditSafe
<1> USE <1>0
<1> DEFINE began == {[at |-> "answered", by |-> AuOwner(m), outcome |-> "FAILED"],
                     [at |-> "calling", by |-> AuOwner(m)]}
<1>a. PICK state \in began : AuMove(m, state)
  BY DEF AuServe
<1>b. /\ state \in AuStates /\ state.at \in {"answered", "calling"}
      /\ state.at = "answered" => state.outcome = "FAILED"
  <2>1. auMutation[m] \in AuStates /\ auMutation[m].at = "intended"
    BY DEF AuServe, AuAt, AuTypeOK
  <2>2. AuOwner(m) \in AuGateways
    BY <2>1 DEF AuStates, AuOwner
  <2> QED BY <2>2 DEF AuStates
<1>c. AuAt(m, "intended") /\ auCalls' \in {auCalls, auCalls \cup {m}}
      /\ UNCHANGED <<auOutbox, auEvents, auExecuted, auGateway, auShared>>
  BY DEF AuServe
<1>m. /\ auMutation' \in [AuMutations -> AuStates] /\ auMutation'[m] = state
      /\ \A x \in AuMutations \ {m} : auMutation'[x] = auMutation[x]
  BY <1>a, <1>b, AuMoved
<1>1. AuTypeOK'
  BY <1>a, <1>b, <1>c, <1>m DEF AuTypeOK
<1>2. AuNewIsUnknown'
  BY <1>a, <1>b, <1>c, <1>m DEF AuTypeOK, AuNewIsUnknown, AuAt
<1>3. AuServedIsIntended'
  BY <1>a, <1>b, <1>c, <1>m DEF AuTypeOK, AuServedIsIntended, AuTodoIsIntended, AuServed, AuAt, AuNewIsUnknown
<1>4. AuTodoIsIntended'
  BY <1>a, <1>b, <1>c, <1>m DEF AuTypeOK, AuTodoIsIntended, AuServedIsIntended, AuNewIsUnknown, AuServed, AuAt
<1>5. AuAnswerIsTrue'
  BY <1>a, <1>b, <1>c, <1>m DEF AuTypeOK, AuAnswerIsTrue, AuAt
<1>6. AuNothingUnseen'
  BY <1>a, <1>b, <1>c, <1>m DEF AuTypeOK, AuNothingUnseen, AuServedIsIntended, AuServed, AuAt
<1>7. AuOneEvent'
  BY <1>a, <1>b, <1>c, <1>m DEF AuTypeOK, AuOneEvent, AuSuccessIsTrue, AuTodoIsIntended, AuServedIsIntended, AuServed, AuAt
<1>8. AuSuccessIsTrue'
  BY <1>a, <1>b, <1>c, <1>m DEF AuTypeOK, AuSuccessIsTrue, AuAnswerIsTrue, AuNewIsUnknown, AuServed, AuAt
<1> QED BY <1>1, <1>2, <1>3, <1>4, <1>5, <1>6, <1>7, <1>8 DEF AuInv, AuditSafe

\* A call that takes effect was given to the service before.
LEMMA AuEffectInv ==
    ASSUME AuInv, NEW m \in AuMutations, AuEffect(m)
    PROVE  AuInv'
<1>0. AuTypeOK /\ AuNewIsUnknown /\ AuServedIsIntended /\ AuTodoIsIntended /\ AuAnswerIsTrue
      /\ AuNothingUnseen /\ AuOneEvent /\ AuSuccessIsTrue
  BY DEF AuInv, AuditSafe
<1> USE <1>0
<1>a. m \in auCalls /\ auCalls' = auCalls \ {m} /\ auExecuted' \in {auExecuted, auExecuted \cup {m}}
      /\ UNCHANGED <<auOutbox, auEvents, auMutation, auGateway, auShared>>
  BY DEF AuEffect
<1>1. AuTypeOK'
  BY <1>a DEF AuTypeOK
<1>2. AuNewIsUnknown'
  BY <1>a DEF AuTypeOK, AuNewIsUnknown, AuAt
<1>3. AuServedIsIntended'
  BY <1>a DEF AuTypeOK, AuServedIsIntended, AuTodoIsIntended, AuServed, AuAt, AuNewIsUnknown
<1>4. AuTodoIsIntended'
  BY <1>a DEF AuTypeOK, AuTodoIsIntended, AuServedIsIntended, AuNewIsUnknown, AuServed, AuAt
<1>5. AuAnswerIsTrue'
  BY <1>a DEF AuTypeOK, AuAnswerIsTrue, AuAt
<1>6. AuNothingUnseen'
  BY <1>a DEF AuTypeOK, AuNothingUnseen, AuServedIsIntended, AuServed, AuAt
<1>7. AuOneEvent'
  BY <1>a DEF AuTypeOK, AuOneEvent, AuSuccessIsTrue, AuTodoIsIntended, AuServedIsIntended, AuServed, AuAt
<1>8. AuSuccessIsTrue'
  BY <1>a DEF AuTypeOK, AuSuccessIsTrue, AuAnswerIsTrue, AuNewIsUnknown, AuServed, AuAt
<1> QED BY <1>1, <1>2, <1>3, <1>4, <1>5, <1>6, <1>7, <1>8 DEF AuInv, AuditSafe

\* A success is recorded only of a call that took effect.
LEMMA AuAnswerInv ==
    ASSUME AuInv, NEW m \in AuMutations, AuAnswer(m) \/ AuAnswerLost(m)
    PROVE  AuInv'
<1>0. AuTypeOK /\ AuNewIsUnknown /\ AuServedIsIntended /\ AuTodoIsIntended /\ AuAnswerIsTrue
      /\ AuNothingUnseen /\ AuOneEvent /\ AuSuccessIsTrue
  BY DEF AuInv, AuditSafe
<1> USE <1>0
<1>a. PICK outcome \in {"SUCCESS", "FAILED"} :
        /\ AuMove(m, [at |-> "answered", by |-> AuOwner(m), outcome |-> outcome])
        /\ outcome = "SUCCESS" => m \in auExecuted
  BY DEF AuAnswer, AuAnswerLost
<1> DEFINE state == [at |-> "answered", by |-> AuOwner(m), outcome |-> outcome]
<1>b. state \in AuStates /\ state.at = "answered" /\ state.outcome = outcome
  <2>1. auMutation[m] \in AuStates /\ auMutation[m].at = "calling"
    BY DEF AuAnswer, AuAnswerLost, AuAt, AuTypeOK
  <2>2. AuOwner(m) \in AuGateways
    BY <2>1 DEF AuStates, AuOwner
  <2> QED BY <2>2 DEF AuStates
<1>c. AuAt(m, "calling") /\ UNCHANGED <<auOutbox, auEvents, auCalls, auExecuted, auGateway, auShared>>
  BY DEF AuAnswer, AuAnswerLost
<1>d. AuMove(m, state)
  BY <1>a
<1> HIDE DEF state
<1>m. /\ auMutation' \in [AuMutations -> AuStates] /\ auMutation'[m] = state
      /\ \A x \in AuMutations \ {m} : auMutation'[x] = auMutation[x]
  BY <1>a, <1>b, <1>d, AuMoved
<1>1. AuTypeOK'
  BY <1>a, <1>b, <1>c, <1>d, <1>m DEF AuTypeOK
<1>2. AuNewIsUnknown'
  BY <1>a, <1>b, <1>c, <1>d, <1>m DEF AuTypeOK, AuNewIsUnknown, AuAt
<1>3. AuServedIsIntended'
  BY <1>a, <1>b, <1>c, <1>d, <1>m DEF AuTypeOK, AuServedIsIntended, AuTodoIsIntended, AuServed, AuAt, AuNewIsUnknown
<1>4. AuTodoIsIntended'
  BY <1>a, <1>b, <1>c, <1>d, <1>m DEF AuTypeOK, AuTodoIsIntended, AuServedIsIntended, AuNewIsUnknown, AuServed, AuAt
<1>5. AuAnswerIsTrue'
  BY <1>a, <1>b, <1>c, <1>d, <1>m DEF AuTypeOK, AuAnswerIsTrue, AuAt
<1>6. AuNothingUnseen'
  BY <1>a, <1>b, <1>c, <1>d, <1>m DEF AuTypeOK, AuNothingUnseen, AuServedIsIntended, AuServed, AuAt
<1>7. AuOneEvent'
  BY <1>a, <1>b, <1>c, <1>d, <1>m DEF AuTypeOK, AuOneEvent, AuSuccessIsTrue, AuTodoIsIntended, AuServedIsIntended, AuServed, AuAt
<1>8. AuSuccessIsTrue'
  BY <1>a, <1>b, <1>c, <1>d, <1>m DEF AuTypeOK, AuSuccessIsTrue, AuAnswerIsTrue, AuNewIsUnknown, AuServed, AuAt
<1> QED BY <1>1, <1>2, <1>3, <1>4, <1>5, <1>6, <1>7, <1>8 DEF AuInv, AuditSafe

\* The one event of a mutation replaces its intent, if no gateway has done so.
LEMMA AuFinalizeInv ==
    ASSUME AuInv, NEW m \in AuMutations, AuFinalize(m)
    PROVE  AuInv'
<1>0. AuTypeOK /\ AuNewIsUnknown /\ AuServedIsIntended /\ AuTodoIsIntended /\ AuAnswerIsTrue
      /\ AuNothingUnseen /\ AuOneEvent /\ AuSuccessIsTrue
  BY DEF AuInv, AuditSafe
<1> USE <1>0
<1> DEFINE state == [at |-> "over"]
<1>b. AuMove(m, state) /\ state \in AuStates /\ state.at = "over"
  BY DEF AuFinalize, AuStates
<1>c. AuAt(m, "answered") /\ UNCHANGED <<auCalls, auExecuted, auGateway, auShared>>
  BY DEF AuFinalize
<1>d. auMutation[m].outcome \in {"SUCCESS", "FAILED"}
  <2>1. auMutation[m] \in AuStates /\ auMutation[m].at = "answered"
    BY <1>c DEF AuAt, AuTypeOK
  <2> QED BY <2>1 DEF AuStates
<1>e. \/ AuAppend(m, auMutation[m].outcome) /\ auOutbox' = auOutbox \ {m}
      \/ UNCHANGED <<auEvents, auOutbox>>
  BY DEF AuFinalize
<1> HIDE DEF state
<1>m. /\ auMutation' \in [AuMutations -> AuStates] /\ auMutation'[m] = state
      /\ \A x \in AuMutations \ {m} : auMutation'[x] = auMutation[x]
  BY <1>b, <1>d, AuMoved
<1>n. \/ /\ auEvents' \in [AuMutations -> Seq(AuOutcomes)]
         /\ auEvents'[m] # <<>> /\ Len(auEvents'[m]) = Len(auEvents[m]) + 1
         /\ auEvents'[m][Len(auEvents[m]) + 1] = auMutation[m].outcome
         /\ \A i \in 1..Len(auEvents[m]) : auEvents'[m][i] = auEvents[m][i]
         /\ \A x \in AuMutations \ {m} : auEvents'[x] = auEvents[x]
         /\ auOutbox' = auOutbox \ {m}
      \/ UNCHANGED <<auEvents, auOutbox>>
  BY <1>d, <1>e, AuAppended DEF AuOutcomes
<1>1. AuTypeOK'
  BY <1>b, <1>c, <1>d, <1>m, <1>n DEF AuTypeOK
<1>2. AuNewIsUnknown'
  BY <1>b, <1>c, <1>d, <1>m, <1>n DEF AuTypeOK, AuNewIsUnknown, AuAt
<1>3. AuServedIsIntended'
  BY <1>b, <1>c, <1>d, <1>m, <1>n DEF AuTypeOK, AuServedIsIntended, AuTodoIsIntended, AuServed, AuAt, AuNewIsUnknown
<1>4. AuTodoIsIntended'
  BY <1>b, <1>c, <1>d, <1>m, <1>n DEF AuTypeOK, AuTodoIsIntended, AuServedIsIntended, AuNewIsUnknown, AuServed, AuAt
<1>5. AuAnswerIsTrue'
  BY <1>b, <1>c, <1>d, <1>m, <1>n DEF AuTypeOK, AuAnswerIsTrue, AuAt
<1>6. AuNothingUnseen'
  BY <1>b, <1>c, <1>d, <1>m, <1>n DEF AuTypeOK, AuNothingUnseen, AuServedIsIntended, AuServed, AuAt
<1>6a. m \in auOutbox \/ m \in auShared
  BY <1>c DEF AuServedIsIntended, AuServed, AuAt
<1>6b. \A x \in AuMutations : Len(auEvents[x]) \in Nat /\ auEvents[x] \in Seq(AuOutcomes)
  BY DEF AuTypeOK
<1>6c. m \in auOutbox => Len(auEvents[m]) = 0
  BY DEF AuSuccessIsTrue
<1>7. AuOneEvent'
  <2> SUFFICES ASSUME NEW x \in AuMutations, x \notin auShared PROVE Len(auEvents'[x]) <= 1
    BY <1>c DEF AuOneEvent
  <2>1. Len(auEvents[x]) <= 1
    BY DEF AuOneEvent
  <2>2. CASE UNCHANGED <<auEvents, auOutbox>>
    BY <2>1, <2>2
  <2>3. CASE x # m
    BY <2>1, <2>3, <1>n
  <2>4. CASE x = m /\ ~UNCHANGED <<auEvents, auOutbox>>
    BY <2>4, <1>n, <1>6a, <1>6c
  <2> QED BY <2>2, <2>3, <2>4
<1>8. AuSuccessIsTrue'
  <2> SUFFICES ASSUME NEW x \in AuMutations
               PROVE  /\ (\E i \in 1..Len(auEvents'[x]) : auEvents'[x][i] = "SUCCESS") => x \in auExecuted
                      /\ x \in auOutbox' => auEvents'[x] = <<>>
    BY <1>c DEF AuSuccessIsTrue
  <2>1. CASE UNCHANGED <<auEvents, auOutbox>> \/ x # m
    BY <2>1, <1>n DEF AuSuccessIsTrue
  <2>2. CASE x = m /\ ~UNCHANGED <<auEvents, auOutbox>>
    <3>1. \A i \in 1..Len(auEvents'[m]) : i \in 1..Len(auEvents[m]) \/ i = Len(auEvents[m]) + 1
      BY <2>2, <1>n, <1>6b
    <3>2. auMutation[m].outcome = "SUCCESS" => m \in auExecuted
      BY <1>c DEF AuAnswerIsTrue
    <3> QED BY <2>2, <3>1, <3>2, <1>n DEF AuSuccessIsTrue
  <2> QED BY <2>1, <2>2
<1> QED BY <1>1, <1>2, <1>3, <1>4, <1>5, <1>6, <1>7, <1>8 DEF AuInv, AuditSafe

\* What a start finds is recorded once, unless another one found it too.
LEMMA AuRecoverInv ==
    ASSUME AuInv, NEW m \in AuMutations, NEW g \in AuGateways, AuRecover(g, m)
    PROVE  AuInv'
<1>0. AuTypeOK /\ AuNewIsUnknown /\ AuServedIsIntended /\ AuTodoIsIntended /\ AuAnswerIsTrue
      /\ AuNothingUnseen /\ AuOneEvent /\ AuSuccessIsTrue
  BY DEF AuInv, AuditSafe
<1> USE <1>0
<1>a. AuAppend(m, "INTERRUPTED") /\ auOutbox' = auOutbox \ {m} /\ m \in auGateway[g].todo
      /\ UNCHANGED <<auMutation, auCalls, auExecuted, auShared>>
  BY DEF AuRecover
<1>b. /\ auGateway' \in [AuGateways -> [at : {"down", "up", "recovering"}, todo : SUBSET AuMutations]]
      /\ auGateway'[g].todo = auGateway[g].todo \ {m}
      /\ \A h \in AuGateways \ {g} : auGateway'[h] = auGateway[h]
  BY DEF AuRecover, AuTypeOK
<1>c. /\ auEvents' \in [AuMutations -> Seq(AuOutcomes)]
      /\ auEvents'[m] # <<>> /\ Len(auEvents'[m]) = Len(auEvents[m]) + 1
      /\ auEvents'[m][Len(auEvents[m]) + 1] = "INTERRUPTED"
      /\ \A i \in 1..Len(auEvents[m]) : auEvents'[m][i] = auEvents[m][i]
      /\ \A x \in AuMutations \ {m} : auEvents'[x] = auEvents[x]
  BY <1>a, AuAppended DEF AuOutcomes
<1>1. AuTypeOK'
  BY <1>a, <1>b, <1>c DEF AuTypeOK
<1>2. AuNewIsUnknown'
  BY <1>a, <1>b, <1>c DEF AuTypeOK, AuNewIsUnknown, AuAt
<1>3. AuServedIsIntended'
  BY <1>a, <1>b, <1>c DEF AuTypeOK, AuServedIsIntended, AuTodoIsIntended, AuServed, AuAt, AuNewIsUnknown
<1>4. AuTodoIsIntended'
  <2> SUFFICES ASSUME NEW f \in AuGateways, NEW x \in auGateway'[f].todo
               PROVE  /\ x \in auOutbox' \/ x \in auShared
                      /\ x \in AuServed => x \in auShared
                      /\ \A h \in AuGateways \ {f} : x \in auGateway'[h].todo => x \in auShared
    BY <1>a DEF AuTodoIsIntended, AuServed
  <2>1. \A h \in AuGateways : auGateway'[h].todo \subseteq auGateway[h].todo
    BY <1>b
  <2>2. x \in auGateway[f].todo
    BY <2>1
  <2>3. x = m => f # g
    BY <1>b
  <2>4. x = m => x \in auShared
    BY <2>2, <2>3, <1>a DEF AuTodoIsIntended
  <2> QED BY <2>1, <2>2, <2>4, <1>a DEF AuTodoIsIntended
<1>5. AuAnswerIsTrue'
  BY <1>a, <1>b, <1>c DEF AuTypeOK, AuAnswerIsTrue, AuAt
<1>6. AuNothingUnseen'
  BY <1>a, <1>b, <1>c DEF AuTypeOK, AuNothingUnseen, AuServedIsIntended, AuServed, AuAt
<1>7. AuOneEvent'
  <2> SUFFICES ASSUME NEW x \in AuMutations, x \notin auShared PROVE Len(auEvents'[x]) <= 1
    BY <1>a DEF AuOneEvent
  <2>1. CASE x # m
    BY <2>1, <1>c DEF AuOneEvent
  <2>2. CASE x = m
    <3>1. m \in auOutbox
      BY <2>2, <1>a DEF AuTodoIsIntended
    <3>2. Len(auEvents[m]) = 0
      BY <3>1 DEF AuSuccessIsTrue
    <3> QED BY <2>2, <3>2, <1>c
  <2> QED BY <2>1, <2>2
<1>8. AuSuccessIsTrue'
  BY <1>a, <1>b, <1>c DEF AuTypeOK, AuSuccessIsTrue, AuAnswerIsTrue, AuNewIsUnknown, AuServed, AuAt
<1> QED BY <1>1, <1>2, <1>3, <1>4, <1>5, <1>6, <1>7, <1>8 DEF AuInv, AuditSafe

\* What a start finds besides another gateway is remembered as shared.
LEMMA AuStartInv ==
    ASSUME AuInv, NEW g \in AuGateways, AuStart(g)
    PROVE  AuInv'
<1>0. AuTypeOK /\ AuNewIsUnknown /\ AuServedIsIntended /\ AuTodoIsIntended /\ AuAnswerIsTrue
      /\ AuNothingUnseen /\ AuOneEvent /\ AuSuccessIsTrue
  BY DEF AuInv, AuditSafe
<1> USE <1>0
<1>a. /\ auShared' = auShared \cup (auOutbox \cap (AuServed \cup UNION {auGateway[h].todo : h \in AuGateways}))
      /\ UNCHANGED <<auOutbox, auEvents, auMutation, auCalls, auExecuted>>
  BY DEF AuStart
<1>b. /\ auGateway' \in [AuGateways -> [at : {"down", "up", "recovering"}, todo : SUBSET AuMutations]]
      /\ auGateway'[g].todo = auOutbox
      /\ \A h \in AuGateways \ {g} : auGateway'[h] = auGateway[h]
  BY DEF AuStart, AuTypeOK
<1>1. AuTypeOK'
  BY <1>a, <1>b DEF AuTypeOK
<1>2. AuNewIsUnknown'
  BY <1>a, <1>b DEF AuTypeOK, AuNewIsUnknown, AuAt
<1>3. AuServedIsIntended'
  BY <1>a, <1>b DEF AuTypeOK, AuServedIsIntended, AuTodoIsIntended, AuServed, AuAt, AuNewIsUnknown
<1>4. AuTodoIsIntended'
  BY <1>a, <1>b DEF AuTypeOK, AuTodoIsIntended, AuServedIsIntended, AuNewIsUnknown, AuServed, AuAt
<1>5. AuAnswerIsTrue'
  BY <1>a, <1>b DEF AuTypeOK, AuAnswerIsTrue, AuAt
<1>6. AuNothingUnseen'
  BY <1>a, <1>b DEF AuTypeOK, AuNothingUnseen, AuServedIsIntended, AuServed, AuAt
<1>7. AuOneEvent'
  BY <1>a, <1>b DEF AuTypeOK, AuOneEvent, AuSuccessIsTrue, AuTodoIsIntended, AuServedIsIntended, AuServed, AuAt
<1>8. AuSuccessIsTrue'
  BY <1>a, <1>b DEF AuTypeOK, AuSuccessIsTrue, AuAnswerIsTrue, AuNewIsUnknown, AuServed, AuAt
<1> QED BY <1>1, <1>2, <1>3, <1>4, <1>5, <1>6, <1>7, <1>8 DEF AuInv, AuditSafe

\* A gateway that is ready has recovered everything it found.
LEMMA AuReadyInv ==
    ASSUME AuInv, NEW g \in AuGateways, AuReady(g)
    PROVE  AuInv'
<1>0. AuTypeOK /\ AuNewIsUnknown /\ AuServedIsIntended /\ AuTodoIsIntended /\ AuAnswerIsTrue
      /\ AuNothingUnseen /\ AuOneEvent /\ AuSuccessIsTrue
  BY DEF AuInv, AuditSafe
<1> USE <1>0
<1>a. UNCHANGED <<auOutbox, auEvents, auMutation, auCalls, auExecuted, auShared>>
  BY DEF AuReady
<1>b. /\ auGateway' \in [AuGateways -> [at : {"down", "up", "recovering"}, todo : SUBSET AuMutations]]
      /\ auGateway'[g].todo = {}
      /\ \A h \in AuGateways \ {g} : auGateway'[h] = auGateway[h]
  BY DEF AuReady, AuUp, AuTypeOK
<1>1. AuTypeOK'
  BY <1>a, <1>b DEF AuTypeOK
<1>2. AuNewIsUnknown'
  BY <1>a, <1>b DEF AuTypeOK, AuNewIsUnknown, AuAt
<1>3. AuServedIsIntended'
  BY <1>a, <1>b DEF AuTypeOK, AuServedIsIntended, AuTodoIsIntended, AuServed, AuAt, AuNewIsUnknown
<1>4. AuTodoIsIntended'
  BY <1>a, <1>b DEF AuTypeOK, AuTodoIsIntended, AuServedIsIntended, AuNewIsUnknown, AuServed, AuAt
<1>5. AuAnswerIsTrue'
  BY <1>a, <1>b DEF AuTypeOK, AuAnswerIsTrue, AuAt
<1>6. AuNothingUnseen'
  BY <1>a, <1>b DEF AuTypeOK, AuNothingUnseen, AuServedIsIntended, AuServed, AuAt
<1>7. AuOneEvent'
  BY <1>a, <1>b DEF AuTypeOK, AuOneEvent, AuSuccessIsTrue, AuTodoIsIntended, AuServedIsIntended, AuServed, AuAt
<1>8. AuSuccessIsTrue'
  BY <1>a, <1>b DEF AuTypeOK, AuSuccessIsTrue, AuAnswerIsTrue, AuNewIsUnknown, AuServed, AuAt
<1> QED BY <1>1, <1>2, <1>3, <1>4, <1>5, <1>6, <1>7, <1>8 DEF AuInv, AuditSafe

\* A gateway that dies leaves its intents where they are.
LEMMA AuDieInv ==
    ASSUME AuInv, NEW g \in AuGateways, AuDie(g)
    PROVE  AuInv'
<1>0. AuTypeOK /\ AuNewIsUnknown /\ AuServedIsIntended /\ AuTodoIsIntended /\ AuAnswerIsTrue
      /\ AuNothingUnseen /\ AuOneEvent /\ AuSuccessIsTrue
  BY DEF AuInv, AuditSafe
<1> USE <1>0
<1>a. UNCHANGED <<auOutbox, auEvents, auCalls, auExecuted, auShared>>
  BY DEF AuDie
<1>b. /\ auGateway' \in [AuGateways -> [at : {"down", "up", "recovering"}, todo : SUBSET AuMutations]]
      /\ auGateway'[g].todo = {}
      /\ \A h \in AuGateways \ {g} : auGateway'[h] = auGateway[h]
  BY DEF AuDie, AuDown, AuTypeOK
<1>c. /\ auMutation' \in [AuMutations -> AuStates]
      /\ \A x \in AuMutations : auMutation'[x] = auMutation[x] \/ auMutation'[x].at = "over"
  BY DEF AuDie, AuTypeOK, AuStates
<1>1. AuTypeOK'
  BY <1>a, <1>b, <1>c DEF AuTypeOK
<1>2. AuNewIsUnknown'
  BY <1>a, <1>b, <1>c DEF AuTypeOK, AuNewIsUnknown, AuAt
<1>3. AuServedIsIntended'
  BY <1>a, <1>b, <1>c DEF AuTypeOK, AuServedIsIntended, AuTodoIsIntended, AuServed, AuAt, AuNewIsUnknown
<1>4. AuTodoIsIntended'
  BY <1>a, <1>b, <1>c DEF AuTypeOK, AuTodoIsIntended, AuServedIsIntended, AuNewIsUnknown, AuServed, AuAt
<1>5. AuAnswerIsTrue'
  BY <1>a, <1>b, <1>c DEF AuTypeOK, AuAnswerIsTrue, AuAt
<1>6. AuNothingUnseen'
  BY <1>a, <1>b, <1>c DEF AuTypeOK, AuNothingUnseen, AuServedIsIntended, AuServed, AuAt
<1>7. AuOneEvent'
  BY <1>a, <1>b, <1>c DEF AuTypeOK, AuOneEvent, AuSuccessIsTrue, AuTodoIsIntended, AuServedIsIntended, AuServed, AuAt
<1>8. AuSuccessIsTrue'
  BY <1>a, <1>b, <1>c DEF AuTypeOK, AuSuccessIsTrue, AuAnswerIsTrue, AuNewIsUnknown, AuServed, AuAt
<1> QED BY <1>1, <1>2, <1>3, <1>4, <1>5, <1>6, <1>7, <1>8 DEF AuInv, AuditSafe

\* Every step of a gateway, a service or a start preserves the invariant.
LEMMA AuStepInv == AuInv /\ [AuNext]_auVars => AuInv'
<1> SUFFICES ASSUME AuInv, [AuNext]_auVars PROVE AuInv'
  OBVIOUS
<1>1. CASE UNCHANGED auVars
  BY <1>1 DEF auVars, AuInv, AuTypeOK, AuNewIsUnknown, AuServedIsIntended, AuTodoIsIntended,
     AuAnswerIsTrue, AuditSafe, AuNothingUnseen, AuOneEvent, AuSuccessIsTrue, AuAt, AuServed
<1>2. CASE AuNext
  BY <1>2, AuIntendInv, AuServeInv, AuEffectInv, AuAnswerInv, AuFinalizeInv, AuRecoverInv,
     AuStartInv, AuReadyInv, AuDieInv DEF AuNext
<1> QED BY <1>1, <1>2

\* A mutation that ran has left its intent or an event, one event unless a gateway
\* started beside the one that served it, and what is called a success happened
\* (phase2_durability.go:104): wherever gateways die.
THEOREM AuditIsSafe == AuSpec => []AuditSafe
<1>1. AuInv => AuditSafe
  BY DEF AuInv
<1> QED BY <1>1, AuInitInv, AuStepInv, PTL DEF AuSpec
-----------------------------------------------------------------------------
(* Onboarding.                                                              *)

\* What a gateway may be doing, and what it remembers in it: the attempt of its recovery,
\* and as long as it runs the saga its copy of it.
OsBusy == {"partner", "waiting", "notePartner", "owner", "noteOwner", "terms", "put", "complete",
           "fail", "unlock", "unlockFailed"}
OsCopies ==
    [status : {"none", "PENDING", "RUNNING", "FAILED", "COMPLETE"}, partner : Nat,
     owner : BOOLEAN, billing : BOOLEAN]
OsStates ==
    [at : {"idle", "scan"}] \cup [at : {"lock"}, attempt : 0..3]
    \cup [at : OsBusy, attempt : 0..3, s : OsCopies]
OsCalls == [n : Nat, for : {OsNone} \cup OsGateways, at : {"lookup", "insert", "done"}]

OsTyped ==
    /\ osSaga \in OsCopies
    /\ osLock \in {OsNone} \cup OsGateways
    /\ osGateway \in [OsGateways -> OsStates]
    /\ osCreate \subseteq OsCalls /\ IsFiniteSet(osCreate)
    /\ osOwner \in {"nobody", "saga", "another"}
    /\ osTerms \in [version : Nat, content : {"default", "wanted", "edited"}]
    /\ osSystemOwner \in BOOLEAN
    /\ osSeen \in [puts : Nat, edited : BOOLEAN, cut : BOOLEAN, gone : BOOLEAN]

\* At most one partner is stored, and exactly one when a creation has been answered.
OsStored ==
    /\ osPartners = {} \/ \E id \in Nat \ {OsNone} : osPartners = {id}
    /\ \A c \in osCreate : c.at = "done" => osPartners # {}
    /\ osSaga.partner \in {OsNone} \cup osPartners

\* A gateway in state x holds the lock while it runs the saga, its copy is the saga's but for
\* the partner it has just been told of, and what it is about to note is so.
OsGood(g, x) ==
    x.at \in OsBusy =>
        /\ osLock = g
        /\ x.at \notin {"fail", "unlock", "unlockFailed"} =>
              x.s.owner = osSaga.owner /\ x.s.billing = osSaga.billing
        /\ x.at \in {"partner", "waiting"} => x.s.partner = osSaga.partner
        /\ x.at = "waiting" => osSaga.partner = OsNone
        /\ x.at = "notePartner" => x.s.partner \in osPartners /\ osSaga.partner = OsNone
        /\ x.at \in {"owner", "noteOwner", "terms", "put", "complete"} => osSaga.partner \in osPartners
        /\ x.at = "noteOwner" => ~osSaga.owner /\ osOwner = "saga"
        /\ x.at \in {"terms", "put", "complete"} => osSaga.owner
        /\ x.at \in {"put", "complete"} => ~osSaga.billing
        /\ x.at = "put" => osTerms.content # "wanted" \/ osSeen.edited
        /\ x.at = "complete" => osTerms.content = "wanted" \/ osSeen.edited
        /\ x.at = "unlock" => osSaga.billing
OsAllGood == \A g \in OsGateways : OsGood(g, osGateway[g])

\* A part that is noted as done is done.
OsNotedIsDone ==
    /\ osSaga.owner => osOwner = "saga" /\ osSaga.partner \in osPartners
    /\ osSaga.billing => /\ osSaga.owner /\ osSaga.status \in {"FAILED", "COMPLETE"}
                         /\ osTerms.content = "wanted" \/ osSeen.edited
    /\ osSaga.status = "COMPLETE" => osSaga.billing

\* Until somebody else changes them the terms have the version the saga made.
OsTermsAreOurs ==
    ~osSeen.edited => \/ osSeen.puts = 0 /\ osTerms.content = "default"
                      \/ osSeen.puts = 1 /\ osTerms.content = "wanted"

\* An unfinished saga has somebody who will still look at it, or a reason not to.
OsAttending == {"lock", "scan"} \cup (OsBusy \ {"unlock", "unlockFailed"})
OsIsAttended ==
    osSaga.status \in {"PENDING", "RUNNING"} =>
        osSeen.cut \/ osSeen.gone \/ \E g \in OsGateways : osGateway[g].at \in OsAttending

OsInv ==
    /\ OsTyped /\ OsStored /\ OsAllGood /\ OsNotedIsDone /\ OsTermsAreOurs /\ OsIsAttended
-----------------------------------------------------------------------------
\* A gateway moves to state x.
LEMMA OsMoved ==
    ASSUME OsTyped, NEW g \in OsGateways, NEW x \in OsStates, OsGo(g, x)
    PROVE  /\ osGateway' \in [OsGateways -> OsStates] /\ osGateway'[g] = x
           /\ \A v \in OsGateways \ {g} : osGateway'[v] = osGateway[v]
BY DEF OsTyped, OsGo

\* What the states of a gateway hold.
LEMMA OsStateFacts ==
    ASSUME OsTyped, NEW g \in OsGateways
    PROVE  /\ osGateway[g].at = "lock" => osGateway[g] \in [at : {"lock"}, attempt : 0..3]
           /\ osGateway[g].at \in OsBusy => osGateway[g] \in [at : OsBusy, attempt : 0..3, s : OsCopies]
<1>1. osGateway[g] \in OsStates
  BY DEF OsTyped
<1> QED BY <1>1 DEF OsStates, OsBusy

\* A gateway may move when no other runs the saga, or what the others rest on stays.
LEMMA OsAllGoodStep ==
    ASSUME OsInv, NEW g \in OsGateways, NEW x \in OsStates, OsGo(g, x), OsGood(g, x)',
           \/ osLock \in {OsNone, g}
           \/ /\ osLock' = osLock /\ osOwner' = osOwner /\ osTerms' = osTerms
              /\ osSaga'.partner = osSaga.partner /\ osSaga'.owner = osSaga.owner
              /\ osSaga'.billing = osSaga.billing
              /\ osPartners \subseteq osPartners' /\ (osSeen.edited => osSeen'.edited)
    PROVE  OsAllGood'
<1>1. osGateway'[g] = x /\ \A v \in OsGateways \ {g} : osGateway'[v] = osGateway[v]
  BY OsMoved DEF OsInv
<1>2. OsNone \notin OsGateways
  BY OsAssumption DEF OsAssumption, OsNone
<1> SUFFICES ASSUME NEW v \in OsGateways PROVE OsGood(v, osGateway[v])'
  BY DEF OsAllGood
<1>3. CASE v = g
  BY <1>1, <1>3
<1>4. CASE v # g /\ osLock \in {OsNone, g}
  <2>1. osGateway[v].at \notin OsBusy
    BY <1>2, <1>4 DEF OsInv, OsAllGood, OsGood
  <2>2. osGateway'[v].at \notin OsBusy
    BY <1>1, <1>4, <2>1
  <2> QED BY <2>2 DEF OsGood
<1>5. CASE v # g /\ osLock \notin {OsNone, g}
  <2>1. OsGood(v, osGateway[v])
    BY DEF OsInv, OsAllGood
  <2>2. osGateway'[v] = osGateway[v]
    BY <1>1, <1>5
  <2> QED BY <1>5, <2>1, <2>2 DEF OsGood
<1> QED BY <1>3, <1>4, <1>5

\* A gateway that still has to look at the saga keeps it attended.
LEMMA OsAttendedStep ==
    ASSUME OsInv, NEW g \in OsGateways, NEW x \in OsStates, OsGo(g, x),
           osSeen.cut => osSeen'.cut, osSeen.gone => osSeen'.gone,
           \/ x.at \in OsAttending \/ osSeen'.cut \/ osSeen'.gone
           \/ osSaga'.status \notin {"PENDING", "RUNNING"}
           \/ osSaga'.status = osSaga.status /\ osGateway[g].at \notin OsAttending
    PROVE  OsIsAttended'
<1>1. osGateway'[g] = x /\ \A v \in OsGateways \ {g} : osGateway'[v] = osGateway[v]
  BY OsMoved DEF OsInv
<1> QED BY <1>1 DEF OsInv, OsIsAttended

\* A gateway moves on and changes neither the saga nor what other services hold.
LEMMA OsQuietStep ==
    ASSUME OsInv, NEW g \in OsGateways, NEW x \in OsStates, OsGo(g, x), OsGood(g, x)',
           UNCHANGED <<osSaga, osPartners, osOwner, osTerms, osSystemOwner>>,
           osCreate' \subseteq OsCalls, IsFiniteSet(osCreate'),
           \A c \in osCreate' : c.at = "done" => \E d \in osCreate : d.at = "done",
           osLock' \in {OsNone} \cup OsGateways,
           osLock \in {OsNone, g} \/ osLock' = osLock,
           osSeen' \in [puts : {osSeen.puts}, edited : {osSeen.edited}, cut : BOOLEAN, gone : BOOLEAN],
           osSeen.cut => osSeen'.cut, osSeen.gone => osSeen'.gone,
           \/ x.at \in OsAttending \/ osSeen'.cut \/ osSeen'.gone
           \/ osSaga.status \notin {"PENDING", "RUNNING"} \/ osGateway[g].at \notin OsAttending
    PROVE  OsInv'
<1>1. osSeen'.puts = osSeen.puts /\ osSeen'.edited = osSeen.edited
  OBVIOUS
<1>2. OsTyped'
  <2>1. osGateway' \in [OsGateways -> OsStates]
    BY OsMoved DEF OsInv
  <2>2. osSeen' \in [puts : Nat, edited : BOOLEAN, cut : BOOLEAN, gone : BOOLEAN]
    BY DEF OsInv, OsTyped
  <2> QED BY <2>1, <2>2 DEF OsInv, OsTyped
<1>3. OsStored'
  BY DEF OsInv, OsStored
<1>4. OsAllGood'
  BY <1>1, OsAllGoodStep
<1>5. OsNotedIsDone' /\ OsTermsAreOurs'
  BY <1>1 DEF OsInv, OsNotedIsDone, OsTermsAreOurs
<1>6. OsIsAttended'
  BY OsAttendedStep
<1> QED BY <1>2, <1>3, <1>4, <1>5, <1>6 DEF OsInv
\* A repeated request finds the saga; a first one makes it.
LEMMA OsRequestInv ==
    ASSUME OsInv, NEW g \in OsGateways, OsRequest(g)
    PROVE  OsInv'
<1>1. [at |-> "lock", attempt |-> 0] \in OsStates
  BY DEF OsStates
<1>2. PICK x \in OsStates : OsGo(g, x) /\ x.at = "lock"
  BY <1>1 DEF OsRequest
<1>3. /\ osSaga' \in OsCopies /\ osSaga'.partner = osSaga.partner /\ osSaga'.owner = osSaga.owner
      /\ osSaga'.billing = osSaga.billing
      /\ osSaga' = osSaga \/ (osSaga'.status = "PENDING" /\ ~osSaga.billing)
  <2>1. CASE osSaga = OsNoSaga
    BY <2>1 DEF OsRequest, OsInv, OsTyped, OsCopies, OsNoSaga, OsNone
  <2>2. CASE osSaga # OsNoSaga
    BY <2>2 DEF OsRequest, OsInv, OsTyped
  <2> QED BY <2>1, <2>2
<1>4. UNCHANGED <<osLock, osCreate, osPartners, osOwner, osTerms, osSystemOwner, osSeen>>
  BY DEF OsRequest
<1>5. OsTyped'
  BY <1>2, <1>3, <1>4, OsMoved DEF OsInv, OsTyped
<1>6. OsStored'
  BY <1>3, <1>4 DEF OsInv, OsStored
<1>7. OsAllGood'
  <2>1. OsGood(g, x)'
    BY <1>2 DEF OsGood, OsBusy
  <2> QED BY <1>2, <1>3, <1>4, <2>1, OsAllGoodStep
<1>8. OsNotedIsDone' /\ OsTermsAreOurs'
  BY <1>3, <1>4 DEF OsInv, OsNotedIsDone, OsTermsAreOurs
<1>9. OsIsAttended'
  <2>1. x.at \in OsAttending
    BY <1>2 DEF OsAttending
  <2> QED BY <1>2, <1>4, <2>1, OsAttendedStep
<1> QED BY <1>5, <1>6, <1>7, <1>8, <1>9 DEF OsInv

\* The lock is taken and the saga loaded, or the caller is cut off.
LEMMA OsLockInv ==
    ASSUME OsInv, NEW g \in OsGateways, OsLock(g)
    PROVE  OsInv'
<1>1. UNCHANGED <<osSaga, osPartners, osOwner, osTerms, osSystemOwner, osCreate>>
  BY DEF OsLock, osOthers
<1>2. osCreate' \subseteq OsCalls /\ IsFiniteSet(osCreate')
  BY <1>1 DEF OsInv, OsTyped
<1>3. CASE osLock = OsNone /\ osLock' = g
           /\ OsGo(g, [at |-> "partner", attempt |-> osGateway[g].attempt, s |-> osSaga])
           /\ osSeen' = osSeen
  <2>1. [at |-> "partner", attempt |-> osGateway[g].attempt, s |-> osSaga] \in OsStates
    BY OsStateFacts DEF OsLock, OsAt, OsInv, OsTyped, OsStates, OsBusy
  <2>2. PICK x \in OsStates : OsGo(g, x) /\ x.at = "partner" /\ x.s = osSaga
    BY <1>3, <2>1
  <2>3. OsGood(g, x)'
    BY <1>1, <1>3, <2>2 DEF OsGood, OsBusy
  <2>4. x.at \in OsAttending
    BY <2>2 DEF OsAttending, OsBusy
  <2>5. osSeen' \in [puts : {osSeen.puts}, edited : {osSeen.edited}, cut : BOOLEAN, gone : BOOLEAN]
    BY <1>3 DEF OsInv, OsTyped
  <2> QED BY <1>1, <1>2, <1>3, <2>2, <2>3, <2>4, <2>5, OsQuietStep
<1>4. CASE OsGo(g, OsIdle) /\ osLock' = osLock /\ osSeen' = [osSeen EXCEPT !.cut = TRUE]
  <2>1. PICK x \in OsStates : OsGo(g, x) /\ x.at = "idle"
    BY <1>4 DEF OsIdle, OsStates
  <2>2. OsGood(g, x)'
    BY <2>1 DEF OsGood, OsBusy
  <2>3. /\ osSeen' \in [puts : {osSeen.puts}, edited : {osSeen.edited}, cut : BOOLEAN, gone : BOOLEAN]
        /\ osSeen'.cut /\ osSeen'.gone = osSeen.gone
    BY <1>4 DEF OsInv, OsTyped
  <2>4. osLock' \in {OsNone} \cup OsGateways
    BY <1>4 DEF OsInv, OsTyped
  <2> QED BY <1>1, <1>2, <1>4, <2>1, <2>2, <2>3, <2>4, OsQuietStep
<1> QED BY <1>3, <1>4 DEF OsLock

\* A move of the lock's holder that leaves everything but its own state.
LEMMA OsHolderStep ==
    ASSUME OsInv, NEW g \in OsGateways, osGateway[g].at \in OsBusy, NEW at \in OsBusy, OsMove(g, at),
           OsGood(g, [osGateway[g] EXCEPT !.at = at]),
           UNCHANGED <<osSaga, osLock, osPartners, osOwner, osTerms, osSystemOwner, osSeen>>,
           osCreate' \subseteq OsCalls, IsFiniteSet(osCreate'),
           \A c \in osCreate' : c.at = "done" => \E d \in osCreate : d.at = "done",
           at \in OsAttending \/ osSaga.status \notin {"PENDING", "RUNNING"}
    PROVE  OsInv'
<1>1. osGateway[g] \in [at : OsBusy, attempt : 0..3, s : OsCopies]
  BY OsStateFacts DEF OsInv
<1>2. [osGateway[g] EXCEPT !.at = at] \in OsStates
  BY <1>1 DEF OsStates
<1>3. PICK x \in OsStates : OsGo(g, x) /\ x.at = at /\ OsGood(g, x)
  BY <1>1, <1>2 DEF OsMove
<1>4. OsGood(g, x)'
  BY <1>3 DEF OsGood
<1>5. /\ osLock = g
      /\ osSeen' \in [puts : {osSeen.puts}, edited : {osSeen.edited}, cut : BOOLEAN, gone : BOOLEAN]
  BY DEF OsInv, OsTyped, OsAllGood, OsGood
<1> QED BY <1>3, <1>4, <1>5, OsQuietStep

\* What the holder of the lock rests on.
LEMMA OsHolderFacts ==
    ASSUME OsInv, NEW g \in OsGateways, osGateway[g].at \in OsBusy
    PROVE  /\ osGateway[g] \in [at : OsBusy, attempt : 0..3, s : OsCopies]
           /\ OsGood(g, osGateway[g]) /\ osLock = g
BY OsStateFacts DEF OsInv, OsAllGood, OsGood

\* A failure is on its way to be noted.
LEMMA OsFailsInv ==
    ASSUME OsInv, NEW g \in OsGateways, osGateway[g].at \in OsBusy, OsMove(g, "fail"),
           UNCHANGED <<osSaga, osLock, osPartners, osOwner, osTerms, osSystemOwner, osSeen>>,
           osCreate' \subseteq OsCalls, IsFiniteSet(osCreate'),
           \A c \in osCreate' : c.at = "done" => \E d \in osCreate : d.at = "done"
    PROVE  OsInv'
<1>1. "fail" \in OsBusy /\ "fail" \in OsAttending
  BY DEF OsBusy, OsAttending
<1>2. OsGood(g, [osGateway[g] EXCEPT !.at = "fail"])
  BY OsHolderFacts DEF OsGood
<1> QED BY <1>1, <1>2, OsHolderStep

\* The partner is read back, or its creation is requested.
LEMMA OsAskPartnerInv ==
    ASSUME OsInv, NEW g \in OsGateways, OsAskPartner(g)
    PROVE  OsInv'
<1>1. osGateway[g].at = "partner" /\ "partner" \in OsBusy
  BY DEF OsAskPartner, OsAt, OsBusy
<1>2. UNCHANGED <<osSaga, osLock, osPartners, osOwner, osTerms, osSystemOwner, osSeen>>
  BY DEF OsAskPartner
<1>3. osGateway[g] \in [at : OsBusy, attempt : 0..3, s : OsCopies] /\ OsGood(g, osGateway[g])
  BY <1>1, OsHolderFacts
<1>4. osGateway[g].s.partner = osSaga.partner /\ osLock = g
      /\ osGateway[g].s.owner = osSaga.owner /\ osGateway[g].s.billing = osSaga.billing
  BY <1>1, <1>3 DEF OsGood
<1>5. {"waiting", "owner"} \subseteq OsBusy /\ {"waiting", "owner"} \subseteq OsAttending
  BY DEF OsBusy, OsAttending
<1>6. CASE osGateway[g].s.partner # OsNone /\ osCreate' = osCreate
  <2>1. osCreate' \subseteq OsCalls /\ IsFiniteSet(osCreate')
        /\ \A c \in osCreate' : c.at = "done" => \E d \in osCreate : d.at = "done"
    BY <1>6 DEF OsInv, OsTyped
  <2>2. CASE OsMove(g, "owner")
    <3>1. osSaga.partner \in osPartners
      BY <1>4, <1>6 DEF OsInv, OsStored
    <3>2. OsGood(g, [osGateway[g] EXCEPT !.at = "owner"])
      BY <1>3, <1>4, <3>1 DEF OsGood
    <3> QED BY <1>1, <1>2, <1>5, <2>1, <2>2, <3>2, OsHolderStep
  <2>3. CASE OsMove(g, "fail")
    BY <1>1, <1>2, <2>1, <2>3, OsFailsInv
  <2> QED BY <1>6, <2>2, <2>3 DEF OsAskPartner
<1>7. CASE osGateway[g].s.partner = OsNone
  <2> DEFINE c == [n |-> Cardinality(osCreate), for |-> g, at |-> "lookup"]
  <2>1. osCreate' = osCreate \cup {c} /\ OsMove(g, "waiting")
    BY <1>7 DEF OsAskPartner
  <2>2. IsFiniteSet(osCreate) /\ osCreate \subseteq OsCalls
    BY DEF OsInv, OsTyped
  <2>3. c \in OsCalls /\ c.at = "lookup"
    BY <2>2, FS_CardinalityType DEF OsCalls
  <2> HIDE DEF c
  <2>4. osCreate' \subseteq OsCalls /\ IsFiniteSet(osCreate')
    BY <2>1, <2>2, <2>3, FS_AddElement
  <2>5. \A d \in osCreate' : d.at = "done" => \E e \in osCreate : e.at = "done"
    BY <2>1, <2>3
  <2>6. OsGood(g, [osGateway[g] EXCEPT !.at = "waiting"])
    BY <1>3, <1>4, <1>7 DEF OsGood
  <2> QED BY <1>1, <1>2, <1>5, <2>1, <2>4, <2>5, <2>6, OsHolderStep
<1> QED BY <1>6, <1>7 DEF OsAskPartner
\* A call that is replaced by its next state.
LEMMA OsCallMoved ==
    ASSUME OsInv, NEW c \in osCreate, NEW d \in OsCalls, osCreate' = (osCreate \ {c}) \cup {d}
    PROVE  osCreate' \subseteq OsCalls /\ IsFiniteSet(osCreate')
<1>1. IsFiniteSet(osCreate \ {c})
  BY FS_RemoveElement DEF OsInv, OsTyped
<1>2. IsFiniteSet((osCreate \ {c}) \cup {d})
  BY <1>1, FS_AddElement
<1> QED BY <1>2 DEF OsInv, OsTyped

\* What no gateway does leaves every gateway as it should be.
LEMMA OsAllGoodStays ==
    ASSUME OsInv, UNCHANGED <<osSaga, osLock, osGateway>>, osPartners \subseteq osPartners',
           osOwner' = osOwner \/ osOwner = "nobody",
           (osTerms' = osTerms /\ (osSeen.edited => osSeen'.edited)) \/ (osTerms'.content = "edited" /\ osSeen'.edited)
    PROVE  OsAllGood'
<1> SUFFICES ASSUME NEW g \in OsGateways PROVE OsGood(g, osGateway[g])'
  BY DEF OsAllGood
<1>1. OsGood(g, osGateway[g])
  BY DEF OsInv, OsAllGood
<1>2. osGateway'[g] = osGateway[g]
  OBVIOUS
<1> QED BY <1>1, <1>2 DEF OsGood

\* The Partners service finds the row, or goes on to insert it.
LEMMA OsLookupInv ==
    ASSUME OsInv, NEW c \in osCreate, OsLookup(c)
    PROVE  OsInv'
<1>1. UNCHANGED <<osSaga, osLock, osGateway, osPartners, osOwner, osTerms, osSystemOwner, osSeen>>
  BY DEF OsLookup
<1>2. PICK d \in OsCalls : osCreate' = (osCreate \ {c}) \cup {d} /\ (d.at = "done" => osPartners # {})
  <2> DEFINE d == [c EXCEPT !.at = IF osPartners = {} THEN "insert" ELSE "done"]
  <2>1. d \in OsCalls /\ (d.at = "done" => osPartners # {})
    BY DEF OsInv, OsTyped, OsCalls
  <2>2. osCreate' = (osCreate \ {c}) \cup {d}
    BY DEF OsLookup
  <2> HIDE DEF d
  <2> QED BY <2>1, <2>2
<1>3. OsTyped'
  BY <1>1, <1>2, OsCallMoved DEF OsInv, OsTyped
<1>4. OsStored'
  BY <1>1, <1>2 DEF OsInv, OsStored
<1>5. OsAllGood'
  BY <1>1, OsAllGoodStays
<1>6. OsNotedIsDone' /\ OsTermsAreOurs' /\ OsIsAttended'
  BY <1>1 DEF OsInv, OsNotedIsDone, OsTermsAreOurs, OsIsAttended
<1> QED BY <1>3, <1>4, <1>5, <1>6 DEF OsInv

\* A row is inserted unless the request has one.
LEMMA OsInsertInv ==
    ASSUME OsInv, NEW c \in osCreate, OsInsert(c)
    PROVE  OsInv'
<1>1. UNCHANGED <<osSaga, osLock, osGateway, osOwner, osTerms, osSystemOwner, osSeen>>
  BY DEF OsInsert
<1>2. PICK d \in OsCalls : osCreate' = (osCreate \ {c}) \cup {d}
  BY DEF OsInsert, OsInv, OsTyped, OsCalls
<1>3. c.n + 1 \in Nat \ {OsNone}
  BY DEF OsInv, OsTyped, OsCalls, OsNone
<1>4. OsTyped'
  BY <1>1, <1>2, OsCallMoved DEF OsInv, OsTyped
<1>5. osPartners' = (IF osPartners = {} THEN {c.n + 1} ELSE osPartners) /\ osPartners' # {}
      /\ osPartners \subseteq osPartners'
  BY DEF OsInsert
<1>6. OsStored'
  BY <1>1, <1>3, <1>5 DEF OsInv, OsStored
<1>7. OsAllGood'
  BY <1>1, <1>5, OsAllGoodStays
<1>8. OsNotedIsDone' /\ OsTermsAreOurs' /\ OsIsAttended'
  BY <1>1, <1>5 DEF OsInv, OsNotedIsDone, OsTermsAreOurs, OsIsAttended
<1> QED BY <1>4, <1>6, <1>7, <1>8 DEF OsInv

\* The one partner stored is what an answered creation is told of.
LEMMA OsAnswered ==
    ASSUME OsInv, NEW c \in osCreate, c.at = "done"
    PROVE  Max(osPartners) \in osPartners /\ Max(osPartners) \in Nat
<1>1. PICK id \in Nat \ {OsNone} : osPartners = {id}
  BY DEF OsInv, OsStored
<1>2. Max({id}) = id
  BY DEF Max
<1> QED BY <1>1, <1>2

\* A creation is answered, or given up by its caller.
LEMMA OsAnswerInv ==
    ASSUME OsInv, NEW g \in OsGateways, OsAnswer(g)
    PROVE  OsInv'
<1>1. osGateway[g].at = "waiting" /\ "waiting" \in OsBusy
  BY DEF OsAnswer, OsAt, OsBusy
<1>2. UNCHANGED <<osSaga, osLock, osPartners, osOwner, osTerms, osSystemOwner, osSeen>>
  BY DEF OsAnswer
<1>3. PICK c \in osCreate :
         /\ \/ /\ c.at = "done"
               /\ OsGo(g, [osGateway[g] EXCEPT !.at = "notePartner", !.s.partner = Max(osPartners)])
            \/ OsMove(g, "fail")
         /\ osCreate' = (osCreate \ {c}) \cup {[c EXCEPT !.for = OsNone]}
  BY DEF OsAnswer
<1>4. [c EXCEPT !.for = OsNone] \in OsCalls /\ [c EXCEPT !.for = OsNone].at = c.at
  BY DEF OsInv, OsTyped, OsCalls
<1>5. osCreate' \subseteq OsCalls /\ IsFiniteSet(osCreate')
  BY <1>3, <1>4, OsCallMoved
<1>6. \A d \in osCreate' : d.at = "done" => \E e \in osCreate : e.at = "done"
  BY <1>3, <1>4
<1>7. osGateway[g] \in [at : OsBusy, attempt : 0..3, s : OsCopies] /\ OsGood(g, osGateway[g])
  BY <1>1, OsHolderFacts
<1>8. CASE OsMove(g, "fail")
  BY <1>1, <1>2, <1>5, <1>6, <1>8, OsFailsInv
<1>9. CASE c.at = "done"
           /\ OsGo(g, [osGateway[g] EXCEPT !.at = "notePartner", !.s.partner = Max(osPartners)])
  <2>1. Max(osPartners) \in osPartners /\ Max(osPartners) \in Nat
    BY <1>9, OsAnswered
  <2>2. PICK x \in OsStates :
           /\ OsGo(g, x) /\ x.at = "notePartner" /\ x.s.partner = Max(osPartners)
           /\ x.s.owner = osGateway[g].s.owner /\ x.s.billing = osGateway[g].s.billing
    <3> DEFINE me == osGateway[g]
               x == [me EXCEPT !.at = "notePartner", !.s.partner = Max(osPartners)]
    <3>1. me.s \in OsCopies /\ me \in [at : OsBusy, attempt : 0..3, s : OsCopies]
      BY <1>7
    <3>2. x.at = "notePartner" /\ x.s = [me.s EXCEPT !.partner = Max(osPartners)]
      BY <3>1
    <3>3. x.s \in OsCopies /\ x.s.partner = Max(osPartners)
          /\ x.s.owner = me.s.owner /\ x.s.billing = me.s.billing
      BY <2>1, <3>1, <3>2 DEF OsCopies
    <3>4. OsGo(g, x)
      BY <1>9
    <3>5. x \in OsStates
      <4>1. x \in [at : OsBusy, attempt : 0..3, s : OsCopies]
        BY <3>1, <3>3 DEF OsBusy
      <4> QED BY <4>1 DEF OsStates
    <3> HIDE DEF x
    <3> QED BY <3>2, <3>3, <3>4, <3>5
  <2>3. OsGood(g, x)' /\ osLock = g
    BY <1>1, <1>2, <1>7, <2>1, <2>2 DEF OsGood
  <2>4. x.at \in OsAttending
    BY <2>2 DEF OsAttending, OsBusy
  <2>5. osSeen' \in [puts : {osSeen.puts}, edited : {osSeen.edited}, cut : BOOLEAN, gone : BOOLEAN]
        /\ osLock' \in {OsNone} \cup OsGateways
    BY <1>2 DEF OsInv, OsTyped
  <2> QED BY <1>2, <1>5, <1>6, <2>2, <2>3, <2>4, <2>5, OsQuietStep
<1> QED BY <1>3, <1>8, <1>9
\* The holder of the lock writes the saga.
LEMMA OsNoteStep ==
    ASSUME OsInv, NEW g \in OsGateways, osGateway[g].at \in OsBusy, NEW x \in OsStates, OsGo(g, x),
           OsGood(g, x)',
           UNCHANGED <<osLock, osCreate, osPartners, osOwner, osTerms, osSystemOwner, osSeen>>,
           osSaga' \in OsCopies, osSaga'.partner \in {OsNone} \cup osPartners, OsNotedIsDone',
           x.at \in OsAttending \/ osSaga'.status \notin {"PENDING", "RUNNING"}
    PROVE  OsInv'
<1>1. osLock = g
  BY OsHolderFacts
<1>2. OsTyped'
  BY OsMoved DEF OsInv, OsTyped
<1>3. OsStored'
  BY DEF OsInv, OsStored
<1>4. OsAllGood'
  BY <1>1, OsAllGoodStep
<1>5. OsTermsAreOurs'
  BY DEF OsInv, OsTermsAreOurs
<1>6. OsIsAttended'
  BY OsAttendedStep
<1> QED BY <1>2, <1>3, <1>4, <1>5, <1>6 DEF OsInv

\* The saga remembers the partner it was told of.
LEMMA OsNotePartnerInv ==
    ASSUME OsInv, NEW g \in OsGateways, OsNotePartner(g)
    PROVE  OsInv'
<1> DEFINE me == osGateway[g]
<1>1. me.at = "notePartner" /\ me.at \in OsBusy
  BY DEF OsNotePartner, OsAt, OsBusy
<1>2. me \in [at : OsBusy, attempt : 0..3, s : OsCopies] /\ OsGood(g, me)
  BY <1>1, OsHolderFacts
<1>3. UNCHANGED <<osLock, osCreate, osPartners, osOwner, osTerms, osSystemOwner, osSeen>>
  BY DEF OsNotePartner, osOthers
<1>4. me.s.partner \in osPartners /\ osSaga.partner = OsNone /\ osSaga \in OsCopies
      /\ me.s \in OsCopies /\ me.s.owner = osSaga.owner /\ me.s.billing = osSaga.billing /\ osLock = g
  BY <1>1, <1>2 DEF OsGood, OsInv, OsTyped
<1>5. osSaga' = [osSaga EXCEPT !.partner = me.s.partner, !.status = "RUNNING"]
  BY DEF OsNotePartner
<1>6. /\ osSaga' \in OsCopies /\ osSaga'.partner = me.s.partner /\ osSaga'.status = "RUNNING"
      /\ osSaga'.owner = osSaga.owner /\ osSaga'.billing = osSaga.billing
  BY <1>4, <1>5 DEF OsCopies
<1>7. ~osSaga.owner /\ ~osSaga.billing
  <2>1. osSaga.partner \notin osPartners
    BY <1>4 DEF OsInv, OsStored
  <2> QED BY <2>1 DEF OsInv, OsNotedIsDone
<1>8. OsNotedIsDone'
  BY <1>6, <1>7 DEF OsNotedIsDone
<1>9. PICK x \in OsStates : OsGo(g, x) /\ x.at = "owner" /\ x.s = me.s
  <2>1. [me EXCEPT !.at = "owner"] \in OsStates
    BY <1>2 DEF OsStates, OsBusy
  <2> QED BY <1>2, <2>1 DEF OsNotePartner, OsMove
<1> HIDE DEF me
<1>10. OsGood(g, x)'
  BY <1>3, <1>4, <1>6, <1>9 DEF OsGood
<1>11. x.at \in OsAttending
  BY <1>9 DEF OsAttending, OsBusy
<1> QED BY <1>1, <1>3, <1>4, <1>6, <1>8, <1>9, <1>10, <1>11, OsNoteStep DEF me

\* The email's user becomes, or is, the saga's; or somebody else has it.
LEMMA OsEnsureOwnerInv ==
    ASSUME OsInv, NEW g \in OsGateways, OsEnsureOwner(g)
    PROVE  OsInv'
<1> DEFINE me == osGateway[g]
<1>1. me.at = "owner" /\ me.at \in OsBusy
  BY DEF OsEnsureOwner, OsAt, OsBusy
<1>2. me \in [at : OsBusy, attempt : 0..3, s : OsCopies] /\ OsGood(g, me) /\ osLock = g
  BY <1>1, OsHolderFacts
<1>3. UNCHANGED <<osSaga, osLock, osCreate, osPartners, osTerms, osSystemOwner, osSeen>>
  BY DEF OsEnsureOwner
<1>4. me.s.owner = osSaga.owner /\ osSaga.partner \in osPartners /\ me.s.billing = osSaga.billing
  BY <1>1, <1>2 DEF OsGood
<1>5. osCreate' \subseteq OsCalls /\ IsFiniteSet(osCreate')
      /\ \A c \in osCreate' : c.at = "done" => \E d \in osCreate : d.at = "done"
  BY <1>3 DEF OsInv, OsTyped
<1>6. \A at \in OsBusy : [me EXCEPT !.at = at] \in OsStates
                         /\ [me EXCEPT !.at = at].at = at /\ [me EXCEPT !.at = at].s = me.s
  BY <1>2 DEF OsStates
<1>7. {"terms", "noteOwner", "fail"} \subseteq OsBusy \cap OsAttending
  BY DEF OsBusy, OsAttending
<1>8. CASE me.s.owner /\ OsMove(g, "terms") /\ osOwner' = osOwner
  <2>1. OsGood(g, [me EXCEPT !.at = "terms"])
    BY <1>2, <1>4, <1>6, <1>7, <1>8 DEF OsGood
  <2> QED BY <1>1, <1>3, <1>5, <1>7, <1>8, <2>1, OsHolderStep
<1>9. CASE OsMove(g, "fail") /\ osOwner' = osOwner
  BY <1>1, <1>3, <1>5, <1>9, OsFailsInv
<1>10. CASE ~me.s.owner /\ osOwner' = "saga" /\ (OsMove(g, "noteOwner") \/ OsMove(g, "fail"))
  <2>1. PICK at \in {"noteOwner", "fail"} : OsGo(g, [me EXCEPT !.at = at])
    BY <1>10 DEF OsMove
  <2>2. PICK x \in OsStates : OsGo(g, x) /\ x.at = at /\ x.s = me.s
    BY <1>6, <1>7, <2>1
  <2>3. OsGood(g, x)'
    BY <1>2, <1>3, <1>4, <1>10, <2>1, <2>2 DEF OsGood
  <2>4. OsTyped'
    BY <1>3, <1>10, <2>2, OsMoved DEF OsInv, OsTyped
  <2>5. OsStored'
    BY <1>3 DEF OsInv, OsStored
  <2>6. OsAllGood'
    BY <1>2, <2>2, <2>3, OsAllGoodStep
  <2>7. OsNotedIsDone' /\ OsTermsAreOurs'
    BY <1>3, <1>10 DEF OsInv, OsNotedIsDone, OsTermsAreOurs
  <2>8. OsIsAttended'
    BY <1>3, <1>7, <2>1, <2>2, OsAttendedStep
  <2> QED BY <2>4, <2>5, <2>6, <2>7, <2>8 DEF OsInv
<1> QED BY <1>8, <1>9, <1>10 DEF OsEnsureOwner

\* The saga remembers that its owner is made.
LEMMA OsNoteOwnerInv ==
    ASSUME OsInv, NEW g \in OsGateways, OsNoteOwner(g)
    PROVE  OsInv'
<1> DEFINE me == osGateway[g]
<1>1. me.at = "noteOwner" /\ me.at \in OsBusy
  BY DEF OsNoteOwner, OsAt, OsBusy
<1>2. me \in [at : OsBusy, attempt : 0..3, s : OsCopies] /\ OsGood(g, me)
  BY <1>1, OsHolderFacts
<1>3. UNCHANGED <<osLock, osCreate, osPartners, osOwner, osTerms, osSystemOwner, osSeen>>
  BY DEF OsNoteOwner, osOthers
<1>4. /\ osSaga.partner \in osPartners /\ osSaga \in OsCopies /\ me.s \in OsCopies
      /\ me.s.billing = osSaga.billing /\ osLock = g /\ ~osSaga.owner /\ osOwner = "saga"
  BY <1>1, <1>2 DEF OsGood, OsInv, OsTyped
<1>5. osSaga' = [osSaga EXCEPT !.owner = TRUE, !.status = "RUNNING"]
  BY DEF OsNoteOwner
<1>6. /\ osSaga' \in OsCopies /\ osSaga'.partner = osSaga.partner /\ osSaga'.status = "RUNNING"
      /\ osSaga'.owner = TRUE /\ osSaga'.billing = osSaga.billing
  BY <1>4, <1>5 DEF OsCopies
<1>7. ~osSaga.billing
  BY <1>4 DEF OsInv, OsNotedIsDone
<1>8. OsNotedIsDone'
  BY <1>3, <1>4, <1>6, <1>7 DEF OsNotedIsDone
<1>9. PICK x \in OsStates : OsGo(g, x) /\ x.at = "terms" /\ x.s.owner = TRUE /\ x.s.billing = osSaga.billing
  <2> DEFINE x == [me EXCEPT !.at = "terms", !.s.owner = TRUE]
  <2>1. x.at = "terms" /\ x.s = [me.s EXCEPT !.owner = TRUE]
    BY <1>2
  <2>2. x.s \in OsCopies /\ x.s.owner = TRUE /\ x.s.billing = osSaga.billing
    <3>1. \A y \in OsCopies : /\ [y EXCEPT !.owner = TRUE] \in OsCopies
                             /\ [y EXCEPT !.owner = TRUE].owner = TRUE
                             /\ [y EXCEPT !.owner = TRUE].billing = y.billing
      BY DEF OsCopies
    <3> HIDE DEF x, me
    <3> QED BY <1>4, <2>1, <3>1
  <2>3. x \in OsStates
    <3>1. x \in [at : OsBusy, attempt : 0..3, s : OsCopies]
      BY <1>2, <2>2 DEF OsBusy
    <3> QED BY <3>1 DEF OsStates
  <2>4. OsGo(g, x)
    BY DEF OsNoteOwner
  <2> HIDE DEF x
  <2> QED BY <2>1, <2>2, <2>3, <2>4
<1> HIDE DEF me
<1>10. OsGood(g, x)'
  <2>1. x.s.owner = osSaga'.owner
    BY <1>6, <1>9
  <2> QED BY <1>3, <1>4, <1>6, <1>9, <2>1 DEF OsGood
<1>11. x.at \in OsAttending
  BY <1>9 DEF OsAttending, OsBusy
<1> QED BY <1>1, <1>3, <1>4, <1>6, <1>8, <1>9, <1>10, <1>11, OsNoteStep DEF me
\* The terms are compared with the wanted ones.
LEMMA OsReadTermsInv ==
    ASSUME OsInv, NEW g \in OsGateways, OsReadTerms(g)
    PROVE  OsInv'
<1> DEFINE me == osGateway[g]
<1>1. me.at = "terms" /\ me.at \in OsBusy
  BY DEF OsReadTerms, OsAt, OsBusy
<1>2. me \in [at : OsBusy, attempt : 0..3, s : OsCopies] /\ OsGood(g, me) /\ osLock = g
  BY <1>1, OsHolderFacts
<1>3. UNCHANGED <<osSaga, osLock, osCreate, osPartners, osOwner, osTerms, osSystemOwner, osSeen>>
  BY DEF OsReadTerms, osOthers
<1>4. osCreate' \subseteq OsCalls /\ IsFiniteSet(osCreate')
      /\ \A c \in osCreate' : c.at = "done" => \E d \in osCreate : d.at = "done"
  BY <1>3 DEF OsInv, OsTyped
<1>5. me.s.owner = osSaga.owner /\ me.s.billing = osSaga.billing /\ osSaga.owner /\ osSaga.partner \in osPartners
  BY <1>1, <1>2 DEF OsGood
<1>6. CASE me.s.billing /\ OsMove(g, "unlock")
  <2>1. OsGood(g, [me EXCEPT !.at = "unlock"]) /\ "unlock" \in OsBusy
    BY <1>2, <1>5, <1>6 DEF OsGood, OsBusy
  <2>2. osSaga.status \notin {"PENDING", "RUNNING"}
    BY <1>5, <1>6 DEF OsInv, OsNotedIsDone
  <2> QED BY <1>1, <1>3, <1>4, <1>6, <2>1, <2>2, OsHolderStep
<1>7. CASE ~me.s.billing /\ OsTermsDiffer /\ OsMove(g, "put")
  <2>1. OsGood(g, [me EXCEPT !.at = "put"]) /\ "put" \in OsBusy
    BY <1>2, <1>5, <1>7 DEF OsGood, OsBusy, OsTermsDiffer
  <2>2. "put" \in OsAttending
    BY DEF OsAttending, OsBusy
  <2> QED BY <1>1, <1>3, <1>4, <1>7, <2>1, <2>2, OsHolderStep
<1>8. CASE ~me.s.billing /\ ~OsTermsDiffer /\ OsMove(g, "complete")
  <2>1. OsGood(g, [me EXCEPT !.at = "complete"]) /\ "complete" \in OsBusy
    BY <1>2, <1>5, <1>8 DEF OsGood, OsBusy, OsTermsDiffer
  <2>2. "complete" \in OsAttending
    BY DEF OsAttending, OsBusy
  <2> QED BY <1>1, <1>3, <1>4, <1>8, <2>1, <2>2, OsHolderStep
<1>9. CASE OsMove(g, "fail")
  BY <1>1, <1>3, <1>4, <1>9, OsFailsInv
<1> QED BY <1>6, <1>7, <1>8, <1>9 DEF OsReadTerms, OsMove

\* The saga's terms are put: its first version, or after somebody else's.
LEMMA OsPutTermsInv ==
    ASSUME OsInv, NEW g \in OsGateways, OsPutTerms(g)
    PROVE  OsInv'
<1> DEFINE me == osGateway[g]
<1>1. me.at = "put" /\ me.at \in OsBusy
  BY DEF OsPutTerms, OsAt, OsBusy
<1>2. me \in [at : OsBusy, attempt : 0..3, s : OsCopies] /\ OsGood(g, me) /\ osLock = g
  BY <1>1, OsHolderFacts
<1>3. UNCHANGED <<osSaga, osLock, osCreate, osPartners, osOwner, osSystemOwner>>
  BY DEF OsPutTerms
<1>4. CASE UNCHANGED <<osTerms, osSeen>> /\ OsMove(g, "fail")
  <2>1. osCreate' \subseteq OsCalls /\ IsFiniteSet(osCreate')
        /\ \A c \in osCreate' : c.at = "done" => \E d \in osCreate : d.at = "done"
    BY <1>3 DEF OsInv, OsTyped
  <2> QED BY <1>1, <1>3, <1>4, <2>1, OsFailsInv
<1>5. CASE /\ osTerms' = [version |-> osTerms.version + 1, content |-> "wanted"]
           /\ osSeen' = [osSeen EXCEPT !.puts = @ + 1]
           /\ OsMove(g, "complete") \/ OsMove(g, "fail")
  <2>1. /\ osTerms' \in [version : Nat, content : {"default", "wanted", "edited"}]
        /\ osTerms'.content = "wanted"
    BY <1>5 DEF OsInv, OsTyped
  <2>2. /\ osSeen' \in [puts : Nat, edited : BOOLEAN, cut : BOOLEAN, gone : BOOLEAN]
        /\ osSeen'.puts = osSeen.puts + 1 /\ osSeen'.edited = osSeen.edited
        /\ osSeen'.cut = osSeen.cut /\ osSeen'.gone = osSeen.gone
    BY <1>5 DEF OsInv, OsTyped
  <2>3. ~osSaga.billing /\ osSaga.owner /\ osSaga.partner \in osPartners
        /\ me.s.owner = osSaga.owner /\ me.s.billing = osSaga.billing
        /\ (osTerms.content # "wanted" \/ osSeen.edited)
    BY <1>1, <1>2 DEF OsGood
  <2>4. PICK at \in {"complete", "fail"} : OsGo(g, [me EXCEPT !.at = at])
    BY <1>5 DEF OsMove
  <2>5. {"complete", "fail"} \subseteq OsBusy \cap OsAttending
    BY DEF OsBusy, OsAttending
  <2>6. PICK x \in OsStates : OsGo(g, x) /\ x.at = at /\ x.s = me.s
    <3>1. [me EXCEPT !.at = at] \in OsStates
      BY <1>2, <2>5 DEF OsStates
    <3> QED BY <1>2, <2>4, <3>1
  <2>7. OsTyped'
    BY <1>3, <2>1, <2>2, <2>6, OsMoved DEF OsInv, OsTyped
  <2>8. OsStored'
    BY <1>3 DEF OsInv, OsStored
  <2>9. OsGood(g, x)'
    BY <1>2, <1>3, <2>1, <2>3, <2>4, <2>6 DEF OsGood
  <2>10. OsAllGood'
    BY <1>2, <2>6, <2>9, OsAllGoodStep
  <2>11. OsNotedIsDone'
    BY <1>3, <2>1 DEF OsInv, OsNotedIsDone
  <2>12. OsTermsAreOurs'
    BY <2>1, <2>2, <2>3 DEF OsInv, OsTermsAreOurs
  <2>13. OsIsAttended'
    BY <1>3, <2>2, <2>4, <2>5, <2>6, OsAttendedStep
  <2> QED BY <2>7, <2>8, <2>10, <2>11, <2>12, <2>13 DEF OsInv
<1> QED BY <1>4, <1>5 DEF OsPutTerms

\* The saga is COMPLETE.
LEMMA OsCompleteInv ==
    ASSUME OsInv, NEW g \in OsGateways, OsComplete(g)
    PROVE  OsInv'
<1> DEFINE me == osGateway[g]
<1>1. me.at = "complete" /\ me.at \in OsBusy
  BY DEF OsComplete, OsAt, OsBusy
<1>2. me \in [at : OsBusy, attempt : 0..3, s : OsCopies] /\ OsGood(g, me)
  BY <1>1, OsHolderFacts
<1>3. UNCHANGED <<osLock, osCreate, osPartners, osOwner, osTerms, osSystemOwner, osSeen>>
  BY DEF OsComplete, osOthers
<1>4. /\ osSaga.partner \in osPartners /\ osSaga \in OsCopies /\ osLock = g /\ osSaga.owner
      /\ osTerms.content = "wanted" \/ osSeen.edited
  BY <1>1, <1>2 DEF OsGood, OsInv, OsTyped
<1>5. osSaga' = [osSaga EXCEPT !.billing = TRUE, !.status = "COMPLETE"]
  BY DEF OsComplete
<1>6. /\ osSaga' \in OsCopies /\ osSaga'.partner = osSaga.partner /\ osSaga'.status = "COMPLETE"
      /\ osSaga'.owner = osSaga.owner /\ osSaga'.billing = TRUE
  BY <1>4, <1>5 DEF OsCopies
<1>7. OsNotedIsDone'
  BY <1>3, <1>4, <1>6 DEF OsNotedIsDone, OsInv
<1>8. PICK x \in OsStates : OsGo(g, x) /\ x.at = "unlock"
  <2>1. [me EXCEPT !.at = "unlock"] \in OsStates
    BY <1>2 DEF OsStates, OsBusy
  <2> QED BY <1>2, <2>1 DEF OsComplete, OsMove
<1> HIDE DEF me
<1>9. OsGood(g, x)'
  BY <1>3, <1>4, <1>6, <1>8 DEF OsGood
<1> QED BY <1>1, <1>3, <1>4, <1>6, <1>7, <1>8, <1>9, OsNoteStep DEF me

\* The saga is FAILED, whatever of it is done.
LEMMA OsFailInv ==
    ASSUME OsInv, NEW g \in OsGateways, OsFail(g)
    PROVE  OsInv'
<1> DEFINE me == osGateway[g]
<1>1. me.at = "fail" /\ me.at \in OsBusy
  BY DEF OsFail, OsAt, OsBusy
<1>2. me \in [at : OsBusy, attempt : 0..3, s : OsCopies] /\ osLock = g
  BY <1>1, OsHolderFacts
<1>3. UNCHANGED <<osLock, osCreate, osPartners, osOwner, osTerms, osSystemOwner, osSeen>>
  BY DEF OsFail, osOthers
<1>4. /\ osSaga' \in OsCopies /\ osSaga'.partner = osSaga.partner /\ osSaga'.status = "FAILED"
      /\ osSaga'.owner = osSaga.owner /\ osSaga'.billing = osSaga.billing
  BY DEF OsFail, OsInv, OsTyped, OsCopies
<1>5. OsNotedIsDone' /\ osSaga'.partner \in {OsNone} \cup osPartners
  BY <1>3, <1>4 DEF OsNotedIsDone, OsInv, OsStored
<1>6. PICK x \in OsStates : OsGo(g, x) /\ x.at = "unlockFailed"
  <2>1. [me EXCEPT !.at = "unlockFailed"] \in OsStates
    BY <1>2 DEF OsStates, OsBusy
  <2> QED BY <1>2, <2>1 DEF OsFail
<1> HIDE DEF me
<1>7. OsGood(g, x)'
  BY <1>2, <1>3, <1>6 DEF OsGood
<1> QED BY <1>1, <1>3, <1>4, <1>5, <1>6, <1>7, OsNoteStep DEF me
\* The lock is given back, and the recovery may try again.
LEMMA OsUnlockInv ==
    ASSUME OsInv, NEW g \in OsGateways, OsUnlock(g)
    PROVE  OsInv'
<1> DEFINE me == osGateway[g]
<1>1. me.at \in {"unlock", "unlockFailed"} /\ me.at \in OsBusy /\ me.at \notin OsAttending
  BY DEF OsUnlock, OsBusy, OsAttending
<1>2. me \in [at : OsBusy, attempt : 0..3, s : OsCopies] /\ osLock = g
  BY <1>1, OsHolderFacts
<1>3. UNCHANGED <<osSaga, osCreate, osPartners, osOwner, osTerms, osSystemOwner, osSeen>>
      /\ osLock' = OsNone
  BY DEF OsUnlock, osOthers
<1>4. PICK x \in OsStates : OsGo(g, x) /\ x.at \in {"lock", "idle"}
  <2>1. [at |-> "lock", attempt |-> me.attempt + 1] \in OsStates \/ me.attempt \notin {1, 2}
    BY DEF OsStates
  <2>2. OsIdle \in OsStates
    BY DEF OsIdle, OsStates
  <2> QED BY <2>1, <2>2 DEF OsUnlock, OsIdle
<1>5. OsGood(g, x)'
  BY <1>4 DEF OsGood, OsBusy
<1>6. osSeen' \in [puts : {osSeen.puts}, edited : {osSeen.edited}, cut : BOOLEAN, gone : BOOLEAN]
      /\ osCreate' \subseteq OsCalls /\ IsFiniteSet(osCreate')
      /\ \A c \in osCreate' : c.at = "done" => \E d \in osCreate : d.at = "done"
  BY <1>3 DEF OsInv, OsTyped
<1> QED BY <1>1, <1>2, <1>3, <1>4, <1>5, <1>6, OsQuietStep

\* A gateway dies: its lock is free, and its creations have no caller any more.
LEMMA OsCrashInv ==
    ASSUME OsInv, NEW g \in OsGateways, OsCrash(g)
    PROVE  OsInv'
<1>1. /\ UNCHANGED <<osSaga, osPartners, osOwner, osTerms, osSystemOwner, osSeen>>
      /\ osLock' = IF osLock = g THEN OsNone ELSE osLock
  BY DEF OsCrash
<1>2. PICK x \in OsStates : OsGo(g, x) /\ x.at = "scan"
  <2>1. [at |-> "scan"] \in OsStates
    BY DEF OsStates
  <2> QED BY <2>1 DEF OsCrash
<1>3. OsGood(g, x)' /\ x.at \in OsAttending
  BY <1>2 DEF OsGood, OsBusy, OsAttending
<1> DEFINE orphan(c) == IF c.for = g THEN [c EXCEPT !.for = OsNone] ELSE c
           f == [c \in osCreate |-> orphan(c)]
<1>4. osCreate' = {orphan(c) : c \in osCreate}
  BY DEF OsCrash
<1>5. \A c \in osCreate : orphan(c) \in OsCalls /\ orphan(c).at = c.at
  BY DEF OsInv, OsTyped, OsCalls
<1> HIDE DEF orphan
<1>6. f \in Surjection(osCreate, osCreate')
  BY <1>4 DEF Surjection
<1>7. IsFiniteSet(osCreate')
  BY <1>6, FS_Surjection DEF OsInv, OsTyped
<1>8. osCreate' \subseteq OsCalls
      /\ \A c \in osCreate' : c.at = "done" => \E d \in osCreate : d.at = "done"
  BY <1>4, <1>5
<1>9. osSeen' \in [puts : {osSeen.puts}, edited : {osSeen.edited}, cut : BOOLEAN, gone : BOOLEAN]
      /\ osLock' \in {OsNone} \cup OsGateways
  BY <1>1 DEF OsInv, OsTyped
<1> QED BY <1>1, <1>2, <1>3, <1>7, <1>8, <1>9, OsQuietStep

\* A gateway that has started takes the saga up, or its administrator is gone.
LEMMA OsScanInv ==
    ASSUME OsInv, NEW g \in OsGateways, OsScan(g)
    PROVE  OsInv'
<1>1. UNCHANGED <<osSaga, osLock, osCreate, osPartners, osOwner, osTerms, osSystemOwner>>
  BY DEF OsScan, osOthers
<1>2. PICK x \in OsStates :
         /\ OsGo(g, x) /\ x.at \in {"lock", "idle"}
         /\ x.at = "lock" \/ osSaga.status \notin {"PENDING", "RUNNING"} \/ ~osSystemOwner
  <2>1. [at |-> "lock", attempt |-> 1] \in OsStates /\ OsIdle \in OsStates
    BY DEF OsStates, OsIdle
  <2> QED BY <2>1 DEF OsScan, OsIdle
<1>3. OsGood(g, x)' /\ (x.at = "lock" => x.at \in OsAttending)
  BY <1>2 DEF OsGood, OsBusy, OsAttending
<1>4. /\ osSeen' \in [puts : {osSeen.puts}, edited : {osSeen.edited}, cut : BOOLEAN, gone : BOOLEAN]
      /\ osSeen'.cut = osSeen.cut /\ (osSeen.gone => osSeen'.gone)
      /\ ~osSystemOwner => osSeen'.gone
  <2>1. (osSeen.gone \/ ~osSystemOwner) \in BOOLEAN
    OBVIOUS
  <2> QED BY <2>1 DEF OsScan, OsInv, OsTyped
<1>5. osLock' \in {OsNone} \cup OsGateways /\ osCreate' \subseteq OsCalls /\ IsFiniteSet(osCreate')
      /\ \A c \in osCreate' : c.at = "done" => \E d \in osCreate : d.at = "done"
  BY <1>1 DEF OsInv, OsTyped
<1> QED BY <1>1, <1>2, <1>3, <1>4, <1>5, OsQuietStep

\* What administrators do beside the saga is remembered or does not matter to it.
LEMMA OsAdministratorsInv ==
    ASSUME OsInv, OsEditTerms \/ OsTakeEmail \/ OsLoseOwner
    PROVE  OsInv'
<1>1. UNCHANGED <<osSaga, osLock, osGateway, osCreate, osPartners>>
  BY DEF OsEditTerms, OsTakeEmail, OsLoseOwner
<1>2. CASE OsEditTerms
  <2>1. /\ osTerms' \in [version : Nat, content : {"default", "wanted", "edited"}]
        /\ osTerms'.content = "edited"
        /\ osSeen' \in [puts : Nat, edited : BOOLEAN, cut : BOOLEAN, gone : BOOLEAN]
        /\ osSeen'.edited /\ osSeen'.cut = osSeen.cut /\ osSeen'.gone = osSeen.gone
        /\ osOwner' = osOwner /\ osSystemOwner' = osSystemOwner
    <3>1. osTerms' = [version |-> osTerms.version + 1, content |-> "edited"] /\ osTerms.version \in Nat
      BY <1>2 DEF OsEditTerms, OsInv, OsTyped
    <3>2. /\ osSeen' = [osSeen EXCEPT !.edited = TRUE]
          /\ osSeen \in [puts : Nat, edited : BOOLEAN, cut : BOOLEAN, gone : BOOLEAN]
          /\ osOwner' = osOwner /\ osSystemOwner' = osSystemOwner
      BY <1>2 DEF OsEditTerms, OsInv, OsTyped
    <3>3. /\ osSeen' \in [puts : Nat, edited : BOOLEAN, cut : BOOLEAN, gone : BOOLEAN]
          /\ osSeen'.edited = TRUE /\ osSeen'.cut = osSeen.cut /\ osSeen'.gone = osSeen.gone
      BY <3>2
    <3> QED BY <3>1, <3>2, <3>3
  <2>2. OsTyped' /\ OsStored'
    BY <1>1, <2>1 DEF OsInv, OsTyped, OsStored
  <2>3. OsAllGood'
    BY <1>1, <2>1, OsAllGoodStays
  <2>4. OsNotedIsDone' /\ OsTermsAreOurs' /\ OsIsAttended'
    BY <1>1, <2>1 DEF OsInv, OsNotedIsDone, OsTermsAreOurs, OsIsAttended
  <2> QED BY <2>2, <2>3, <2>4 DEF OsInv
<1>3. CASE OsTakeEmail \/ OsLoseOwner
  <2>1. /\ UNCHANGED <<osTerms, osSeen>> /\ osSystemOwner' \in BOOLEAN
        /\ osOwner' \in {"nobody", "saga", "another"} /\ (osOwner' = osOwner \/ osOwner = "nobody")
    BY <1>3 DEF OsTakeEmail, OsLoseOwner, OsInv, OsTyped
  <2>2. OsTyped' /\ OsStored'
    BY <1>1, <2>1 DEF OsInv, OsTyped, OsStored
  <2>3. OsAllGood'
    BY <1>1, <2>1, OsAllGoodStays
  <2>4. OsNotedIsDone' /\ OsTermsAreOurs' /\ OsIsAttended'
    BY <1>1, <2>1 DEF OsInv, OsNotedIsDone, OsTermsAreOurs, OsIsAttended
  <2> QED BY <2>2, <2>3, <2>4 DEF OsInv
<1> QED BY <1>2, <1>3

\* Nothing is requested and nothing stored.
LEMMA OsInitInv == OsInit => OsInv
<1> SUFFICES ASSUME OsInit PROVE OsInv
  OBVIOUS
<1>1. OsIdle \in OsStates /\ OsIdle.at = "idle"
  BY DEF OsIdle, OsStates
<1>2. IsFiniteSet({})
  BY FS_EmptySet
<1>3. OsTyped
  BY <1>1, <1>2 DEF OsInit, OsTyped, OsCopies, OsNoSaga, OsNone, OsCalls
<1>4. OsStored /\ OsNotedIsDone /\ OsTermsAreOurs /\ OsIsAttended
  BY DEF OsInit, OsStored, OsNotedIsDone, OsTermsAreOurs, OsIsAttended, OsNoSaga
<1>5. OsAllGood
  BY <1>1 DEF OsInit, OsAllGood, OsGood, OsBusy
<1> QED BY <1>3, <1>4, <1>5 DEF OsInv

\* Every step of gateways, services and administrators keeps the invariant.
LEMMA OsStepInv == OsInv /\ [OsNext]_osVars => OsInv'
<1> SUFFICES ASSUME OsInv, [OsNext]_osVars PROVE OsInv'
  OBVIOUS
<1>1. ASSUME NEW g \in OsGateways,
             OsRequest(g) \/ OsLock(g) \/ OsAskPartner(g) \/ OsAnswer(g) \/ OsNotePartner(g)
      PROVE  OsInv'
  BY <1>1, OsRequestInv, OsLockInv, OsAskPartnerInv, OsAnswerInv, OsNotePartnerInv
<1>2. ASSUME NEW g \in OsGateways,
             OsEnsureOwner(g) \/ OsNoteOwner(g) \/ OsReadTerms(g) \/ OsPutTerms(g) \/ OsComplete(g)
      PROVE  OsInv'
  BY <1>2, OsEnsureOwnerInv, OsNoteOwnerInv, OsReadTermsInv, OsPutTermsInv, OsCompleteInv
<1>3. ASSUME NEW g \in OsGateways, OsFail(g) \/ OsUnlock(g) \/ OsCrash(g) \/ OsScan(g)
      PROVE  OsInv'
  BY <1>3, OsFailInv, OsUnlockInv, OsCrashInv, OsScanInv
<1>4. ASSUME NEW c \in osCreate, OsLookup(c) \/ OsInsert(c)
      PROVE  OsInv'
  BY <1>4, OsLookupInv, OsInsertInv
<1>5. CASE UNCHANGED osVars
  <2>1. OsTyped' /\ OsStored'
    BY <1>5 DEF osVars, OsInv, OsTyped, OsStored
  <2>2. OsAllGood'
    BY <1>5, OsAllGoodStays DEF osVars
  <2>3. OsNotedIsDone' /\ OsTermsAreOurs' /\ OsIsAttended'
    BY <1>5 DEF osVars, OsInv, OsNotedIsDone, OsTermsAreOurs, OsIsAttended
  <2> QED BY <2>1, <2>2, <2>3 DEF OsInv
<1> QED BY <1>1, <1>2, <1>3, <1>4, <1>5, OsAdministratorsInv DEF OsNext

\* The invariant is what is promised of the onboarding.
LEMMA OsInvIsSafe == OsInv => OnboardingSafe
<1> SUFFICES ASSUME OsInv PROVE OnboardingSafe
  OBVIOUS
<1>1. OsTypeOK
  BY DEF OsInv, OsTyped, OsStored, OsCopies, OsTypeOK
<1>2. OsOnePartner
  <2>1. CASE osPartners = {}
    BY <2>1, FS_EmptySet DEF OsOnePartner
  <2>2. ASSUME NEW id, osPartners = {id} PROVE OsOnePartner
    <3>1. Cardinality({id}) = 1
      BY FS_Singleton
    <3> QED BY <2>2, <3>1 DEF OsOnePartner
  <2> QED BY <2>1, <2>2 DEF OsInv, OsStored
<1>3. OsOneTermsVersion /\ OsCompleteIsAll
  BY DEF OsInv, OsTermsAreOurs, OsNotedIsDone, OsOneTermsVersion, OsCompleteIsAll
<1>4. OsOrphanIsExplained
  BY DEF OsInv, OsIsAttended, OsAttending, OsBusy, OsOrphanIsExplained, OsAt
<1> QED BY <1>1, <1>2, <1>3, <1>4 DEF OnboardingSafe

\* An onboarding makes one partner and one version of its terms, is COMPLETE only with all of
\* its parts, and is abandoned only for a reason (phase2_durability.go:262, :314): for any
\* number of gateways that are cut off, die and recover at any statement.
THEOREM OnboardingMakesOnePartner == OsSpec => []OnboardingSafe
<1>1. OsSpec => []OsInv
  BY OsInitInv, OsStepInv, PTL DEF OsSpec
<1> QED BY <1>1, OsInvIsSafe, PTL
-----------------------------------------------------------------------------
(***************************************************************************)
(* The portal.                                                             *)
(***************************************************************************)

\* The runtime requests in progress, and what else a worker may be doing.
PaRequests ==
    [at : {"lifecycle", "gate", "policy"}, key : PaModules,
     open : BOOLEAN, paid : BOOLEAN, owned : BOOLEAN, given : BOOLEAN,
     mode : {"", "ALL_OWNED", "SELECTED"}, has : BOOLEAN, asked : SUBSET {"policy", "keys", "owned"}]
PaOthers ==
    [at : {"idle"}] \cup [at : {"usage"}, used : PaModules]
    \cup [at : {"assign"}, mode : {"ALL_OWNED", "SELECTED"}, keys : SUBSET PaModules]

PaTyped ==
    /\ paOpen \in BOOLEAN /\ paPaid \in BOOLEAN /\ paOwned \subseteq PaModules
    /\ paWork \in [PaWorkers -> PaRequests \cup PaOthers]

\* The two tables of the assignment agree: keys are stored only beside the mode
\* that asks for them.
PaTablesAgree ==
    /\ paMode \in {"ALL_OWNED", "SELECTED"} /\ paSelected \subseteq PaModules
    /\ paMode = "ALL_OWNED" => paSelected = {} /\ paGiven = PaModules
    /\ paMode = "SELECTED" => paGiven = paSelected

\* A request has seen what the stages behind it have asked: the lifecycle at the
\* gate, the debt at the policy, the module once the catalog has answered, and its
\* assignment once the mode, or the keys, let it in.
PaEarned(r) ==
    /\ r.at \in {"gate", "policy"} => r.open = TRUE
    /\ r.at = "policy" => r.paid = TRUE
    /\ "owned" \notin r.asked => r.owned = TRUE
    /\ r.mode = "ALL_OWNED" => r.given = TRUE
    /\ r.has = TRUE => r.given = TRUE
PaStagesAreEarned == \A w \in PaWorkers : paWork[w] \in PaRequests => PaEarned(paWork[w])

\* What was run had earned all of it.
PaRan == [run : {TRUE}, key : PaModules, open : {TRUE}, paid : {TRUE}, owned : {TRUE}, given : {TRUE}]
PaCounted == [run : {FALSE}, key : PaModules]
PaUsageIsEarned == paUsage \subseteq PaRan \cup PaCounted

PaInv == PaTyped /\ PaTablesAgree /\ PaStagesAreEarned /\ PaUsageIsEarned

\* A request that looks around keeps its place and forgets nothing it has seen.
LEMMA PaSeeing ==
    ASSUME PaTyped, NEW r \in PaRequests
    PROVE  /\ PaSeenNow(r) \in PaRequests
           /\ PaSeenNow(r).at = r.at /\ PaSeenNow(r).key = r.key /\ PaSeenNow(r).mode = r.mode
           /\ PaSeenNow(r).has = r.has /\ PaSeenNow(r).asked = r.asked
           /\ PaSeenNow(r).open = TRUE <=> r.open = TRUE \/ paOpen = TRUE
           /\ PaSeenNow(r).paid = TRUE <=> r.paid = TRUE \/ paPaid = TRUE
           /\ PaSeenNow(r).owned = TRUE <=> r.owned = TRUE \/ r.key \in paOwned
           /\ PaSeenNow(r).given = TRUE <=> r.given = TRUE \/ r.key \in paGiven
<1>1. PaSeenNow(r) = [r EXCEPT !.open = r.open \/ paOpen, !.paid = r.paid \/ paPaid,
                               !.owned = r.owned \/ r.key \in paOwned,
                               !.given = r.given \/ r.key \in paGiven]
  BY DEF PaSeenNow, PaRequests
<1>2. /\ r.open \in BOOLEAN /\ r.paid \in BOOLEAN /\ r.owned \in BOOLEAN /\ r.given \in BOOLEAN
      /\ paOpen \in BOOLEAN /\ paPaid \in BOOLEAN
  BY DEF PaTyped, PaRequests
<1> DEFINE open == r.open \/ paOpen
           paid == r.paid \/ paPaid
           owned == r.owned \/ r.key \in paOwned
           given == r.given \/ r.key \in paGiven
<1>3. /\ open \in BOOLEAN /\ (open = TRUE <=> r.open = TRUE \/ paOpen = TRUE)
      /\ paid \in BOOLEAN /\ (paid = TRUE <=> r.paid = TRUE \/ paPaid = TRUE)
      /\ owned \in BOOLEAN /\ (owned = TRUE <=> r.owned = TRUE \/ r.key \in paOwned)
      /\ given \in BOOLEAN /\ (given = TRUE <=> r.given = TRUE \/ r.key \in paGiven)
  BY <1>2
<1>4. PaSeenNow(r) = [r EXCEPT !.open = open, !.paid = paid, !.owned = owned, !.given = given]
  BY <1>1
<1> HIDE DEF open, paid, owned, given
<1> QED BY <1>3, <1>4 DEF PaRequests

\* Whoever is not serving a request has nothing to remember.
LEMMA PaUnseeing ==
    ASSUME NEW r \in PaOthers
    PROVE  PaSeenNow(r) = r /\ r \notin PaRequests
BY DEF PaSeenNow, PaOthers, PaRequests

\* What a request has earned it keeps when it looks around.
LEMMA PaEarnedStays ==
    ASSUME PaTyped, NEW r \in PaRequests, PaEarned(r) PROVE PaEarned(PaSeenNow(r))
BY PaSeeing DEF PaEarned

\* A worker that does nothing is not serving a request.
LEMMA PaIdling == PaIdle \in PaOthers /\ PaIdle \notin PaRequests
BY DEF PaIdle, PaOthers, PaRequests

\* The workers may go on as "next" says if each one that still serves a request has
\* earned its place once it has looked around.
LEMMA PaWatching ==
    ASSUME PaTyped, NEW next \in [PaWorkers -> PaRequests \cup PaOthers], PaWatched(next),
           \A v \in PaWorkers : next[v] \in PaRequests => PaEarned(PaSeenNow(next[v]))
    PROVE  paWork' \in [PaWorkers -> PaRequests \cup PaOthers] /\ PaStagesAreEarned'
<1>1. paWork' = [v \in PaWorkers |-> PaSeenNow(next[v])]
  BY DEF PaWatched
<1>2. \A v \in PaWorkers : /\ PaSeenNow(next[v]) \in PaRequests \cup PaOthers
                           /\ PaSeenNow(next[v]) \in PaRequests => PaEarned(PaSeenNow(next[v]))
  <2> SUFFICES ASSUME NEW v \in PaWorkers
               PROVE  /\ PaSeenNow(next[v]) \in PaRequests \cup PaOthers
                      /\ PaSeenNow(next[v]) \in PaRequests => PaEarned(PaSeenNow(next[v]))
    OBVIOUS
  <2>1. CASE next[v] \in PaRequests
    BY <2>1, PaSeeing
  <2>2. CASE next[v] \in PaOthers
    BY <2>2, PaUnseeing
  <2> QED BY <2>1, <2>2
<1> QED BY <1>1, <1>2 DEF PaStagesAreEarned

\* One worker goes on as r, the others as they are.
LEMMA PaGoing ==
    ASSUME PaInv, NEW w \in PaWorkers, NEW r \in PaRequests \cup PaOthers, PaGo(w, r),
           r \in PaRequests => PaEarned(PaSeenNow(r))
    PROVE  paWork' \in [PaWorkers -> PaRequests \cup PaOthers] /\ PaStagesAreEarned'
<1> DEFINE next == [paWork EXCEPT ![w] = r]
<1>1. PaTyped /\ next \in [PaWorkers -> PaRequests \cup PaOthers] /\ PaWatched(next)
  BY DEF PaInv, PaTyped, PaGo
<1>2. \A v \in PaWorkers : next[v] \in PaRequests => PaEarned(PaSeenNow(next[v]))
  <2>1. \A v \in PaWorkers : next[v] = IF v = w THEN r ELSE paWork[v]
    BY DEF PaInv, PaTyped
  <2>2. \A v \in PaWorkers : paWork[v] \in PaRequests => PaEarned(PaSeenNow(paWork[v]))
    BY <1>1, PaEarnedStays DEF PaInv, PaStagesAreEarned
  <2> QED BY <2>1, <2>2
<1> HIDE DEF next
<1> QED BY <1>1, <1>2, PaWatching

\* What the invariant says of a worker in each of its places.
LEMMA PaPlaces ==
    ASSUME PaInv, NEW w \in PaWorkers
    PROVE  /\ paWork[w] \in PaRequests \cup PaOthers
           /\ PaAt(w, "lifecycle") \/ PaAt(w, "gate") \/ PaAt(w, "policy") =>
                 paWork[w] \in PaRequests /\ PaEarned(paWork[w])
           /\ PaAt(w, "usage") => paWork[w].used \in PaModules
           /\ PaAt(w, "assign") => /\ paWork[w].mode \in {"ALL_OWNED", "SELECTED"}
                                   /\ paWork[w].keys \subseteq PaModules
<1>1. /\ paWork[w] \in PaRequests \cup PaOthers
      /\ paWork[w] \in PaRequests => PaEarned(paWork[w])
  BY DEF PaInv, PaTyped, PaStagesAreEarned
<1> HIDE DEF PaInv
<1> QED BY <1>1 DEF PaAt, PaOthers, PaRequests

\* The partner's side changes; the requests only look around.
LEMMA PaChangeInv == ASSUME PaInv, PaChange PROVE PaInv'
<1>1. \A v \in PaWorkers : paWork[v] \in PaRequests => PaEarned(PaSeenNow(paWork[v]))
  BY PaEarnedStays DEF PaInv, PaStagesAreEarned
<1>2. paWork' \in [PaWorkers -> PaRequests \cup PaOthers] /\ PaStagesAreEarned'
  BY <1>1, PaWatching DEF PaInv, PaTyped, PaChange
<1>3. paOpen' \in BOOLEAN /\ paPaid' \in BOOLEAN /\ paOwned' \subseteq PaModules
  BY DEF PaInv, PaTyped, PaChange
<1> QED BY <1>2, <1>3 DEF PaInv, PaTyped, PaTablesAgree, PaUsageIsEarned, PaChange, paPolicy

\* A stage of the runtime request lets it on to the next one, or refuses it.
LEMMA PaStageInv ==
    ASSUME PaInv, NEW w \in PaWorkers, NEW ok \in BOOLEAN, PaLifecycle(w, ok) \/ PaGate(w, ok)
    PROVE  PaInv'
<1> DEFINE r == paWork[w]
<1>1. PaTyped /\ r \in PaRequests /\ PaEarned(r)
  BY PaPlaces DEF PaInv, PaLifecycle, PaGate, PaStep
<1>2. PICK s \in PaRequests \cup PaOthers :
         PaGo(w, s) /\ (s \in PaRequests => PaEarned(PaSeenNow(s)))
  <2>1. CASE PaGo(w, PaIdle)
    BY <2>1, PaIdling
  <2>2. CASE /\ PaLifecycle(w, ok) /\ paOpen = TRUE
             /\ PaGo(w, [r EXCEPT !.at = "gate"])
    <3> DEFINE s == [r EXCEPT !.at = "gate"]
    <3>1. /\ s \in PaRequests /\ s.at = "gate" /\ s.asked = r.asked /\ s.owned = r.owned
          /\ s.given = r.given /\ s.mode = r.mode /\ s.has = r.has
      BY <1>1 DEF PaRequests
    <3> HIDE DEF s
    <3>2. PaEarned(PaSeenNow(s))
      BY <1>1, <2>2, <3>1, PaSeeing DEF PaEarned
    <3> QED BY <2>2, <3>1, <3>2 DEF s
  <2>3. CASE /\ PaGate(w, ok) /\ paPaid = TRUE
             /\ PaGo(w, [r EXCEPT !.at = "policy"])
    <3> DEFINE s == [r EXCEPT !.at = "policy"]
    <3>1. /\ s \in PaRequests /\ s.at = "policy" /\ s.asked = r.asked /\ s.owned = r.owned
          /\ s.given = r.given /\ s.mode = r.mode /\ s.has = r.has /\ s.open = r.open
      BY <1>1 DEF PaRequests
    <3>2. r.at = "gate"
      BY <2>3 DEF PaGate, PaStep, PaAt
    <3> HIDE DEF s
    <3>3. PaEarned(PaSeenNow(s))
      BY <1>1, <2>3, <3>1, <3>2, PaSeeing DEF PaEarned
    <3> QED BY <2>3, <3>1, <3>3 DEF s
  <2> QED BY <2>1, <2>2, <2>3 DEF PaLifecycle, PaGate, PaStep
<1>3. paWork' \in [PaWorkers -> PaRequests \cup PaOthers] /\ PaStagesAreEarned'
  BY <1>2, PaGoing
<1> QED BY <1>3 DEF PaInv, PaTyped, PaTablesAgree, PaUsageIsEarned, PaLifecycle, PaGate, PaStep,
                    paOutside, paPolicy

\* A read of the policy notes what was there, which the request sees at that moment.
LEMMA PaReadInv ==
    ASSUME PaInv, NEW w \in PaWorkers, PaMode(w) \/ PaKeys(w) \/ PaOwned(w)
    PROVE  PaInv'
<1> DEFINE r == paWork[w]
<1>1. PaTyped /\ r \in PaRequests /\ PaEarned(r) /\ r.at = "policy" /\ PaTablesAgree
  BY PaPlaces DEF PaInv, PaMode, PaKeys, PaOwned, PaRead, PaAt
<1>2. PICK s \in PaRequests \cup PaOthers :
         PaGo(w, s) /\ (s \in PaRequests => PaEarned(PaSeenNow(s)))
  <2>1. CASE PaGo(w, PaIdle)
    BY <2>1, PaIdling
  <2>2. CASE PaMode(w)
    <3> DEFINE s == [r EXCEPT !.mode = paMode, !.asked = (r.asked \ {"policy"}) \cup {"keys"}]
    <3>1. PaGo(w, s)
      BY <1>1, <2>2 DEF PaMode, PaRead, PaRequests
    <3>2. /\ s \in PaRequests /\ s.at = "policy" /\ s.key = r.key /\ s.open = r.open /\ s.paid = r.paid
          /\ s.owned = r.owned /\ s.given = r.given /\ s.mode = paMode /\ s.has = r.has
          /\ s.asked = (r.asked \ {"policy"}) \cup {"keys"}
      BY <1>1 DEF PaRequests, PaTablesAgree
    <3> HIDE DEF s
    <3>3. s.mode = "ALL_OWNED" => s.key \in paGiven
      BY <1>1, <3>2 DEF PaTablesAgree, PaRequests
    <3>4. PaEarned(PaSeenNow(s))
      BY <1>1, <3>2, <3>3, PaSeeing DEF PaEarned
    <3> QED BY <3>1, <3>2, <3>4
  <2>3. CASE PaKeys(w)
    <3> DEFINE has == r.mode = "ALL_OWNED" \/ r.key \in paSelected
               s == [r EXCEPT !.asked = r.asked \ {"keys"}, !.has = has]
    <3>1. PaGo(w, s)
      BY <1>1, <2>3 DEF PaKeys, PaRead, PaRequests
    <3>2. has \in BOOLEAN /\ (has = TRUE => r.given = TRUE \/ r.key \in paGiven)
      BY <1>1 DEF PaTablesAgree, PaEarned
    <3> HIDE DEF has
    <3>3. /\ s \in PaRequests /\ s.at = "policy" /\ s.key = r.key /\ s.open = r.open /\ s.paid = r.paid
          /\ s.owned = r.owned /\ s.given = r.given /\ s.mode = r.mode /\ s.has = has
          /\ s.asked = r.asked \ {"keys"}
      BY <1>1, <3>2 DEF PaRequests
    <3> HIDE DEF s
    <3>4. PaEarned(PaSeenNow(s))
      BY <1>1, <3>2, <3>3, PaSeeing DEF PaEarned
    <3> QED BY <3>1, <3>3, <3>4
  <2>4. CASE PaGo(w, [r EXCEPT !.asked = r.asked \ {"owned"}]) /\ r.key \in paOwned
    <3> DEFINE s == [r EXCEPT !.asked = r.asked \ {"owned"}]
    <3>1. /\ s \in PaRequests /\ s.at = "policy" /\ s.key = r.key /\ s.open = r.open /\ s.paid = r.paid
          /\ s.owned = r.owned /\ s.given = r.given /\ s.mode = r.mode /\ s.has = r.has
      BY <1>1 DEF PaRequests
    <3>2. PaGo(w, s) /\ s.key \in paOwned
      BY <2>4, <3>1
    <3> HIDE DEF s
    <3>3. /\ PaSeenNow(s).mode = r.mode /\ PaSeenNow(s).has = r.has
          /\ PaSeenNow(s).open = TRUE /\ PaSeenNow(s).paid = TRUE /\ PaSeenNow(s).owned = TRUE
          /\ r.given = TRUE => PaSeenNow(s).given = TRUE
      BY <1>1, <3>1, <3>2, PaSeeing DEF PaEarned
    <3>4. PaEarned(PaSeenNow(s))
      BY <1>1, <3>3 DEF PaEarned
    <3> QED BY <3>1, <3>2, <3>4
  <2>5. PaOwned(w) => \/ PaGo(w, PaIdle)
                      \/ PaGo(w, [r EXCEPT !.asked = r.asked \ {"owned"}]) /\ r.key \in paOwned
    BY <1>1 DEF PaOwned, PaRead, PaRequests
  <2> HIDE DEF r
  <2> QED BY <2>1, <2>2, <2>3, <2>4, <2>5
<1>3. paWork' \in [PaWorkers -> PaRequests \cup PaOthers] /\ PaStagesAreEarned'
  BY <1>2, PaGoing
<1> QED BY <1>3 DEF PaInv, PaTyped, PaTablesAgree, PaUsageIsEarned, PaMode, PaKeys, PaOwned, PaRead,
                    paOutside, paPolicy

\* The module runs for a request that has earned everything, or the request is refused.
LEMMA PaExecuteInv == ASSUME PaInv, NEW w \in PaWorkers, PaExecute(w) PROVE PaInv'
<1> DEFINE r == paWork[w]
           s == PaSeenNow(r)
           used == [at |-> "usage", used |-> r.key]
<1>1. PaTyped /\ r \in PaRequests /\ PaEarned(r) /\ r.at = "policy" /\ r.asked = {} /\ r.key \in PaModules
  BY PaPlaces DEF PaInv, PaExecute, PaAt, PaRequests
<1>2. /\ s.key = r.key /\ s.open = TRUE /\ s.paid = TRUE /\ s.owned = TRUE
      /\ r.has = TRUE => s.given = TRUE
  BY <1>1, PaSeeing DEF PaEarned
<1>3. PaGo(w, used) \/ PaGo(w, PaIdle)
  BY DEF PaExecute
<1>4. used \in PaOthers /\ used \notin PaRequests
  BY <1>1 DEF PaOthers, PaRequests
<1>5. paWork' \in [PaWorkers -> PaRequests \cup PaOthers] /\ PaStagesAreEarned'
  <2> HIDE DEF used
  <2> QED BY <1>3, <1>4, PaIdling, PaGoing
<1>6. PaUsageIsEarned'
  <2>1. CASE r.has = TRUE
    <3> DEFINE u == [run |-> TRUE, key |-> s.key, open |-> s.open, paid |-> s.paid,
                     owned |-> s.owned, given |-> s.given]
    <3>1. paUsage' = paUsage \cup {u}
      BY <2>1 DEF PaExecute, PaAssigned
    <3> HIDE DEF s
    <3>2. u \in PaRan
      BY <1>1, <1>2, <2>1 DEF PaRan
    <3> HIDE DEF u
    <3> QED BY <3>1, <3>2 DEF PaInv, PaUsageIsEarned
  <2>2. CASE r.has = FALSE
    BY <2>2 DEF PaExecute, PaAssigned, PaInv, PaUsageIsEarned
  <2> QED BY <1>1, <2>1, <2>2 DEF PaRequests
<1> QED BY <1>5, <1>6 DEF PaInv, PaTyped, PaTablesAgree, PaExecute, paOutside, paPolicy

\* What the other steps do: a request begins, is counted, or an assignment is made.
LEMMA PaOtherInv ==
    ASSUME PaInv, NEW w \in PaWorkers,
           \/ \E k \in PaModules : PaRun(w, k)
           \/ \E ok \in BOOLEAN : PaRecord(w, ok)
           \/ PaCommit(w)
           \/ \E mode \in {"ALL_OWNED", "SELECTED"}, keys \in SUBSET PaModules : PaAssign(w, mode, keys)
    PROVE  PaInv'
<1>1. ASSUME NEW k \in PaModules, PaRun(w, k) PROVE PaInv'
  <2> DEFINE r == [at |-> "lifecycle", key |-> k, open |-> FALSE, paid |-> FALSE, owned |-> FALSE,
                   given |-> FALSE, mode |-> "", has |-> FALSE, asked |-> {"policy", "owned"}]
  <2>1. r \in PaRequests /\ PaEarned(r) /\ PaGo(w, r)
    BY <1>1 DEF PaRequests, PaEarned, PaRun
  <2> HIDE DEF r
  <2>2. paWork' \in [PaWorkers -> PaRequests \cup PaOthers] /\ PaStagesAreEarned'
    BY <2>1, PaEarnedStays, PaGoing DEF PaInv
  <2> QED BY <1>1, <2>2 DEF PaInv, PaTyped, PaTablesAgree, PaUsageIsEarned, PaRun, paOutside, paPolicy
<1>3. ASSUME NEW ok \in BOOLEAN, PaRecord(w, ok) PROVE PaInv'
  <2>1. paWork' \in [PaWorkers -> PaRequests \cup PaOthers] /\ PaStagesAreEarned'
    BY PaIdling, <1>3, PaGoing DEF PaRecord
  <2>2. paWork[w].used \in PaModules
    BY <1>3, PaPlaces DEF PaRecord
  <2> DEFINE u == [run |-> FALSE, key |-> paWork[w].used]
  <2>3. u \in PaCounted
    BY <2>2 DEF PaCounted
  <2>4. paUsage' = paUsage \/ paUsage' = paUsage \cup {u}
    BY <1>3 DEF PaRecord
  <2> HIDE DEF u
  <2>5. PaUsageIsEarned'
    BY <2>3, <2>4 DEF PaInv, PaUsageIsEarned
  <2> QED BY <1>3, <2>1, <2>5 DEF PaInv, PaTyped, PaTablesAgree, PaRecord, paOutside, paPolicy
<1>4. CASE PaCommit(w)
  <2>1. paWork' \in [PaWorkers -> PaRequests \cup PaOthers] /\ PaStagesAreEarned'
    BY PaIdling, <1>4, PaGoing DEF PaCommit
  <2>2. paWork[w].mode \in {"ALL_OWNED", "SELECTED"} /\ paWork[w].keys \subseteq PaModules
    BY <1>4, PaPlaces DEF PaCommit
  <2>3. PaTablesAgree'
    BY <1>4, <2>2 DEF PaTablesAgree, PaCommit, PaReplaced
  <2> QED BY <1>4, <2>1, <2>3 DEF PaInv, PaTyped, PaUsageIsEarned, PaCommit, paOutside
<1>5. ASSUME NEW mode \in {"ALL_OWNED", "SELECTED"}, NEW keys \in SUBSET PaModules, PaAssign(w, mode, keys)
      PROVE  PaInv'
  <2> DEFINE r == [at |-> "assign", mode |-> mode, keys |-> keys]
  <2>1. r \in PaOthers /\ r \notin PaRequests /\ PaGo(w, r)
    BY <1>5 DEF PaOthers, PaRequests, PaAssign
  <2> HIDE DEF r
  <2>2. paWork' \in [PaWorkers -> PaRequests \cup PaOthers] /\ PaStagesAreEarned'
    BY <2>1, PaGoing
  <2> QED BY <1>5, <2>2 DEF PaInv, PaTyped, PaTablesAgree, PaUsageIsEarned, PaAssign, paOutside, paPolicy
<1> QED BY <1>1, <1>3, <1>4, <1>5

\* Every step keeps the invariant of the portal.
LEMMA PaStepInv == PaInv /\ [PaNext]_paVars => PaInv'
<1> SUFFICES ASSUME PaInv, [PaNext]_paVars PROVE PaInv'
  OBVIOUS
<1>1. CASE UNCHANGED paVars
  BY <1>1 DEF PaInv, PaTyped, PaTablesAgree, PaStagesAreEarned, PaUsageIsEarned, paVars
<1>2. CASE PaChange
  BY <1>2, PaChangeInv
<1>3. ASSUME NEW w \in PaWorkers,
             \/ \E ok \in BOOLEAN : PaLifecycle(w, ok) \/ PaGate(w, ok)
             \/ PaMode(w) \/ PaKeys(w) \/ PaOwned(w) \/ PaExecute(w)
      PROVE  PaInv'
  BY <1>3, PaStageInv, PaReadInv, PaExecuteInv
<1> QED BY <1>1, <1>2, <1>3, PaOtherInv DEF PaNext

\* A partner's module runs for a user only if, each at a moment of that request, the
\* user was assigned it, the partner owned it, was not suspended and was not barred by
\* billing (partnerModuleRuntime), whatever changes between its five reads.
THEOREM RunsAreEarned == PaSpec => []PortalSafe
<1>1. PaInit => PaInv
  BY PaIdling DEF PaInit, PaInv, PaTyped, PaTablesAgree, PaStagesAreEarned, PaUsageIsEarned
<1>2. PaInv => PortalSafe
  BY DEF PaInv, PaUsageIsEarned, PaRan, PaCounted, PortalSafe, PaRanWasGiven, PaRanWasAllowed, PaRuns
<1> QED BY <1>1, <1>2, PaStepInv, PTL DEF PaSpec
-----------------------------------------------------------------------------
(* Identities.                                                              *)

\* The rows of the two tables, the tokens and the cookies, and what a request is.
IdRowSet ==
    [exists : {TRUE}, email : IdEmails, role : {"platform_admin", "ops", "custom", "owner", "viewer"},
     active : BOOLEAN, version : Nat, era : Nat, pw : Nat]
IdTokenSet == [id : IdStaff, open : BOOLEAN, used : BOOLEAN, after : Nat]
IdCookies == [id : IdAccounts, version : Nat, era : Nat]
IdCreates ==
    [at : {"create"}, id : IdAccounts, email : IdEmails, role : {"ops", "custom", "owner", "viewer"}, stale : BOOLEAN]
IdPatchSet == [at : {"patch"}, id : IdAccounts, next : IdRowSet, stale : BOOLEAN]
IdProfiles == [at : {"profile"}, id : IdStaff, email : IdEmails, stale : BOOLEAN]
IdSwitches == [at : {"role"}, active : BOOLEAN, stale : BOOLEAN]
IdPasswords == [at : {"password", "issue"}, id : IdStaff, stale : BOOLEAN]
IdResetSet == [at : {"reset"}, id : IdStaff, spends : SUBSET Nat, stale : BOOLEAN]
IdStates == {IdIdle} \cup IdCreates \cup IdPatchSet \cup IdProfiles \cup IdSwitches \cup IdPasswords \cup IdResetSet

IdTyped ==
    /\ idUsers \in [IdAccounts -> IdRowSet \cup {IdNobody}]
    /\ idRoleActive \in BOOLEAN /\ idOverlapped \in BOOLEAN
    /\ idSessions \subseteq IdCookies
    /\ Cardinality(DOMAIN idTokens) \in Nat /\ DOMAIN idTokens = 1..Cardinality(DOMAIN idTokens)
    /\ idTokens \in [DOMAIN idTokens -> IdTokenSet]
    /\ idWork \in [IdWorkers -> IdStates]

\* What may be said of the rows while no change was written over one it had not seen.
IdRowsAgree ==
    /\ \A s \in idSessions : /\ s.version <= idUsers[s.id].version
                             /\ s.version = idUsers[s.id].version => s.era = idUsers[s.id].era
    /\ \A a, b \in IdUserIds : idUsers[a].email = idUsers[b].email => a = b
    /\ \E a \in IdUserIds \cap IdPortal : IdOwns(idUsers[a])
    /\ idRoleActive = FALSE => ~IdRoleHeld

\* What a request that nobody has overtaken may still rely on.
IdRelies(w) ==
    LET r == idWork[w] IN
    /\ r.at = "create" => ~IdTaken(r.email, r.id) /\ IdRoleKnown(r.role)
    /\ r.at = "patch" => LET base == idUsers[r.id] IN
          /\ IdAllowed(r.id, base, r.next)
          /\ base.version <= r.next.version /\ (base.version = r.next.version => base.era = r.next.era)
    /\ r.at = "profile" => (r.email # idUsers[r.id].email => ~IdTaken(r.email, r.id))
    /\ r.at = "role" => (IdRoleHeld => r.active = TRUE)

\* What every request knows: whose row it is, and that the owner of the system stays.
IdKnows(w) ==
    LET r == idWork[w] IN
    /\ r.at = "create" => r.id \notin IdUserIds
    /\ r.at \in {"patch", "profile", "password", "issue", "reset"} => r.id \in IdUserIds
    /\ r.at = "patch" /\ r.id = IdRoot => r.next.active = TRUE /\ r.next.role = "platform_admin"
    /\ r.at # "idle" /\ r.stale = FALSE => IdRelies(w)

IdTables ==
    /\ IdRoot \in IdUserIds /\ idUsers[IdRoot].active = TRUE /\ idUsers[IdRoot].role = "platform_admin"
    /\ \A s \in idSessions : s.id \in IdUserIds
    /\ \A t \in DOMAIN idTokens : idTokens[t].id \in IdUserIds
    /\ IdResetOnce
    /\ idOverlapped = FALSE => IdRowsAgree
IdRequests ==
    /\ \A v, w \in IdWorkers : IdAt(v, "create") /\ IdAt(w, "create") /\ idWork[v].id = idWork[w].id => v = w
    /\ \A w \in IdWorkers : IdKnows(w)
IdInv == IdTyped /\ IdTables /\ IdRequests

\* A row that exists is a row.
LEMMA IdRowOf ==
    ASSUME IdTyped, NEW a \in IdUserIds
    PROVE  a \in IdAccounts /\ idUsers[a] \in IdRowSet
BY DEF IdTyped, IdUserIds, IdNobody

\* A row that is written exists, and leaves the others.
LEMMA IdWriteRow ==
    ASSUME IdTyped, NEW a \in IdAccounts, NEW x \in IdRowSet, idUsers' = [idUsers EXCEPT ![a] = x]
    PROVE  /\ idUsers' \in [IdAccounts -> IdRowSet \cup {IdNobody}]
           /\ IdUserIds' = IdUserIds \cup {a} /\ idUsers'[a] = x
           /\ \A b \in IdAccounts \ {a} : idUsers'[b] = idUsers[b]
<1>1. x.exists = TRUE
  BY DEF IdRowSet
<1> QED BY <1>1 DEF IdTyped, IdUserIds

\* What a request is, from where it stands.
LEMMA IdStateOf ==
    ASSUME IdTyped, NEW w \in IdWorkers
    PROVE  LET r == idWork[w] IN
           /\ r \in IdStates
           /\ r.at = "create" => r \in IdCreates
           /\ r.at = "patch" => r \in IdPatchSet
           /\ r.at = "profile" => r \in IdProfiles
           /\ r.at = "role" => r \in IdSwitches
           /\ r.at \in {"password", "issue"} => r \in IdPasswords
           /\ r.at = "reset" => r \in IdResetSet
<1> DEFINE r == idWork[w]
<1>1. r \in IdStates
  BY DEF IdTyped
<1>2. /\ r \in {IdIdle} => r.at = "idle"
      /\ r \in IdCreates => r.at = "create"
      /\ r \in IdPatchSet => r.at = "patch"
      /\ r \in IdProfiles => r.at = "profile"
      /\ r \in IdSwitches => r.at = "role"
      /\ r \in IdPasswords => r.at \in {"password", "issue"}
      /\ r \in IdResetSet => r.at = "reset"
  BY DEF IdIdle, IdCreates, IdPatchSet, IdProfiles, IdSwitches, IdPasswords, IdResetSet
<1> HIDE DEF r
<1> QED BY <1>1, <1>2 DEF IdStates, r

\* A request that is overtaken is what it was, but for that.
LEMMA IdStaled ==
    ASSUME IdTyped, NEW v \in IdWorkers, ~IdAt(v, "idle"), idWork'[v] = [idWork[v] EXCEPT !.stale = TRUE]
    PROVE  LET r == idWork[v] IN
           /\ idWork'[v] \in IdStates /\ idWork'[v].at = r.at /\ idWork'[v].stale = TRUE
           /\ r.at \in {"create", "patch", "profile", "password", "issue", "reset"} => idWork'[v].id = r.id
           /\ r.at = "patch" => idWork'[v].next = r.next
<1> DEFINE r == idWork[v]
<1> DEFINE x == [r EXCEPT !.stale = TRUE]
<1>1. r \in IdStates /\ r.at # "idle"
  BY DEF IdTyped, IdAt
<1>2. CASE r \in IdCreates
  <2>1. x \in IdCreates /\ x.at = r.at /\ x.stale = TRUE /\ x.id = r.id /\ r.at = "create"
    BY <1>2 DEF IdCreates
  <2> QED BY <2>1 DEF IdStates
<1>3. CASE r \in IdPatchSet
  <2>1. x \in IdPatchSet /\ x.at = r.at /\ x.stale = TRUE /\ x.id = r.id /\ x.next = r.next
    BY <1>3 DEF IdPatchSet
  <2> QED BY <2>1 DEF IdStates
<1>4. CASE r \in IdProfiles
  <2>1. x \in IdProfiles /\ x.at = r.at /\ x.stale = TRUE /\ x.id = r.id /\ r.at = "profile"
    BY <1>4 DEF IdProfiles
  <2> QED BY <2>1 DEF IdStates
<1>5. CASE r \in IdSwitches
  <2>1. x \in IdSwitches /\ x.at = r.at /\ x.stale = TRUE /\ r.at = "role"
    BY <1>5 DEF IdSwitches
  <2> QED BY <2>1 DEF IdStates
<1>6. CASE r \in IdPasswords
  <2>1. x \in IdPasswords /\ x.at = r.at /\ x.stale = TRUE /\ x.id = r.id /\ r.at # "patch"
    BY <1>6 DEF IdPasswords
  <2> QED BY <2>1 DEF IdStates
<1>7. CASE r \in IdResetSet
  <2>1. x \in IdResetSet /\ x.at = r.at /\ x.stale = TRUE /\ x.id = r.id /\ r.at = "reset"
    BY <1>7 DEF IdResetSet
  <2> QED BY <2>1 DEF IdStates
<1>8. CASE r = IdIdle
  BY <1>1, <1>8 DEF IdIdle
<1> QED BY <1>1, <1>2, <1>3, <1>4, <1>5, <1>6, <1>7, <1>8 DEF IdStates

\* Nothing is committed: one request goes on, the others rely on what they relied on.
LEMMA IdQuiet ==
    ASSUME IdInv, IdTyped', idUsers' = idUsers, idRoleActive' = idRoleActive, NEW w \in IdWorkers, NEW s \in IdStates,
           idWork' = [idWork EXCEPT ![w] = s], IdKnows(w)',
           s.at = "create" => \A v \in IdWorkers \ {w} : IdAt(v, "create") => idWork[v].id # s.id
    PROVE  IdRequests'
<1>1. IdTyped /\ IdRequests
  BY DEF IdInv
<1>2. idWork'[w] = s /\ \A v \in IdWorkers \ {w} : idWork'[v] = idWork[v]
  BY <1>1 DEF IdTyped
<1>3. IdUserIds' = IdUserIds /\ IdRoleHeld' = IdRoleHeld
  BY DEF IdUserIds, IdRoleHeld
<1>4. ASSUME NEW v \in IdWorkers \ {w} PROVE IdKnows(v)'
  BY <1>1, <1>2, <1>3, <1>4 DEF IdRequests, IdKnows, IdRelies, IdTaken, IdUsed, IdRoleKnown, IdAllowed, IdLastOwner
<1>5. ASSUME NEW u \in IdWorkers, NEW v \in IdWorkers, IdAt(u, "create")', IdAt(v, "create")',
             idWork'[u].id = idWork'[v].id
      PROVE  u = v
  BY <1>1, <1>2, <1>5 DEF IdRequests, IdAt
<1> QED BY <1>4, <1>5 DEF IdRequests

\* Something is committed: every other request is overtaken.
LEMMA IdOvertaken ==
    ASSUME IdInv, IdUserIds \subseteq IdUserIds', NEW v \in IdWorkers,
           idWork'[v] = IF IdAt(v, "idle") THEN IdIdle ELSE [idWork[v] EXCEPT !.stale = TRUE],
           IdAt(v, "create") => idWork[v].id \notin IdUserIds'
    PROVE  IdKnows(v)' /\ idWork'[v] \in IdStates
<1>1. IdTyped /\ IdKnows(v)
  BY DEF IdInv, IdRequests
<1>2. CASE IdAt(v, "idle")
  <2>1. idWork'[v] = IdIdle /\ IdIdle.at = "idle"
    BY <1>2 DEF IdIdle
  <2>2. IdIdle \in IdStates
    BY DEF IdStates
  <2> QED BY <2>1, <2>2 DEF IdKnows
<1>3. CASE ~IdAt(v, "idle")
  <2>1. LET r == idWork[v] IN
           /\ idWork'[v] \in IdStates /\ idWork'[v].at = r.at /\ idWork'[v].stale = TRUE
           /\ r.at \in {"create", "patch", "profile", "password", "issue", "reset"} => idWork'[v].id = r.id
           /\ r.at = "patch" => idWork'[v].next = r.next
    BY <1>1, <1>3, IdStaled
  <2> QED BY <1>1, <2>1 DEF IdKnows, IdAt
<1> QED BY <1>2, <1>3

\* So a commit by the request w, which creates no row that another one creates, keeps them.
LEMMA IdCommitKnows ==
    ASSUME IdInv, NEW w \in IdWorkers, NEW next \in IdStates, IdCommitted(w, next), next.at # "create",
           IdUserIds \subseteq IdUserIds', IdKnows(w)',
           \A v \in IdWorkers \ {w} : IdAt(v, "create") => idWork[v].id \notin IdUserIds'
    PROVE  IdRequests' /\ idWork' \in [IdWorkers -> IdStates]
<1>1. IdTyped /\ IdRequests
  BY DEF IdInv
<1>2. /\ DOMAIN idWork' = IdWorkers /\ idWork' = [v \in IdWorkers |-> idWork'[v]] /\ idWork'[w] = next
      /\ \A v \in IdWorkers \ {w} :
            idWork'[v] = IF IdAt(v, "idle") THEN IdIdle ELSE [idWork[v] EXCEPT !.stale = TRUE]
  BY DEF IdCommitted
<1>3. \A v \in IdWorkers \ {w} : IdKnows(v)' /\ idWork'[v] \in IdStates
  BY <1>2, IdOvertaken
<1>4. idWork' \in [IdWorkers -> IdStates]
  BY <1>2, <1>3
<1>5. ASSUME NEW v \in IdWorkers \ {w}, IdAt(v, "create")' PROVE IdAt(v, "create") /\ idWork'[v].id = idWork[v].id
  <2>1. ~IdAt(v, "idle")
    BY <1>2, <1>5 DEF IdAt, IdIdle
  <2> QED BY <1>1, <1>2, <1>5, <2>1, IdStaled DEF IdAt
<1>6. ~IdAt(w, "create")'
  BY <1>2 DEF IdAt
<1>7. ASSUME NEW u \in IdWorkers, NEW v \in IdWorkers, IdAt(u, "create")', IdAt(v, "create")',
             idWork'[u].id = idWork'[v].id
      PROVE  u = v
  BY <1>1, <1>5, <1>6, <1>7 DEF IdRequests
<1> QED BY <1>3, <1>4, <1>7 DEF IdRequests

\* A request begins, or is refused, and nothing else changes.
LEMMA IdBeginInv ==
    ASSUME IdInv, UNCHANGED <<idUsers, idRoleActive, idSessions, idTokens, idOverlapped>>,
           NEW w \in IdWorkers, NEW s \in IdStates, idWork' = [idWork EXCEPT ![w] = s], IdKnows(w)',
           s.at = "create" => \A v \in IdWorkers \ {w} : IdAt(v, "create") => idWork[v].id # s.id
    PROVE  IdInv'
<1>1. IdTyped /\ IdTables
  BY DEF IdInv
<1>2. IdTyped'
  BY <1>1 DEF IdTyped
<1>3. IdTables'
  BY <1>1 DEF IdTables, IdUserIds, IdResetOnce, IdResets, IdRowsAgree, IdRoleHeld
<1>4. IdRequests'
  BY <1>2, IdQuiet
<1> QED BY <1>2, <1>3, <1>4 DEF IdInv

\* A request that is refused.
LEMMA IdRefusedInv ==
    ASSUME IdInv, UNCHANGED <<idUsers, idRoleActive, idSessions, idTokens, idOverlapped>>,
           NEW w \in IdWorkers, IdRefused(w)
    PROVE  IdInv'
<1>1. IdIdle \in IdStates /\ IdIdle.at = "idle"
  BY DEF IdStates, IdIdle
<1>2. idWork' = [idWork EXCEPT ![w] = IdIdle]
  BY DEF IdRefused
<1>3. idWork'[w] = IdIdle
  BY <1>2 DEF IdInv, IdTyped
<1>4. IdKnows(w)'
  BY <1>1, <1>3 DEF IdKnows
<1> QED BY <1>1, <1>2, <1>4, IdBeginInv

\* Who nobody has overtaken wrote over nothing.
LEMMA IdOverlapKnown ==
    ASSUME IdInv, NEW w \in IdWorkers, ~IdAt(w, "idle"), IdOverlaps(w), idOverlapped' = FALSE
    PROVE  idOverlapped = FALSE /\ idWork[w].stale = FALSE /\ IdRelies(w) /\ IdRowsAgree
<1>1. IdTyped /\ IdTables /\ IdKnows(w)
  BY DEF IdInv, IdRequests
<1>2. idWork[w] \in IdStates /\ idWork[w].at # "idle"
  BY <1>1 DEF IdTyped, IdAt
<1>3. idWork[w].stale \in BOOLEAN
  BY <1>2 DEF IdStates, IdIdle, IdCreates, IdPatchSet, IdProfiles, IdSwitches, IdPasswords, IdResetSet
<1>4. idOverlapped = FALSE /\ idWork[w].stale = FALSE
  BY <1>1, <1>3 DEF IdOverlaps, IdTyped
<1> QED BY <1>1, <1>2, <1>4 DEF IdTables, IdKnows

\* What the write of a row must not do to the others, while nothing has overlapped.
IdFits(a, x) ==
    /\ a \in IdUserIds => /\ idUsers[a].version <= x.version
                          /\ idUsers[a].version = x.version => idUsers[a].era = x.era
    /\ \A b \in IdUserIds \ {a} : idUsers[b].email # x.email
    /\ a \in IdUserIds \cap IdPortal /\ IdOwns(idUsers[a]) /\ ~IdOwns(x) =>
          \E b \in (IdUserIds \cap IdPortal) \ {a} : IdOwns(idUsers[b])
    /\ a \in IdStaff /\ x.role = "custom" => idRoleActive = TRUE

\* A row that fits keeps what may be said of the rows.
LEMMA IdFitsAgree ==
    ASSUME IdInv, IdRowsAgree, NEW a \in IdAccounts, NEW x \in IdRowSet, idUsers' = [idUsers EXCEPT ![a] = x],
           IdFits(a, x), idRoleActive' = idRoleActive, idSessions' = idSessions
    PROVE  IdRowsAgree'
<1>1. IdTyped /\ IdTables
  BY DEF IdInv
<1>2. /\ IdUserIds' = IdUserIds \cup {a} /\ idUsers'[a] = x
      /\ \A b \in IdAccounts \ {a} : idUsers'[b] = idUsers[b]
  BY <1>1, IdWriteRow
<1>3. IdUserIds \subseteq IdAccounts
  BY DEF IdUserIds
<1>4. ASSUME NEW s \in idSessions
      PROVE  /\ s.version <= idUsers'[s.id].version
             /\ s.version = idUsers'[s.id].version => s.era = idUsers'[s.id].era
  <2>1. s.id \in IdUserIds /\ s \in IdCookies
    BY <1>1 DEF IdTables, IdTyped
  <2>2. s.version <= idUsers[s.id].version /\ (s.version = idUsers[s.id].version => s.era = idUsers[s.id].era)
    BY DEF IdRowsAgree
  <2>3. idUsers[s.id].version \in Nat /\ x.version \in Nat /\ s.version \in Nat
    BY <1>1, <2>1, IdRowOf DEF IdRowSet, IdCookies
  <2>4. CASE s.id = a
    <3>1. idUsers[a].version <= x.version /\ (idUsers[a].version = x.version => idUsers[a].era = x.era)
      BY <2>1, <2>4 DEF IdFits
    <3>2. s.version <= x.version
      BY <2>2, <2>3, <2>4, <3>1
    <3>3. s.version = x.version => s.version = idUsers[a].version /\ idUsers[a].version = x.version
      BY <2>2, <2>3, <2>4, <3>1
    <3> QED BY <1>2, <2>2, <2>4, <3>1, <3>2, <3>3
  <2>5. CASE s.id # a
    BY <1>2, <1>3, <2>1, <2>2, <2>5
  <2> QED BY <2>4, <2>5
<1>5. ASSUME NEW b \in IdUserIds', NEW c \in IdUserIds', idUsers'[b].email = idUsers'[c].email PROVE b = c
  BY <1>2, <1>3, <1>5 DEF IdRowsAgree, IdFits
<1>6. \E b \in IdUserIds' \cap IdPortal : IdOwns(idUsers'[b])
  <2>1. PICK b \in IdUserIds \cap IdPortal : IdOwns(idUsers[b])
    BY DEF IdRowsAgree
  <2>2. CASE b # a
    BY <1>2, <1>3, <2>1, <2>2
  <2>3. CASE b = a /\ IdOwns(x)
    BY <1>2, <2>1, <2>3
  <2>4. CASE b = a /\ ~IdOwns(x)
    <3>1. PICK c \in (IdUserIds \cap IdPortal) \ {a} : IdOwns(idUsers[c])
      BY <2>1, <2>4 DEF IdFits
    <3> QED BY <1>2, <1>3, <3>1
  <2> QED BY <2>2, <2>3, <2>4
<1>7. idRoleActive = FALSE => ~IdRoleHeld'
  BY <1>2, <1>3 DEF IdRowsAgree, IdFits, IdRoleHeld
<1> QED BY <1>4, <1>5, <1>6, <1>7 DEF IdRowsAgree

\* The rest of the tables, when a row is written.
LEMMA IdWriteTables ==
    ASSUME IdInv, NEW a \in IdAccounts, NEW x \in IdRowSet, idUsers' = [idUsers EXCEPT ![a] = x],
           idSessions' = idSessions,
           a = IdRoot => x.active = TRUE /\ x.role = "platform_admin"
    PROVE  /\ IdRoot \in IdUserIds' /\ idUsers'[IdRoot].active = TRUE /\ idUsers'[IdRoot].role = "platform_admin"
           /\ \A s \in idSessions' : s.id \in IdUserIds'
           /\ IdUserIds \subseteq IdUserIds'
<1>1. IdTyped /\ IdTables
  BY DEF IdInv
<1>2. /\ IdUserIds' = IdUserIds \cup {a} /\ idUsers'[a] = x
      /\ \A b \in IdAccounts \ {a} : idUsers'[b] = idUsers[b]
  BY <1>1, IdWriteRow
<1> QED BY <1>1, <1>2 DEF IdTables, IdUserIds

\* A row is written by a request that keeps sessions, tokens and roles.
LEMMA IdWriteInv ==
    ASSUME IdInv, NEW w \in IdWorkers, ~IdAt(w, "idle"), NEW next \in IdStates, IdCommitted(w, next),
           next.at # "create", IdKnows(w)',
           NEW a \in IdAccounts, NEW x \in IdRowSet, idUsers' = [idUsers EXCEPT ![a] = x],
           UNCHANGED <<idRoleActive, idSessions, idTokens>>, idOverlapped' \in BOOLEAN,
           a = IdRoot => x.active = TRUE /\ x.role = "platform_admin",
           idOverlapped' = FALSE => IdRowsAgree /\ IdFits(a, x),
           \A v \in IdWorkers \ {w} : IdAt(v, "create") => idWork[v].id # a
    PROVE  IdInv'
<1>1. IdTyped /\ IdTables /\ IdRequests
  BY DEF IdInv
<1>2. idUsers' \in [IdAccounts -> IdRowSet \cup {IdNobody}] /\ IdUserIds' = IdUserIds \cup {a}
  BY <1>1, IdWriteRow
<1>3. \A v \in IdWorkers : IdAt(v, "create") => idWork[v].id \notin IdUserIds
  BY <1>1 DEF IdRequests, IdKnows, IdAt
<1>4. IdRequests' /\ idWork' \in [IdWorkers -> IdStates]
  BY <1>2, <1>3, IdCommitKnows
<1>5. IdTyped'
  BY <1>1, <1>2, <1>4 DEF IdTyped
<1>6. /\ IdRoot \in IdUserIds' /\ idUsers'[IdRoot].active = TRUE /\ idUsers'[IdRoot].role = "platform_admin"
      /\ \A s \in idSessions' : s.id \in IdUserIds'
  BY IdWriteTables
<1>7. IdResetOnce' /\ \A t \in DOMAIN idTokens' : idTokens'[t].id \in IdUserIds'
  BY <1>1, <1>2 DEF IdTables, IdResetOnce, IdResets
<1>8. idOverlapped' = FALSE => IdRowsAgree'
  BY IdFitsAgree
<1> QED BY <1>4, <1>5, <1>6, <1>7, <1>8 DEF IdInv, IdTables

\* A user is created ...
LEMMA IdCreateInv ==
    ASSUME IdInv, NEW w \in IdWorkers, NEW a \in IdAccounts, NEW email \in IdEmails,
           NEW role \in {"ops", "custom", "owner", "viewer"}, IdCreate(w, a, email, role)
    PROVE  IdInv'
<1> DEFINE s == [at |-> "create", id |-> a, email |-> email, role |-> role, stale |-> FALSE]
<1>1. s \in IdCreates /\ s.at = "create" /\ s.id = a /\ s.email = email /\ s.role = role
  BY DEF IdCreates
<1>2. /\ a \notin IdUserIds /\ ~IdTaken(email, a) /\ IdRoleKnown(role)
      /\ \A v \in IdWorkers : IdAt(v, "create") => idWork[v].id # a
      /\ UNCHANGED <<idUsers, idRoleActive, idSessions, idTokens, idOverlapped>>
      /\ idWork' = [idWork EXCEPT ![w] = s]
  BY DEF IdCreate, IdBegin
<1> HIDE DEF s
<1>3. idWork'[w] = s
  BY <1>2 DEF IdInv, IdTyped
<1>4. IdKnows(w)'
  BY <1>1, <1>2, <1>3 DEF IdKnows, IdRelies, IdTaken, IdUsed, IdRoleKnown, IdUserIds
<1>5. s \in IdStates
  BY <1>1 DEF IdStates
<1> QED BY <1>1, <1>2, <1>4, <1>5, IdBeginInv

\* ... unless the table's own index has its e-mail by now.
LEMMA IdInsertInv ==
    ASSUME IdInv, NEW w \in IdWorkers, IdInsert(w)
    PROVE  IdInv'
<1> DEFINE a == idWork[w].id
<1> DEFINE x == IdRow(idWork[w].email, idWork[w].role)
<1>1. IdTyped /\ IdTables /\ IdRequests /\ idWork[w].at = "create" /\ ~IdAt(w, "idle")
  BY DEF IdInv, IdInsert, IdAt
<1>2. idWork[w] \in IdCreates /\ a \notin IdUserIds
  BY <1>1, IdStateOf DEF IdRequests, IdKnows
<1>3. a \in IdAccounts /\ x \in IdRowSet /\ x.email = idWork[w].email /\ x.role = idWork[w].role
  BY <1>2 DEF IdCreates, IdRow, IdRowSet
<1>4. CASE IdRefused(w) /\ UNCHANGED <<idUsers, idOverlapped>>
  <2>1. UNCHANGED <<idRoleActive, idSessions, idTokens>>
    BY DEF IdInsert
  <2> QED BY <1>4, <2>1, IdRefusedInv
<1>5. CASE idUsers' = [idUsers EXCEPT ![a] = x] /\ IdCommitted(w, IdIdle) /\ IdOverlaps(w)
  <2>1. UNCHANGED <<idRoleActive, idSessions, idTokens>>
    BY DEF IdInsert
  <2>2. idOverlapped' \in BOOLEAN
    BY <1>5 DEF IdOverlaps
  <2>3. IdIdle \in IdStates /\ IdIdle.at = "idle"
    BY DEF IdStates, IdIdle
  <2>4. idWork'[w] = IdIdle
    BY <1>5 DEF IdCommitted
  <2>5. IdKnows(w)'
    BY <2>3, <2>4 DEF IdKnows
  <2>6. a # IdRoot
    BY <1>1, <1>2 DEF IdTables
  <2>7. \A v \in IdWorkers \ {w} : IdAt(v, "create") => idWork[v].id # a
    BY <1>1 DEF IdRequests, IdAt
  <2>8. ASSUME idOverlapped' = FALSE PROVE IdRowsAgree /\ IdFits(a, x)
    <3>1. IdRowsAgree /\ IdRelies(w)
      BY <1>1, <1>5, <2>8, IdOverlapKnown
    <3>2. ~IdTaken(x.email, a) /\ IdRoleKnown(x.role)
      BY <1>1, <1>3, <3>1 DEF IdRelies
    <3>3. idRoleActive \in BOOLEAN
      BY <1>1 DEF IdTyped
    <3> QED BY <1>2, <3>1, <3>2, <3>3 DEF IdFits, IdTaken, IdUsed, IdRoleKnown
  <2> HIDE DEF x, a
  <2> QED BY <1>1, <1>3, <1>5, <2>1, <2>2, <2>3, <2>5, <2>6, <2>7, <2>8, IdWriteInv
<1> QED BY <1>4, <1>5 DEF IdInsert

\* A changed row is a row, and only a change that ends the sessions has another era.
LEMMA IdNextOf ==
    ASSUME IdTyped, NEW a \in IdUserIds, NEW p \in IdPatches(a)
    PROVE  LET next == IdNext(a, p[1], p[2])
               base == idUsers[a]
           IN  /\ next \in IdRowSet /\ base.version <= next.version
               /\ base.version = next.version => base.era = next.era
<1> DEFINE base == idUsers[a]
<1> DEFINE field == p[1]
<1> DEFINE value == p[2]
<1> DEFINE era == base.era + 1
<1> DEFINE set == CASE field = "email" -> [base EXCEPT !.email = value]
                    [] field = "name" -> base
                    [] field = "password" -> [base EXCEPT !.pw = era, !.era = era]
                    [] field = "role" -> [base EXCEPT !.role = value, !.era = IF value = base.role THEN @ ELSE era]
                    [] field = "active" -> [base EXCEPT !.active = value, !.era = IF value = base.active THEN @ ELSE era]
<1> DEFINE next == [set EXCEPT !.version = IF IdSignsOut(a, field, base, set) THEN base.version + 1 ELSE @]
<1>1. base \in IdRowSet /\ base.version \in Nat /\ base.era \in Nat /\ era \in Nat
  <2>1. base \in IdRowSet
    BY IdRowOf
  <2>2. base.version \in Nat /\ base.era \in Nat
    BY <2>1 DEF IdRowSet
  <2> QED BY <2>1, <2>2
<1>2. IdNext(a, field, value) = next
  BY DEF IdNext
<1>3. \/ field = "email" /\ value \in IdEmails
      \/ field = "role" /\ value \in {"platform_admin", "ops", "custom", "owner", "viewer"}
      \/ field = "active" /\ value \in BOOLEAN
      \/ field \in {"password", "name"}
  <2>1. base.role \in {"platform_admin", "ops", "custom", "owner", "viewer"}
    BY <1>1 DEF IdRowSet
  <2>2. CASE p \in {"email"} \X IdEmails
    BY <2>2
  <2>3. CASE p \in {"role"} \X (IdRoles(a) \cup {base.role})
    <3>1. field = "role" /\ value \in IdRoles(a) \cup {base.role}
      BY <2>3
    <3> QED BY <2>1, <3>1 DEF IdRoles
  <2>4. CASE p \in {"active"} \X BOOLEAN
    BY <2>4
  <2>5. CASE p \in {<<"password", TRUE>>, <<"name", TRUE>>}
    <3>1. <<"password", TRUE>>[1] = "password" /\ <<"name", TRUE>>[1] = "name"
      OBVIOUS
    <3>2. p[1] \in {"password", "name"}
      BY <2>5, <3>1
    <3> QED BY <3>2
  <2> QED BY <2>2, <2>3, <2>4, <2>5 DEF IdPatches
<1>4. set \in IdRowSet /\ set.version = base.version /\ (field = "name" => set = base)
  <2>1. CASE field = "email" /\ value \in IdEmails
    <3>1. set = [base EXCEPT !.email = value]
      BY <2>1
    <3> QED BY <1>1, <2>1, <3>1 DEF IdRowSet
  <2>2. CASE field = "role" /\ value \in {"platform_admin", "ops", "custom", "owner", "viewer"}
    <3>1. set = [base EXCEPT !.role = value, !.era = IF value = base.role THEN @ ELSE era]
      BY <2>2
    <3> QED BY <1>1, <2>2, <3>1 DEF IdRowSet
  <2>3. CASE field = "active" /\ value \in BOOLEAN
    <3>1. set = [base EXCEPT !.active = value, !.era = IF value = base.active THEN @ ELSE era]
      BY <2>3
    <3> QED BY <1>1, <2>3, <3>1 DEF IdRowSet
  <2>4. CASE field = "password"
    <3>1. set = [base EXCEPT !.pw = era, !.era = era]
      BY <2>4
    <3> QED BY <1>1, <2>4, <3>1 DEF IdRowSet
  <2>5. CASE field = "name"
    BY <1>1, <2>5
  <2> QED BY <1>3, <2>1, <2>2, <2>3, <2>4, <2>5
<1> HIDE DEF set
<1>5. next \in IdRowSet /\ next.era = set.era
      /\ next.version = IF IdSignsOut(a, field, base, set) THEN base.version + 1 ELSE base.version
  <2> DEFINE version == IF IdSignsOut(a, field, base, set) THEN base.version + 1 ELSE base.version
  <2>1. version \in Nat
    BY <1>1
  <2>2. next = [set EXCEPT !.version = version]
    BY <1>4
  <2> HIDE DEF version
  <2>3. [set EXCEPT !.version = version] \in IdRowSet /\ [set EXCEPT !.version = version].era = set.era
        /\ [set EXCEPT !.version = version].version = version
    BY <1>4, <2>1 DEF IdRowSet
  <2> QED BY <2>2, <2>3 DEF version
<1> HIDE DEF next
<1>6. base.version = next.version => set = base
  BY <1>1, <1>4, <1>5 DEF IdSignsOut
<1> QED BY <1>1, <1>2, <1>5, <1>6

\* A row is read, changed and checked ...
LEMMA IdPatchInv ==
    ASSUME IdInv, NEW w \in IdWorkers, NEW a \in IdUserIds, NEW p \in IdPatches(a), IdPatch(w, a, p[1], p[2])
    PROVE  IdInv'
<1> DEFINE next == IdNext(a, p[1], p[2])
<1> DEFINE s == [at |-> "patch", id |-> a, next |-> next, stale |-> FALSE]
<1>1. IdTyped
  BY DEF IdInv
<1>2. /\ next \in IdRowSet /\ idUsers[a].version <= next.version
      /\ idUsers[a].version = next.version => idUsers[a].era = next.era
  BY <1>1, IdNextOf
<1>3. /\ IdAllowed(a, idUsers[a], next)
      /\ UNCHANGED <<idUsers, idRoleActive, idSessions, idTokens, idOverlapped>>
      /\ idWork' = [idWork EXCEPT ![w] = s]
  BY DEF IdPatch, IdBegin
<1>4. a \in IdAccounts
  BY DEF IdUserIds
<1> HIDE DEF next
<1>5. s \in IdPatchSet /\ s.at = "patch" /\ s.id = a /\ s.next = next
  BY <1>2, <1>4 DEF IdPatchSet
<1> HIDE DEF s
<1>6. idWork'[w] = s
  BY <1>1, <1>3 DEF IdTyped
<1>7. a = IdRoot => next.active = TRUE /\ next.role = "platform_admin"
  <2>1. next.active \in BOOLEAN
    BY <1>2 DEF IdRowSet
  <2> QED BY <1>3, <2>1 DEF IdAllowed
<1>8. IdUserIds' = IdUserIds
  BY <1>3 DEF IdUserIds
<1>9. IdRelies(w)'
  BY <1>2, <1>3, <1>5, <1>6, <1>8
     DEF IdRelies, IdAllowed, IdTaken, IdUsed, IdRoleKnown, IdLastOwner
<1>10. IdKnows(w)'
  BY <1>5, <1>6, <1>7, <1>8, <1>9 DEF IdKnows
<1>11. s \in IdStates
  BY <1>5 DEF IdStates
<1> QED BY <1>3, <1>5, <1>10, <1>11, IdBeginInv

\* ... and the whole row is written back.
LEMMA IdWriteBackInv ==
    ASSUME IdInv, NEW w \in IdWorkers, IdWrite(w)
    PROVE  IdInv'
<1> DEFINE a == idWork[w].id
<1> DEFINE x == idWork[w].next
<1>1. IdTyped /\ IdTables /\ IdRequests /\ idWork[w].at = "patch" /\ ~IdAt(w, "idle")
  BY DEF IdInv, IdWrite, IdAt
<1>2. /\ idWork[w] \in IdPatchSet /\ a \in IdUserIds
      /\ a = IdRoot => x.active = TRUE /\ x.role = "platform_admin"
  BY <1>1, IdStateOf DEF IdRequests, IdKnows
<1>3. a \in IdAccounts /\ x \in IdRowSet
  BY <1>2 DEF IdPatchSet
<1>4. CASE IdRefused(w) /\ UNCHANGED <<idUsers, idOverlapped>>
  <2>1. UNCHANGED <<idRoleActive, idSessions, idTokens>>
    BY DEF IdWrite
  <2> QED BY <1>4, <2>1, IdRefusedInv
<1>5. CASE /\ ~IdIndexed(x.email, a) /\ idUsers' = [idUsers EXCEPT ![a] = x]
           /\ IdCommitted(w, IdIdle) /\ IdOverlaps(w)
  <2>1. UNCHANGED <<idRoleActive, idSessions, idTokens>>
    BY DEF IdWrite
  <2>2. idOverlapped' \in BOOLEAN
    BY <1>5 DEF IdOverlaps
  <2>3. IdIdle \in IdStates /\ IdIdle.at = "idle"
    BY DEF IdStates, IdIdle
  <2>4. idWork'[w] = IdIdle
    BY <1>5 DEF IdCommitted
  <2>5. IdKnows(w)'
    BY <2>3, <2>4 DEF IdKnows
  <2>6. \A v \in IdWorkers \ {w} : IdAt(v, "create") => idWork[v].id # a
    BY <1>1, <1>2 DEF IdRequests, IdKnows, IdAt
  <2>7. ASSUME idOverlapped' = FALSE PROVE IdRowsAgree /\ IdFits(a, x)
    <3>1. IdRowsAgree /\ IdRelies(w)
      BY <1>1, <1>5, <2>7, IdOverlapKnown
    <3>2. /\ IdAllowed(a, idUsers[a], x) /\ idUsers[a].version <= x.version
          /\ idUsers[a].version = x.version => idUsers[a].era = x.era
      BY <1>1, <3>1 DEF IdRelies
    <3>3. ASSUME NEW b \in IdUserIds \ {a} PROVE idUsers[b].email # x.email
      BY <1>2, <3>1, <3>2, <3>3 DEF IdAllowed, IdTaken, IdUsed, IdRowsAgree
    <3>4. a \in IdUserIds \cap IdPortal /\ IdOwns(idUsers[a]) /\ ~IdOwns(x) =>
             \E b \in (IdUserIds \cap IdPortal) \ {a} : IdOwns(idUsers[b])
      BY <3>2 DEF IdAllowed, IdLastOwner, IdOwns
    <3>5. a \in IdStaff /\ x.role = "custom" => idRoleActive = TRUE
      <4>1. idRoleActive \in BOOLEAN
        BY <1>1 DEF IdTyped
      <4> QED BY <1>2, <3>1, <3>2, <4>1 DEF IdAllowed, IdRoleKnown, IdRowsAgree, IdRoleHeld
    <3> QED BY <3>1, <3>2, <3>3, <3>4, <3>5 DEF IdFits
  <2> HIDE DEF x, a
  <2> QED BY <1>1, <1>2, <1>3, <1>5, <2>1, <2>2, <2>3, <2>5, <2>6, <2>7, IdWriteInv
<1> QED BY <1>4, <1>5 DEF IdWrite

\* An administrator's own e-mail: read ...
LEMMA IdProfileInv ==
    ASSUME IdInv, NEW w \in IdWorkers, NEW a \in IdUserIds, NEW email \in IdEmails, IdProfile(w, a, email)
    PROVE  IdInv'
<1> DEFINE s == [at |-> "profile", id |-> a, email |-> email, stale |-> FALSE]
<1>1. /\ a \in IdStaff /\ (email # idUsers[a].email => ~IdTaken(email, a))
      /\ UNCHANGED <<idUsers, idRoleActive, idSessions, idTokens, idOverlapped>>
      /\ idWork' = [idWork EXCEPT ![w] = s]
  BY DEF IdProfile, IdBegin
<1>2. s \in IdProfiles /\ s.at = "profile" /\ s.id = a /\ s.email = email
  BY <1>1 DEF IdProfiles
<1> HIDE DEF s
<1>3. idWork'[w] = s
  BY <1>1 DEF IdInv, IdTyped
<1>4. IdKnows(w)'
  BY <1>1, <1>2, <1>3 DEF IdKnows, IdRelies, IdTaken, IdUsed, IdUserIds
<1>5. s \in IdStates
  BY <1>2 DEF IdStates
<1> QED BY <1>1, <1>2, <1>4, <1>5, IdBeginInv

\* ... and written.
LEMMA IdProfileWriteInv ==
    ASSUME IdInv, NEW w \in IdWorkers, IdProfileWrite(w)
    PROVE  IdInv'
<1> DEFINE a == idWork[w].id
<1> DEFINE x == [idUsers[a] EXCEPT !.email = idWork[w].email]
<1>1. IdTyped /\ IdTables /\ IdRequests /\ idWork[w].at = "profile" /\ ~IdAt(w, "idle")
  BY DEF IdInv, IdProfileWrite, IdAt
<1>2. idWork[w] \in IdProfiles /\ a \in IdUserIds
  BY <1>1, IdStateOf DEF IdRequests, IdKnows
<1>3. a \in IdAccounts /\ idUsers[a] \in IdRowSet
  BY <1>1, <1>2, IdRowOf
<1>4. /\ x \in IdRowSet /\ x.email = idWork[w].email /\ x.role = idUsers[a].role
      /\ x.active = idUsers[a].active /\ x.version = idUsers[a].version /\ x.era = idUsers[a].era
      /\ x.version \in Nat
  BY <1>2, <1>3 DEF IdProfiles, IdRowSet
<1>5. CASE IdRefused(w) /\ UNCHANGED <<idUsers, idOverlapped>>
  <2>1. UNCHANGED <<idRoleActive, idSessions, idTokens>>
    BY DEF IdProfileWrite
  <2> QED BY <1>5, <2>1, IdRefusedInv
<1>6. CASE idUsers' = [idUsers EXCEPT ![a].email = idWork[w].email] /\ IdCommitted(w, IdIdle) /\ IdOverlaps(w)
  <2>1. UNCHANGED <<idRoleActive, idSessions, idTokens>> /\ idUsers' = [idUsers EXCEPT ![a] = x]
    BY <1>6 DEF IdProfileWrite
  <2>2. idOverlapped' \in BOOLEAN
    BY <1>6 DEF IdOverlaps
  <2>3. IdIdle \in IdStates /\ IdIdle.at = "idle"
    BY DEF IdStates, IdIdle
  <2>4. idWork'[w] = IdIdle
    BY <1>6 DEF IdCommitted
  <2>5. IdKnows(w)'
    BY <2>3, <2>4 DEF IdKnows
  <2>6. \A v \in IdWorkers \ {w} : IdAt(v, "create") => idWork[v].id # a
    BY <1>1, <1>2 DEF IdRequests, IdKnows, IdAt
  <2>7. a = IdRoot => x.active = TRUE /\ x.role = "platform_admin"
    BY <1>1, <1>4 DEF IdTables
  <2>8. ASSUME idOverlapped' = FALSE PROVE IdRowsAgree /\ IdFits(a, x)
    <3>1. IdRowsAgree /\ IdRelies(w)
      BY <1>1, <1>6, <2>8, IdOverlapKnown
    <3>2. x.email # idUsers[a].email => ~IdTaken(x.email, a)
      BY <1>1, <1>4, <3>1 DEF IdRelies
    <3>3. ASSUME NEW b \in IdUserIds \ {a} PROVE idUsers[b].email # x.email
      BY <1>2, <3>1, <3>2, <3>3 DEF IdTaken, IdUsed, IdRowsAgree
    <3>4. a \in IdStaff /\ x.role = "custom" => idRoleActive = TRUE
      BY <1>1, <1>2, <1>4, <3>1 DEF IdRowsAgree, IdRoleHeld, IdTyped
    <3>5. IdOwns(x) = IdOwns(idUsers[a])
      BY <1>4 DEF IdOwns
    <3> HIDE DEF x, a
    <3> QED BY <1>2, <1>4, <3>1, <3>3, <3>4, <3>5 DEF IdFits
  <2>9. a \in IdAccounts /\ x \in IdRowSet /\ ~IdAt(w, "idle") /\ IdCommitted(w, IdIdle)
    BY <1>1, <1>3, <1>4, <1>6
  <2> HIDE DEF x, a
  <2> QED BY <2>1, <2>2, <2>3, <2>5, <2>6, <2>7, <2>8, <2>9, IdWriteInv
<1> QED BY <1>5, <1>6 DEF IdProfileWrite

\* The custom role is to be switched ...
LEMMA IdRoleSwitchInv ==
    ASSUME IdInv, NEW w \in IdWorkers, NEW active \in BOOLEAN, IdRoleSwitch(w, active)
    PROVE  IdInv'
<1> DEFINE s == [at |-> "role", active |-> active, stale |-> FALSE]
<1>1. /\ IdRoleHeld => active = TRUE
      /\ UNCHANGED <<idUsers, idRoleActive, idSessions, idTokens, idOverlapped>>
      /\ idWork' = [idWork EXCEPT ![w] = s]
  BY DEF IdRoleSwitch, IdBegin
<1>2. s \in IdSwitches /\ s.at = "role" /\ s.active = active
  BY DEF IdSwitches
<1> HIDE DEF s
<1>3. idWork'[w] = s
  BY <1>1 DEF IdInv, IdTyped
<1>4. IdRoleHeld' = IdRoleHeld
  BY <1>1 DEF IdRoleHeld, IdUserIds
<1>5. IdKnows(w)'
  BY <1>1, <1>2, <1>3, <1>4 DEF IdKnows, IdRelies
<1>6. s \in IdStates
  BY <1>2 DEF IdStates
<1> QED BY <1>1, <1>2, <1>5, <1>6, IdBeginInv

\* ... and is.
LEMMA IdRoleWriteInv ==
    ASSUME IdInv, NEW w \in IdWorkers, IdRoleWrite(w)
    PROVE  IdInv'
<1>1. IdTyped /\ IdTables /\ IdRequests /\ idWork[w].at = "role" /\ ~IdAt(w, "idle")
  BY DEF IdInv, IdRoleWrite, IdAt
<1>2. idWork[w].active \in BOOLEAN
  BY <1>1, IdStateOf DEF IdSwitches
<1>3. idRoleActive' = idWork[w].active /\ IdCommitted(w, IdIdle) /\ IdOverlaps(w)
      /\ UNCHANGED <<idUsers, idSessions, idTokens>>
  BY DEF IdRoleWrite
<1>4. IdIdle \in IdStates /\ IdIdle.at = "idle"
  BY DEF IdStates, IdIdle
<1>5. idWork'[w] = IdIdle
  BY <1>3 DEF IdCommitted
<1>6. IdKnows(w)'
  BY <1>4, <1>5 DEF IdKnows
<1>7. IdUserIds' = IdUserIds /\ IdRoleHeld' = IdRoleHeld
  BY <1>3 DEF IdUserIds, IdRoleHeld
<1>8. \A v \in IdWorkers \ {w} : IdAt(v, "create") => idWork[v].id \notin IdUserIds'
  BY <1>1, <1>7 DEF IdRequests, IdKnows, IdAt
<1>9. IdRequests' /\ idWork' \in [IdWorkers -> IdStates]
  BY <1>3, <1>4, <1>6, <1>7, <1>8, IdCommitKnows
<1>10. idOverlapped' \in BOOLEAN
  BY <1>3 DEF IdOverlaps
<1>11. IdTyped'
  BY <1>1, <1>2, <1>3, <1>9, <1>10 DEF IdTyped
<1>12. ASSUME idOverlapped' = FALSE PROVE IdRowsAgree'
  <2>1. IdRowsAgree /\ IdRelies(w)
    BY <1>1, <1>3, <1>12, IdOverlapKnown
  <2>2. IdRoleHeld => idWork[w].active = TRUE
    BY <1>1, <2>1 DEF IdRelies
  <2> QED BY <1>3, <1>7, <2>1, <2>2 DEF IdRowsAgree
<1>13. IdTables'
  BY <1>1, <1>3, <1>7, <1>12 DEF IdTables, IdResetOnce, IdResets
<1> QED BY <1>9, <1>11, <1>13 DEF IdInv

\* A session that is issued is of the row as it is.
LEMMA IdIssueTables ==
    ASSUME IdInv, NEW a \in IdUserIds, IdIssue(a), UNCHANGED <<idUsers, idRoleActive, idTokens, idOverlapped>>
    PROVE  IdTables' /\ idSessions' \subseteq IdCookies
<1>1. IdTyped /\ IdTables
  BY DEF IdInv
<1>2. idUsers[a] \in IdRowSet /\ a \in IdAccounts
  BY <1>1, IdRowOf
<1>3. /\ IdSession(a) \in IdCookies /\ IdSession(a).id = a /\ IdSession(a).version = idUsers[a].version
      /\ IdSession(a).era = idUsers[a].era /\ idUsers[a].version \in Nat
  BY <1>2 DEF IdSession, IdCookies, IdRowSet
<1>4. idSessions' = idSessions \cup {IdSession(a)}
  BY DEF IdIssue
<1>5. IdUserIds' = IdUserIds /\ IdRoleHeld' = IdRoleHeld
  BY DEF IdUserIds, IdRoleHeld
<1>6. ASSUME IdRowsAgree PROVE IdRowsAgree'
  <2>1. ASSUME NEW s \in idSessions'
        PROVE  /\ s.version <= idUsers[s.id].version
               /\ s.version = idUsers[s.id].version => s.era = idUsers[s.id].era
    BY <1>3, <1>4, <1>6 DEF IdRowsAgree
  <2> QED BY <1>5, <1>6, <2>1 DEF IdRowsAgree
<1>7. \A s \in idSessions' : s.id \in IdUserIds'
  BY <1>1, <1>3, <1>4, <1>5 DEF IdTables
<1> QED BY <1>1, <1>3, <1>4, <1>5, <1>6, <1>7 DEF IdTables, IdTyped, IdResetOnce, IdResets

\* Somebody signs in.
LEMMA IdSignInInv ==
    ASSUME IdInv, NEW a \in IdAccounts, IdSignIn(a)
    PROVE  IdInv'
<1>1. a \in IdUserIds /\ IdIssue(a) /\ UNCHANGED <<idUsers, idRoleActive, idTokens, idWork, idOverlapped>>
  BY DEF IdSignIn
<1>2. IdTables' /\ idSessions' \subseteq IdCookies
  BY <1>1, IdIssueTables
<1>3. IdTyped'
  BY <1>1, <1>2 DEF IdInv, IdTyped
<1>4. IdRequests'
  BY <1>1 DEF IdInv, IdRequests, IdAt, IdKnows, IdRelies, IdTaken, IdUsed, IdRoleKnown, IdAllowed,
              IdLastOwner, IdUserIds, IdRoleHeld
<1> QED BY <1>2, <1>3, <1>4 DEF IdInv

\* A new password is set in the row as it is, and ends every session of the user.
LEMMA IdNewRow ==
    ASSUME IdInv, NEW a \in IdUserIds, idUsers' = IdNewPassword(a)
    PROVE  \E x \in IdRowSet :
              /\ idUsers' = [idUsers EXCEPT ![a] = x]
              /\ a = IdRoot => x.active = TRUE /\ x.role = "platform_admin"
              /\ IdRowsAgree => IdFits(a, x)
<1> DEFINE row == idUsers[a]
<1> DEFINE x == [row EXCEPT !.version = @ + 1, !.era = @ + 1, !.pw = row.era + 1]
<1>1. IdTyped /\ IdTables
  BY DEF IdInv
<1>2. row \in IdRowSet /\ a \in IdAccounts
  BY <1>1, IdRowOf
<1>3. /\ x \in IdRowSet /\ x.email = row.email /\ x.role = row.role /\ x.active = row.active
      /\ x.version = row.version + 1 /\ row.version \in Nat
  <2> DEFINE version == row.version + 1
  <2> DEFINE era == row.era + 1
  <2>1. row.version \in Nat /\ row.era \in Nat
    BY <1>2 DEF IdRowSet
  <2>2. version \in Nat /\ era \in Nat
    BY <2>1
  <2>3. x = [row EXCEPT !.version = version, !.era = era, !.pw = era]
    OBVIOUS
  <2> HIDE DEF row
  <2>4. [row EXCEPT !.version = version, !.era = era, !.pw = era] \in IdRowSet
    BY <1>2, <2>2 DEF IdRowSet
  <2> QED BY <1>2, <2>1, <2>3, <2>4 DEF IdRowSet
<1>4. idUsers' = [idUsers EXCEPT ![a] = x]
  BY <1>1, <1>2 DEF IdNewPassword, IdTyped, IdRowSet
<1> HIDE DEF x
<1>5. a = IdRoot => x.active = TRUE /\ x.role = "platform_admin"
  BY <1>1, <1>3 DEF IdTables
<1>6. ASSUME IdRowsAgree PROVE IdFits(a, x)
  <2>1. IdOwns(x) = IdOwns(row)
    BY <1>3 DEF IdOwns
  <2>2. a \in IdStaff /\ x.role = "custom" => idRoleActive = TRUE
    BY <1>1, <1>3, <1>6 DEF IdRowsAgree, IdRoleHeld, IdTyped
  <2>3. \A b \in IdUserIds \ {a} : idUsers[b].email # x.email
    BY <1>3, <1>6 DEF IdRowsAgree
  <2>4. row.version <= x.version /\ row.version # x.version
    BY <1>3
  <2> QED BY <2>1, <2>2, <2>3, <2>4 DEF IdFits
<1> QED BY <1>3, <1>4, <1>5, <1>6

\* A password is to be changed, or a reset asked for.
LEMMA IdPasswordInv ==
    ASSUME IdInv, NEW w \in IdWorkers, NEW a \in IdUserIds, IdPassword(w, a) \/ IdReset(w, a)
    PROVE  IdInv'
<1> DEFINE s == IF IdPassword(w, a) THEN [at |-> "password", id |-> a, stale |-> FALSE]
                ELSE [at |-> "reset", id |-> a, spends |-> IdOpen(a), stale |-> FALSE]
<1>1. IdTyped
  BY DEF IdInv
<1>2. /\ a \in IdStaff /\ UNCHANGED <<idUsers, idRoleActive, idSessions, idTokens, idOverlapped>>
      /\ idWork' = [idWork EXCEPT ![w] = s]
  BY DEF IdPassword, IdReset, IdBegin
<1>3. IdOpen(a) \subseteq Nat
  BY <1>1 DEF IdOpen, IdTyped
<1>4. s \in IdPasswords \cup IdResetSet /\ s.at \in {"password", "reset"} /\ s.id = a
  BY <1>2, <1>3 DEF IdPasswords, IdResetSet
<1> HIDE DEF s
<1>5. idWork'[w] = s
  BY <1>1, <1>2 DEF IdTyped
<1>6. IdUserIds' = IdUserIds
  BY <1>2 DEF IdUserIds
<1>7. IdKnows(w)'
  BY <1>4, <1>5, <1>6 DEF IdKnows, IdRelies
<1>8. s \in IdStates
  BY <1>4 DEF IdStates
<1> QED BY <1>2, <1>4, <1>7, <1>8, IdBeginInv

\* The password is set ...
LEMMA IdPasswordWriteInv ==
    ASSUME IdInv, NEW w \in IdWorkers, IdPasswordWrite(w)
    PROVE  IdInv'
<1> DEFINE a == idWork[w].id
<1> DEFINE s == [at |-> "issue", id |-> a, stale |-> FALSE]
<1>1. IdTyped /\ IdTables /\ IdRequests /\ idWork[w].at = "password" /\ ~IdAt(w, "idle")
  BY DEF IdInv, IdPasswordWrite, IdAt
<1>2. a \in IdUserIds /\ a \in IdStaff /\ a \in IdAccounts
  BY <1>1, IdStateOf DEF IdRequests, IdKnows, IdPasswords, IdUserIds
<1>3. idUsers' = IdNewPassword(a) /\ IdCommitted(w, s)
      /\ UNCHANGED <<idRoleActive, idSessions, idTokens, idOverlapped>>
  BY DEF IdPasswordWrite
<1>4. PICK x \in IdRowSet : /\ idUsers' = [idUsers EXCEPT ![a] = x]
                            /\ a = IdRoot => x.active = TRUE /\ x.role = "platform_admin"
                            /\ IdRowsAgree => IdFits(a, x)
  BY <1>2, <1>3, IdNewRow
<1>5. s \in IdPasswords /\ s.at = "issue" /\ s.id = a
  BY <1>2 DEF IdPasswords
<1>6. s \in IdStates
  BY <1>5 DEF IdStates
<1> HIDE DEF s
<1>7. idWork'[w] = s
  BY <1>3 DEF IdCommitted
<1>8. IdUserIds' = IdUserIds \cup {a}
  BY <1>1, <1>2, <1>4, IdWriteRow
<1>9. IdKnows(w)'
  BY <1>5, <1>7, <1>8 DEF IdKnows, IdRelies
<1>10. \A v \in IdWorkers \ {w} : IdAt(v, "create") => idWork[v].id # a
  BY <1>1, <1>2 DEF IdRequests, IdKnows, IdAt
<1>11. idOverlapped' \in BOOLEAN /\ (idOverlapped' = FALSE => IdRowsAgree /\ IdFits(a, x))
  BY <1>1, <1>3, <1>4 DEF IdTables, IdTyped
<1>12. ~IdAt(w, "idle") /\ s.at # "create"
  BY <1>1, <1>5
<1>13. a \in IdAccounts /\ IdCommitted(w, s) /\ UNCHANGED <<idRoleActive, idSessions, idTokens>>
       /\ (a = IdRoot => x.active = TRUE /\ x.role = "platform_admin") /\ idUsers' = [idUsers EXCEPT ![a] = x]
  BY <1>2, <1>3, <1>4
<1> HIDE DEF a
<1> QED BY <1>6, <1>9, <1>10, <1>11, <1>12, <1>13, IdWriteInv

\* ... and the caller gets a session of the row read back.
LEMMA IdPasswordIssueInv ==
    ASSUME IdInv, NEW w \in IdWorkers, IdPasswordIssue(w)
    PROVE  IdInv'
<1>1. IdTyped /\ IdRequests /\ idWork[w].at = "issue"
  BY DEF IdInv, IdPasswordIssue, IdAt
<1>2. idWork[w].id \in IdUserIds
  BY <1>1 DEF IdRequests, IdKnows
<1>3. IdIssue(idWork[w].id) /\ IdRefused(w) /\ UNCHANGED <<idUsers, idRoleActive, idTokens, idOverlapped>>
  BY DEF IdPasswordIssue
<1>4. IdTables' /\ idSessions' \subseteq IdCookies
  BY <1>2, <1>3, IdIssueTables
<1>5. IdIdle \in IdStates /\ IdIdle.at = "idle"
  BY DEF IdStates, IdIdle
<1>6. idWork' = [idWork EXCEPT ![w] = IdIdle]
  BY <1>3 DEF IdRefused
<1>7. IdTyped'
  BY <1>1, <1>3, <1>4, <1>5, <1>6 DEF IdTyped
<1>8. idWork'[w] = IdIdle
  BY <1>1, <1>6 DEF IdTyped
<1>9. IdKnows(w)'
  BY <1>5, <1>8 DEF IdKnows
<1>10. IdRequests'
  BY <1>3, <1>5, <1>6, <1>7, <1>9, IdQuiet
<1> QED BY <1>4, <1>7, <1>10 DEF IdInv

\* A number of resets is a number.
LEMMA IdResetsCount ==
    ASSUME IdTyped, NEW a
    PROVE  IdResets(a) \in Nat
<1> DEFINE S == {t \in DOMAIN idTokens : idTokens[t].id = a /\ idTokens[t].used}
<1>1. IsFiniteSet(DOMAIN idTokens)
  <2>1. Cardinality(DOMAIN idTokens) \in Int /\ 1 \in Int
    BY DEF IdTyped
  <2>2. IsFiniteSet(1..Cardinality(DOMAIN idTokens))
    BY <2>1, FS_Interval
  <2> QED BY <2>2 DEF IdTyped
<1>2. S \subseteq DOMAIN idTokens
  OBVIOUS
<1>3. IsFiniteSet(S)
  BY <1>1, <1>2, FS_Subset
<1>4. Cardinality(S) \in Nat
  BY <1>3, FS_CardinalityType
<1> QED BY <1>4 DEF IdResets

\* A reset token is issued, and those that were seen are closed.
LEMMA IdResetCommitInv ==
    ASSUME IdInv, NEW w \in IdWorkers, NEW delivered \in BOOLEAN, IdResetCommit(w, delivered)
    PROVE  IdInv'
<1> DEFINE r == idWork[w]
<1> DEFINE n == Cardinality(DOMAIN idTokens) + 1
<1> DEFINE t == [id |-> r.id, open |-> delivered, used |-> FALSE, after |-> IdResets(r.id)]
<1> DEFINE closed == IdClosed(r.spends)
<1>1. IdTyped /\ IdTables /\ IdRequests /\ r.at = "reset"
  BY DEF IdInv, IdResetCommit, IdAt
<1>2. r \in IdResetSet /\ r.id \in IdUserIds
  BY <1>1, IdStateOf DEF IdRequests, IdKnows
<1>3. IdResets(r.id) \in Nat
  BY <1>1, IdResetsCount
<1>4. t \in IdTokenSet /\ t.id = r.id /\ t.used = FALSE /\ t.after = IdResets(r.id)
  BY <1>2, <1>3 DEF IdTokenSet, IdResetSet
<1>5. Cardinality(DOMAIN idTokens) \in Nat /\ DOMAIN idTokens = 1..Cardinality(DOMAIN idTokens)
      /\ n \in Nat \ {0}
  BY <1>1 DEF IdTyped
<1>6. /\ idTokens' = [k \in 1..n |-> IF k \in DOMAIN idTokens THEN closed[k] ELSE t]
      /\ IdRefused(w) /\ UNCHANGED <<idUsers, idRoleActive, idSessions, idOverlapped>>
  BY DEF IdResetCommit
<1>7. ASSUME NEW k \in DOMAIN idTokens
      PROVE  /\ closed[k] \in IdTokenSet /\ closed[k].id = idTokens[k].id /\ closed[k].used = idTokens[k].used
             /\ closed[k].after = idTokens[k].after /\ (closed[k].open = TRUE => idTokens[k].open = TRUE)
  <2> DEFINE spends == r.spends
  <2> HIDE DEF spends, r
  <2>1. idTokens[k] \in IdTokenSet /\ idTokens[k].open \in BOOLEAN
    BY <1>1 DEF IdTyped, IdTokenSet
  <2>2. (idTokens[k].open /\ k \notin spends) \in BOOLEAN
    OBVIOUS
  <2>3. closed[k] = [idTokens[k] EXCEPT !.open = @ /\ k \notin spends]
    BY DEF IdClosed, spends
  <2> HIDE DEF closed
  <2> QED BY <2>1, <2>2, <2>3 DEF IdTokenSet
<1> HIDE DEF t, closed, n, r
<1>8. /\ DOMAIN idTokens' = 1..n /\ 1..n = DOMAIN idTokens \cup {n} /\ n \notin DOMAIN idTokens
  BY <1>5, <1>6 DEF n
<1>9. /\ idTokens'[n] = t /\ \A k \in DOMAIN idTokens : idTokens'[k] = closed[k]
  BY <1>6, <1>8
<1>10. Cardinality(DOMAIN idTokens') = n
  <2>1. Cardinality(1..n) = n
    BY <1>5, FS_Interval
  <2> QED BY <2>1, <1>8
<1>11. idTokens' \in [DOMAIN idTokens' -> IdTokenSet]
  BY <1>4, <1>6, <1>7, <1>8, <1>9
<1>12. IdIdle \in IdStates /\ IdIdle.at = "idle" /\ idWork' = [idWork EXCEPT ![w] = IdIdle]
  BY <1>6 DEF IdStates, IdIdle, IdRefused
<1>13. IdTyped'
  BY <1>1, <1>5, <1>6, <1>8, <1>10, <1>11, <1>12 DEF IdTyped
<1>14. ASSUME NEW a PROVE IdResets(a)' = IdResets(a)
  <2>1. {k \in DOMAIN idTokens' : idTokens'[k].id = a /\ idTokens'[k].used}
        = {k \in DOMAIN idTokens : idTokens[k].id = a /\ idTokens[k].used}
    BY <1>4, <1>7, <1>8, <1>9
  <2> QED BY <2>1 DEF IdResets
<1>15. IdResetOnce'
  <2> SUFFICES ASSUME NEW k \in DOMAIN idTokens', idTokens'[k].open, NEW b, b = idTokens'[k].id
               PROVE  idTokens'[k].after = IdResets(b)'
    BY DEF IdResetOnce, IdResets
  <2>1. CASE k = n
    <3>1. b = r.id /\ idTokens'[k].after = IdResets(r.id)
      BY <2>1, <1>4, <1>9
    <3>2. IdResets(b)' = IdResets(b)
      BY <1>14
    <3> QED BY <3>1, <3>2
  <2>2. CASE k \in DOMAIN idTokens
    <3>1. idTokens'[k] = closed[k] /\ closed[k] \in IdTokenSet
      BY <2>2, <1>7, <1>9
    <3>2. closed[k].open = TRUE
      BY <3>1 DEF IdTokenSet
    <3>3. idTokens[k].open = TRUE /\ idTokens'[k].id = idTokens[k].id /\ idTokens'[k].after = idTokens[k].after
      BY <2>2, <3>1, <3>2, <1>7
    <3>4. idTokens[k].after = IdResets(idTokens[k].id)
      BY <1>1, <2>2, <3>3 DEF IdTables, IdResetOnce
    <3>5. IdResets(b)' = IdResets(b)
      BY <1>14
    <3> QED BY <3>3, <3>4, <3>5
  <2> QED BY <2>1, <2>2, <1>8
<1>16. IdUserIds' = IdUserIds /\ IdRoleHeld' = IdRoleHeld
  BY <1>6 DEF IdUserIds, IdRoleHeld
<1>17. \A k \in DOMAIN idTokens' : idTokens'[k].id \in IdUserIds'
  BY <1>1, <1>2, <1>4, <1>7, <1>8, <1>9, <1>16 DEF IdTables
<1>18. IdTables'
  BY <1>1, <1>6, <1>15, <1>16, <1>17 DEF IdTables, IdRowsAgree
<1>19. idWork'[w] = IdIdle
  BY <1>1, <1>12 DEF IdTyped
<1>20. IdKnows(w)'
  BY <1>12, <1>19 DEF IdKnows
<1>21. IdRequests'
  BY <1>6, <1>12, <1>13, <1>20, IdQuiet
<1> QED BY <1>13, <1>18, <1>21 DEF IdInv

\* A reset is confirmed: the token is used, and every open one of the user closed with it.
LEMMA IdConfirmInv ==
    ASSUME IdInv, NEW t \in DOMAIN idTokens, IdConfirm(t)
    PROVE  IdInv'
<1> DEFINE a == idTokens[t].id
<1> DEFINE spent == IdSpentByConfirm(t)
<1> DEFINE closed == IdClosed(spent)
<1>1. IdTyped /\ IdTables /\ IdRequests
  BY DEF IdInv
<1>2. a \in IdUserIds /\ a \in IdAccounts
  BY <1>1 DEF IdTables, IdUserIds
<1>3. /\ idUsers' = IdNewPassword(a) /\ idTokens' = [closed EXCEPT ![t].used = TRUE]
      /\ idWork' = [v \in IdWorkers |-> IF IdAt(v, "idle") THEN IdIdle ELSE [idWork[v] EXCEPT !.stale = TRUE]]
      /\ UNCHANGED <<idRoleActive, idSessions, idOverlapped>>
  BY DEF IdConfirm
<1>4. PICK x \in IdRowSet : /\ idUsers' = [idUsers EXCEPT ![a] = x]
                            /\ a = IdRoot => x.active = TRUE /\ x.role = "platform_admin"
                            /\ IdRowsAgree => IdFits(a, x)
  BY <1>2, <1>3, IdNewRow
<1>5. IdUserIds' = IdUserIds \cup {a} /\ idUsers' \in [IdAccounts -> IdRowSet \cup {IdNobody}]
  BY <1>1, <1>2, <1>4, IdWriteRow
<1>6. IdUserIds' = IdUserIds
  BY <1>2, <1>5
<1>7. \A v \in IdWorkers : IdKnows(v)' /\ idWork'[v] \in IdStates
  <2> SUFFICES ASSUME NEW v \in IdWorkers PROVE IdKnows(v)' /\ idWork'[v] \in IdStates
    OBVIOUS
  <2>1. idWork'[v] = IF IdAt(v, "idle") THEN IdIdle ELSE [idWork[v] EXCEPT !.stale = TRUE]
    BY <1>3
  <2>2. IdAt(v, "create") => idWork[v].id \notin IdUserIds'
    BY <1>1, <1>6 DEF IdRequests, IdKnows, IdAt
  <2> QED BY <1>6, <2>1, <2>2, IdOvertaken
<1>8. idWork' \in [IdWorkers -> IdStates]
  BY <1>3, <1>7
<1> HIDE DEF spent
<1>10. DOMAIN closed = DOMAIN idTokens
  BY DEF IdClosed
<1>9. ASSUME NEW k \in DOMAIN idTokens
      PROVE  /\ closed[k] \in IdTokenSet /\ closed[k].id = idTokens[k].id /\ closed[k].used = idTokens[k].used
             /\ closed[k].after = idTokens[k].after
             /\ closed[k].open = TRUE => idTokens[k].open = TRUE /\ k \notin spent
  <2>1. idTokens[k] \in IdTokenSet /\ idTokens[k].open \in BOOLEAN
    BY <1>1 DEF IdTyped, IdTokenSet
  <2>2. (idTokens[k].open /\ k \notin spent) \in BOOLEAN
    OBVIOUS
  <2>3. closed[k] = [idTokens[k] EXCEPT !.open = @ /\ k \notin spent]
    BY DEF IdClosed
  <2> HIDE DEF closed
  <2> QED BY <2>1, <2>2, <2>3 DEF IdTokenSet
<1> HIDE DEF closed
<1>11. ASSUME NEW k \in DOMAIN idTokens
       PROVE  /\ idTokens'[k] \in IdTokenSet /\ idTokens'[k].id = idTokens[k].id
              /\ idTokens'[k].after = idTokens[k].after /\ idTokens'[k].open = closed[k].open
              /\ k # t => idTokens'[k].used = idTokens[k].used
  <2>1. CASE k = t
    <3>1. idTokens'[k] = [closed[k] EXCEPT !.used = TRUE]
      BY <1>3, <1>10, <2>1
    <3>2. closed[k] \in IdTokenSet /\ closed[k].id = idTokens[k].id /\ closed[k].after = idTokens[k].after
      BY <1>9
    <3> QED BY <2>1, <3>1, <3>2 DEF IdTokenSet
  <2>2. CASE k # t
    <3>1. idTokens'[k] = closed[k]
      BY <1>3, <1>10, <2>2
    <3> QED BY <3>1, <1>9
  <2> QED BY <2>1, <2>2
<1>12. DOMAIN idTokens' = DOMAIN idTokens
  BY <1>3, <1>10
<1>13. idTokens' \in [DOMAIN idTokens' -> IdTokenSet]
  BY <1>3, <1>10, <1>11, <1>12
<1>14. IdTyped'
  BY <1>1, <1>3, <1>5, <1>8, <1>12, <1>13 DEF IdTyped
<1>15. ASSUME NEW b, b # a PROVE IdResets(b)' = IdResets(b)
  <2>1. {k \in DOMAIN idTokens' : idTokens'[k].id = b /\ idTokens'[k].used}
        = {k \in DOMAIN idTokens : idTokens[k].id = b /\ idTokens[k].used}
    BY <1>11, <1>12, <1>15
  <2> QED BY <2>1 DEF IdResets
<1>16. IdResetOnce'
  <2> SUFFICES ASSUME NEW k \in DOMAIN idTokens', idTokens'[k].open, NEW b, b = idTokens'[k].id
               PROVE  idTokens'[k].after = IdResets(b)'
    BY DEF IdResetOnce, IdResets
  <2>1. k \in DOMAIN idTokens /\ closed[k] \in IdTokenSet /\ closed[k].open
    BY <1>9, <1>11, <1>12
  <2>2. closed[k].open = TRUE
    BY <2>1 DEF IdTokenSet
  <2>3. idTokens[k].open = TRUE /\ k \notin spent
    BY <1>9, <2>1, <2>2
  <2>4. idTokens[k].id # a
    BY <2>1, <2>3 DEF IdSpentByConfirm, IdOpen, spent
  <2>5. idTokens[k].after = IdResets(idTokens[k].id)
    BY <1>1, <2>1, <2>3 DEF IdTables, IdResetOnce
  <2>6. b = idTokens[k].id /\ idTokens'[k].after = idTokens[k].after
    BY <1>11, <2>1
  <2>7. IdResets(b)' = IdResets(b)
    BY <1>15, <2>4, <2>6
  <2> QED BY <2>5, <2>6, <2>7
<1>17. \A k \in DOMAIN idTokens' : idTokens'[k].id \in IdUserIds'
  BY <1>1, <1>6, <1>11, <1>12 DEF IdTables
<1>18. /\ IdRoot \in IdUserIds' /\ idUsers'[IdRoot].active = TRUE /\ idUsers'[IdRoot].role = "platform_admin"
       /\ \A s \in idSessions' : s.id \in IdUserIds'
  BY <1>2, <1>3, <1>4, IdWriteTables
<1>19. idOverlapped' = FALSE => IdRowsAgree'
  BY <1>1, <1>2, <1>3, <1>4, IdFitsAgree DEF IdTables
<1>20. IdTables'
  BY <1>16, <1>17, <1>18, <1>19 DEF IdTables
<1>21. ASSUME NEW v \in IdWorkers, IdAt(v, "create")' PROVE IdAt(v, "create") /\ idWork'[v].id = idWork[v].id
  <2>1. ~IdAt(v, "idle")
    BY <1>3, <1>21 DEF IdAt, IdIdle
  <2>2. idWork'[v] = [idWork[v] EXCEPT !.stale = TRUE]
    BY <1>3, <2>1
  <2> QED BY <1>1, <1>21, <2>1, <2>2, IdStaled DEF IdAt
<1>22. IdRequests'
  BY <1>1, <1>7, <1>21 DEF IdRequests
<1> QED BY <1>14, <1>20, <1>22 DEF IdInv

\* The two bootstrapped identities, no session, no token and no request.
LEMMA IdInitInv == IdInit => IdInv
<1> SUFFICES ASSUME IdInit PROVE IdInv
  OBVIOUS
<1> DEFINE root == IdRow(IdBootEmail, "platform_admin")
<1> DEFINE first == IdRow(IdFirstEmail, "owner")
<1>1. /\ IdFirst \in IdPortal /\ IdPortal \cap IdStaff = {} /\ IdRoot \in IdStaff
      /\ IdBootEmail \in IdEmails /\ IdFirstEmail \in IdEmails /\ IdBootEmail # IdFirstEmail
  BY IdAssumption DEF IdStaff
<1>2. /\ root \in IdRowSet /\ first \in IdRowSet
      /\ root.exists = TRUE /\ first.exists = TRUE /\ root.active = TRUE /\ first.active = TRUE
      /\ root.email = IdBootEmail /\ first.email = IdFirstEmail
      /\ root.role = "platform_admin" /\ first.role = "owner"
  BY <1>1 DEF IdRow, IdRowSet
<1>3. IdNobody.exists = FALSE
  BY DEF IdNobody
<1>4. idUsers = [a \in IdAccounts |-> IF a = IdRoot THEN root ELSE IF a = IdFirst THEN first ELSE IdNobody]
  BY DEF IdInit
<1> HIDE DEF root, first
<1>5. IdFirst # IdRoot /\ IdFirst \in IdAccounts /\ IdRoot \in IdAccounts /\ IdFirst \notin IdStaff
  BY <1>1 DEF IdAccounts
<1>6. idUsers[IdRoot] = root /\ idUsers[IdFirst] = first
  BY <1>4, <1>5
<1>7. IdUserIds = {IdRoot, IdFirst}
  BY <1>2, <1>3, <1>4, <1>5, <1>6 DEF IdUserIds
<1>8. DOMAIN idTokens = {} /\ Cardinality(DOMAIN idTokens) = 0
  <2>1. DOMAIN idTokens = {}
    BY DEF IdInit
  <2> QED BY <2>1, FS_EmptySet
<1>9. IdIdle \in IdStates /\ IdIdle.at = "idle"
  BY DEF IdStates, IdIdle
<1>10. IdTyped
  <2>1. idUsers \in [IdAccounts -> IdRowSet \cup {IdNobody}]
    BY <1>2, <1>4
  <2>2. DOMAIN idTokens = 1..Cardinality(DOMAIN idTokens) /\ idTokens \in [DOMAIN idTokens -> IdTokenSet]
    BY <1>8 DEF IdInit
  <2>3. idWork \in [IdWorkers -> IdStates]
    BY <1>9 DEF IdInit
  <2>4. idRoleActive \in BOOLEAN /\ idOverlapped \in BOOLEAN /\ idSessions \subseteq IdCookies
    BY DEF IdInit
  <2>5. Cardinality(DOMAIN idTokens) \in Nat
    BY <1>8
  <2> QED BY <2>1, <2>2, <2>3, <2>4, <2>5 DEF IdTyped
<1>11. IdRowsAgree
  <2>1. \A a, b \in IdUserIds : idUsers[a].email = idUsers[b].email => a = b
    BY <1>1, <1>2, <1>6, <1>7
  <2>2. IdFirst \in IdUserIds \cap IdPortal /\ IdOwns(idUsers[IdFirst])
    BY <1>1, <1>2, <1>6, <1>7 DEF IdOwns
  <2> QED BY <2>1, <2>2 DEF IdRowsAgree, IdInit
<1>12. IdTables
  BY <1>2, <1>6, <1>7, <1>8, <1>11 DEF IdTables, IdResetOnce, IdInit
<1>13. \A w \in IdWorkers : idWork[w].at = "idle"
  BY <1>9 DEF IdInit
<1>14. IdRequests
  BY <1>13 DEF IdRequests, IdKnows, IdAt
<1> QED BY <1>10, <1>12, <1>14 DEF IdInv

\* Every step keeps the invariant of the identities.
LEMMA IdStepInv == IdInv /\ [IdStep]_idVars => IdInv'
<1> SUFFICES ASSUME IdInv, [IdStep]_idVars PROVE IdInv'
  OBVIOUS
<1>1. CASE UNCHANGED idVars
  BY <1>1 DEF IdInv, IdTyped, IdTables, IdRequests, IdRowsAgree, IdResetOnce, IdResets, IdKnows, IdRelies, IdTaken,
              IdUsed, IdRoleKnown, IdRoleHeld, IdAllowed, IdLastOwner, IdUserIds, IdAt, idVars
<1>2. CASE \E a \in IdAccounts : IdSignIn(a)
  BY <1>2, IdSignInInv
<1>3. CASE \E t \in DOMAIN idTokens : IdConfirm(t)
  BY <1>3, IdConfirmInv
<1>4. ASSUME NEW w \in IdWorkers,
             \E a \in IdAccounts, email \in IdEmails, role \in {"ops", "custom", "owner", "viewer"} :
                IdCreate(w, a, email, role)
      PROVE  IdInv'
  BY <1>4, IdCreateInv
<1>5. ASSUME NEW w \in IdWorkers, \E a \in IdUserIds : \E p \in IdPatches(a) : IdPatch(w, a, p[1], p[2])
      PROVE  IdInv'
  BY <1>5, IdPatchInv
<1>6. ASSUME NEW w \in IdWorkers, \E a \in IdUserIds, email \in IdEmails : IdProfile(w, a, email)
      PROVE  IdInv'
  BY <1>6, IdProfileInv
<1>7. ASSUME NEW w \in IdWorkers, \E active \in BOOLEAN : IdRoleSwitch(w, active) \/ IdResetCommit(w, active)
      PROVE  IdInv'
  BY <1>7, IdRoleSwitchInv, IdResetCommitInv
<1>8. ASSUME NEW w \in IdWorkers, \E a \in IdUserIds : IdPassword(w, a) \/ IdReset(w, a)
      PROVE  IdInv'
  BY <1>8, IdPasswordInv
<1>9. ASSUME NEW w \in IdWorkers,
             IdInsert(w) \/ IdWrite(w) \/ IdProfileWrite(w) \/ IdRoleWrite(w) \/ IdPasswordWrite(w) \/ IdPasswordIssue(w)
      PROVE  IdInv'
  BY <1>9, IdInsertInv, IdWriteBackInv, IdProfileWriteInv, IdRoleWriteInv, IdPasswordWriteInv, IdPasswordIssueInv
<1> QED BY <1>1, <1>2, <1>3, <1>4, <1>5, <1>6, <1>7, <1>8, <1>9 DEF IdStep

\* Under overlapping requests (adminUser, updatePartnerUserRecord, profile, adminRole,
\* passwordResetRequest and Confirm), a session ends with the password, role or state it
\* rested on, an e-mail has one user, an owner is left and a held role stays active, each
\* unless a change was written over one it had not seen; and a reset link works once.
THEOREM SessionsEndWithTheirGround == IdSpec => []IdentitiesSafe
<1>1. ASSUME IdInv PROVE IdentitiesSafe
  <2>1. IdTyped /\ IdTables
    BY <1>1 DEF IdInv
  <2>2. idOverlapped \in BOOLEAN /\ idRoleActive \in BOOLEAN
    BY <2>1 DEF IdTyped
  <2>3. idOverlapped = FALSE => IdOldSessionsEnd /\ IdEmailOnce /\ IdRoleUsable
    BY <2>1, <2>2 DEF IdTables, IdRowsAgree, IdOldSessionsEnd, IdEmailOnce, IdRoleUsable, IdAccepted, IdRoleHeld
  <2>4. idOverlapped = TRUE => IdOldSessionsEnd /\ IdEmailOnce /\ IdRoleUsable
    BY DEF IdOldSessionsEnd, IdEmailOnce, IdRoleUsable
  <2>5. IdOwnerLeft
    BY <2>1, <2>2 DEF IdTables, IdRowsAgree, IdOwnerLeft
  <2> QED BY <2>1, <2>2, <2>3, <2>4, <2>5 DEF IdentitiesSafe, IdTables
<1> QED BY <1>1, IdInitInv, IdStepInv, PTL DEF IdSpec

-----------------------------------------------------------------------------
(* The sign-in of an account: SignIn. *)

SiEntryType     == [fails : Nat, start : Nat, until : Nat]
SiChallengeType == [setup : BOOLEAN, used : BOOLEAN, wrong : Nat, sessions : Nat]
SiWorks ==
    {SiIdle}
    \cup [at : {"tried", "verify"}, key : SiKeys, now : Nat]
    \cup [at : {"spend", "open"}, setup : BOOLEAN]

\* The map is bounded, and nothing in it or about to be written to it is of the future.
SiThrottleInv ==
    /\ siClock \in Nat /\ siWork \in [SiWorkers -> SiWorks]
    /\ IsFiniteSet(SiEntries) /\ Cardinality(SiEntries) <= SiMaxEntries
    /\ \A k \in SiEntries : siAttempts[k] \in SiEntryType /\ siAttempts[k].start <= siClock
    /\ \A w \in SiWorkers : siWork[w].at \in {"tried", "verify"} => siWork[w].now <= siClock

\* A challenge that is not used up has made no session.
SiChallengeOk(c) ==
    /\ siChallenges[c] \in SiChallengeType
    /\ siChallenges[c].sessions <= 1 /\ (siChallenges[c].used = FALSE => siChallenges[c].sessions = 0)
    /\ siChallenges[c].wrong >= SiMaxCodes => siChallenges[c].sessions = 0
\* As long as no two sign-ins overlapped, one at a time opens a challenge, which is then the
\* only one that is not used up; once the secret is there, none sets it up again.
SiAlone ==
    /\ \A v, w \in SiSigning : v = w
    /\ \A w \in SiWorkers : siWork[w].at = "open" => \A c \in SiIds : siChallenges[c].used = TRUE
    /\ \A c, d \in SiIds : siChallenges[c].used = FALSE /\ siChallenges[d].used = FALSE => c = d
    /\ siSecret # 0 =>
          /\ \A c \in SiIds : siChallenges[c].setup = TRUE => siChallenges[c].used = TRUE
          /\ \A w \in SiSigning : siWork[w].setup = FALSE
SiFactorInv ==
    /\ siWork \in [SiWorkers -> SiWorks]
    /\ \E n \in Nat : SiIds = 1..n
    /\ \A c \in SiIds : SiChallengeOk(c)
    /\ siOverlapped \in BOOLEAN
    /\ siOverlapped = FALSE => SiAlone
SiInv == SiThrottleInv /\ SiFactorInv

\* At the start nobody has tried, and there is no challenge.
LEMMA SiInvInit == SiInit => SiInv
<1>1. SUFFICES ASSUME SiInit PROVE SiInv OBVIOUS
<1>2. siAttempts = <<>> /\ siChallenges = <<>> /\ siClock = 0 /\ siWork = [w \in SiWorkers |-> SiIdle] /\ siSecret = 0
    BY <1>1 DEF SiInit
<1>3. siOverlapped = FALSE BY <1>1, Zenon DEF SiInit
<1>4. SiEntries = {} /\ SiIds = {} BY <1>2 DEF SiEntries, SiIds
<1>5. siWork \in [SiWorkers -> SiWorks] /\ \A w \in SiWorkers : siWork[w].at = "idle" BY <1>2 DEF SiWorks, SiIdle
<1>6. SiThrottleInv
    <2>1. IsFiniteSet(SiEntries) /\ Cardinality(SiEntries) = 0 BY <1>4, FS_EmptySet
    <2> QED BY <1>2, <1>4, <1>5, <2>1, SiAssumption DEF SiThrottleInv, SiAssumption
<1>7. SiFactorInv
    <2>1. SiIds = 1..0 BY <1>4
    <2>2. SiSigning = {} BY <1>5 DEF SiSigning
    <2>3. siOverlapped \in BOOLEAN BY <1>3, Zenon
    <2> QED BY <1>2, <1>4, <1>5, <2>1, <2>2, <2>3 DEF SiFactorInv, SiAlone
<1> QED BY <1>6, <1>7 DEF SiInv

\* What a step of one attempt does to the others.
LEMMA SiGoIs ==
    ASSUME siWork \in [SiWorkers -> SiWorks], NEW w \in SiWorkers, NEW x \in SiWorks, SiGo(w, x)
    PROVE  siWork' \in [SiWorkers -> SiWorks] /\ \A v \in SiWorkers : siWork'[v] = IF v = w THEN x ELSE siWork[v]
BY DEF SiGo

\* What an attempt may rely on.
LEMMA SiWorkIs ==
    ASSUME siWork \in [SiWorkers -> SiWorks], NEW w \in SiWorkers
    PROVE  /\ siWork[w] \in SiWorks
           /\ siWork[w].at \in {"tried", "verify"} =>
                 siWork[w] \in [at : {"tried", "verify"}, key : SiKeys, now : Nat]
           /\ siWork[w].at \in {"spend", "open"} => siWork[w] \in [at : {"spend", "open"}, setup : BOOLEAN]
BY DEF SiWorks, SiIdle

\* A map without some keys.
LEMMA SiWithoutIs ==
    ASSUME NEW map, NEW keys
    PROVE  /\ DOMAIN SiWithout(map, keys) = DOMAIN map \ keys
           /\ \A k \in DOMAIN map \ keys : SiWithout(map, keys)[k] = map[k]
BY DEF SiWithout

\* Making room takes entries out only of a map in which nothing has ended, and no more than
\* one of a map that is within its limit.
LEMMA SiPruning ==
    ASSUME SiThrottleInv, NEW now, NEW out, SiPrunes(now, out), NEW k \in out
    PROVE  SiEnded(now) = {} /\ out = {k}
<1>1. PICK left, kept : left = SiEntries \ SiEnded(now) /\ kept = left \ out OBVIOUS
<1>2. /\ out \subseteq left /\ Cardinality(kept) < SiMaxEntries
      /\ \A j \in out : ~(Cardinality(kept \cup {j}) < SiMaxEntries)
    BY <1>1 DEF SiPrunes, SiRoom
<1>3. IsFiniteSet(SiEntries) /\ Cardinality(SiEntries) <= SiMaxEntries BY DEF SiThrottleInv
<1>4. kept \cup {k} \subseteq SiEntries BY <1>1, <1>2
<1>5. /\ Cardinality(kept \cup {k}) <= Cardinality(SiEntries)
      /\ Cardinality(SiEntries) = Cardinality(kept \cup {k}) => SiEntries = kept \cup {k}
    BY <1>3, <1>4, FS_Subset
<1>6. Cardinality(kept \cup {k}) \in Nat /\ Cardinality(SiEntries) \in Nat /\ SiMaxEntries \in Nat
    <2>1. IsFiniteSet(kept \cup {k}) BY <1>3, <1>4, FS_Subset
    <2> QED BY <1>3, <2>1, FS_CardinalityType, SiAssumption DEF SiAssumption
<1>7. Cardinality(SiEntries) = Cardinality(kept \cup {k}) BY <1>2, <1>3, <1>5, <1>6
<1>8. SiEntries = kept \cup {k} BY <1>5, <1>7
<1>9. out = {k} BY <1>1, <1>2, <1>8
<1>10. SiEnded(now) = {}
    <2>1. SiEnded(now) \subseteq SiEntries BY DEF SiEnded
    <2> QED BY <1>1, <1>2, <1>8, <2>1
<1> QED BY <1>9, <1>10

\* A step that leaves the map, or takes entries out of it, keeps the throttle's part.
LEMMA SiThrottleStays ==
    ASSUME SiThrottleInv, siWork' \in [SiWorkers -> SiWorks], siClock' \in Nat, siClock <= siClock',
           DOMAIN siAttempts' \subseteq DOMAIN siAttempts, \A k \in DOMAIN siAttempts' : siAttempts'[k] = siAttempts[k],
           \A w \in SiWorkers : siWork'[w].at \in {"tried", "verify"} =>
               \/ siWork[w].at \in {"tried", "verify"} /\ siWork'[w].now = siWork[w].now
               \/ siWork'[w].now = siClock
    PROVE  SiThrottleInv'
<1>1. siClock \in Nat BY DEF SiThrottleInv
<1>2. IsFiniteSet(DOMAIN siAttempts) /\ Cardinality(DOMAIN siAttempts) <= SiMaxEntries BY DEF SiThrottleInv, SiEntries
<1>3. IsFiniteSet(DOMAIN siAttempts') /\ Cardinality(DOMAIN siAttempts') <= Cardinality(DOMAIN siAttempts)
    BY <1>2, FS_Subset
<1>4. Cardinality(DOMAIN siAttempts') <= SiMaxEntries
    <2>1. Cardinality(DOMAIN siAttempts') \in Nat /\ Cardinality(DOMAIN siAttempts) \in Nat /\ SiMaxEntries \in Nat
        BY <1>2, <1>3, FS_CardinalityType, SiAssumption DEF SiAssumption
    <2> QED BY <1>2, <1>3, <2>1
<1>5. ASSUME NEW k \in DOMAIN siAttempts' PROVE siAttempts'[k] \in SiEntryType /\ siAttempts'[k].start <= siClock'
    <2>1. siAttempts[k] \in SiEntryType /\ siAttempts[k].start <= siClock BY <1>5 DEF SiThrottleInv, SiEntries
    <2>2. siAttempts[k].start \in Nat BY <2>1 DEF SiEntryType
    <2> QED BY <1>1, <1>5, <2>1, <2>2
<1>6. ASSUME NEW w \in SiWorkers, siWork'[w].at \in {"tried", "verify"} PROVE siWork'[w].now <= siClock'
    <2>1. siWork'[w].now \in Nat
        <3>1. PICK x : x = siWork'[w] OBVIOUS
        <3>2. x \in SiWorks BY <3>1
        <3>3. x.now \in Nat BY <1>6, <3>1, <3>2 DEF SiWorks, SiIdle
        <3> QED BY <3>1, <3>3
    <2>2. siWork'[w].now <= siClock BY <1>6, <1>1 DEF SiThrottleInv
    <2> QED BY <1>1, <2>1, <2>2
<1> QED BY <1>3, <1>4, <1>5, <1>6 DEF SiThrottleInv, SiEntries

\* A step of the throttle leaves what there is of the second factor.
LEMMA SiFactorStays ==
    ASSUME SiFactorInv, siWork' \in [SiWorkers -> SiWorks], UNCHANGED <<siSecret, siChallenges, siOverlapped>>,
           \A w \in SiWorkers : siWork'[w].at \in {"spend", "open"} => siWork'[w] = siWork[w]
    PROVE  SiFactorInv'
<1>1. SiSigning' \subseteq SiSigning BY DEF SiSigning
<1>2. siOverlapped = FALSE => SiAlone' BY <1>1 DEF SiFactorInv, SiAlone, SiIds, SiSigning
<1> QED BY <1>2 DEF SiFactorInv, SiIds, SiChallengeOk


\* Time passes.
LEMMA SiTickStep ==
    ASSUME SiInv, SiTick
    PROVE  SiInv'
<1>1. SiThrottleInv /\ SiFactorInv /\ siClock' = siClock + 1
      /\ UNCHANGED <<siAttempts, siSecret, siChallenges, siWork, siOverlapped>>
    BY DEF SiInv, SiTick
<1>2. siClock' \in Nat /\ siClock <= siClock' /\ siWork' \in [SiWorkers -> SiWorks] BY <1>1 DEF SiThrottleInv
<1>3. SiThrottleInv' BY <1>1, <1>2, SiThrottleStays
<1>4. SiFactorInv' BY <1>1, <1>2, SiFactorStays
<1> QED BY <1>3, <1>4 DEF SiInv

\* An attempt begins; the entry of its key goes only if it is neither blocked nor of now.
LEMMA SiTryStep ==
    ASSUME SiInv, NEW w \in SiWorkers, NEW k \in SiKeys, SiTry(w, k)
    PROVE  SiInv' /\ \A j \in SiEntries : SiBlocked(siAttempts[j], siClock) => j \in SiEntries'
<1>1. SiThrottleInv /\ SiFactorInv /\ siClock \in Nat /\ UNCHANGED <<siClock, siSecret, siChallenges, siOverlapped>>
    BY DEF SiInv, SiTry, SiThrottleInv
<1>2. PICK x : x = [at |-> "tried", key |-> k, now |-> siClock] OBVIOUS
<1>3. x \in SiWorks BY <1>1, <1>2 DEF SiWorks
<1>4. siWork' \in [SiWorkers -> SiWorks]
      /\ \A v \in SiWorkers : siWork'[v] = siWork[v] \/ siWork'[v] = x
    <2>1. CASE siWork' = siWork BY <1>1, <2>1 DEF SiThrottleInv
    <2>2. CASE SiGo(w, x) BY <1>1, <1>3, <2>2, SiGoIs DEF SiThrottleInv
    <2> QED BY <1>2, <2>1, <2>2 DEF SiTry
<1>5. DOMAIN siAttempts' \subseteq DOMAIN siAttempts /\ (\A j \in DOMAIN siAttempts' : siAttempts'[j] = siAttempts[j])
      /\ \A j \in DOMAIN siAttempts : SiBlocked(siAttempts[j], siClock) => j \in DOMAIN siAttempts'
    <2>1. CASE siAttempts' = siAttempts BY <2>1
    <2>2. CASE siAttempts' = SiWithout(siAttempts, {k}) /\ ~SiBlocked(siAttempts[k], siClock)
        <3>1. DOMAIN siAttempts' = DOMAIN siAttempts \ {k} BY <2>2, SiWithoutIs
        <3>2. \A j \in DOMAIN siAttempts \ {k} : siAttempts'[j] = siAttempts[j] BY <2>2, SiWithoutIs
        <3> QED BY <2>2, <3>1, <3>2
    <2> QED BY <2>1, <2>2 DEF SiTry, SiEntries
<1>6. SiThrottleInv' BY <1>1, <1>2, <1>4, <1>5, SiThrottleStays
<1>7. SiFactorInv' BY <1>1, <1>2, <1>4, SiFactorStays
<1> QED BY <1>5, <1>6, <1>7 DEF SiInv, SiEntries

\* Counting a failure makes an entry of now.
LEMMA SiCountedIs ==
    ASSUME NEW e \in SiEntryType, NEW now \in Nat, NEW clock \in Nat, now <= clock, e.start <= clock
    PROVE  SiCounted(e, now) \in SiEntryType /\ SiCounted(e, now).start <= clock
<1>1. SiBlock \in Nat BY SiAssumption DEF SiAssumption
<1>2. PICK f : f = IF SiStale(e, now) THEN SiFreshEntry(now) ELSE e OBVIOUS
<1>3. f \in SiEntryType /\ f.start <= clock BY <1>2 DEF SiFreshEntry, SiEntryType
<1>4. CASE f.fails + 1 < SiLimit
    <2>1. SiCounted(e, now) = [f EXCEPT !.fails = @ + 1] BY <1>2, <1>4 DEF SiCounted
    <2> QED BY <1>3, <2>1 DEF SiEntryType
<1>5. CASE ~(f.fails + 1 < SiLimit)
    <2>1. SiCounted(e, now) = [fails |-> 0, start |-> now, until |-> now + SiBlock] BY <1>2, <1>5 DEF SiCounted
    <2> QED BY <1>1, <2>1 DEF SiEntryType
<1> QED BY <1>4, <1>5

\* A failure is recorded.
LEMMA SiFailIs ==
    ASSUME SiThrottleInv, NEW w \in SiWorkers, SiFail(w)
    PROVE  \E k, now, out, kept :
               /\ siWork[w].key = k /\ now = siWork[w].now /\ now \in Nat /\ now <= siClock
               /\ SiPrunes(now, out) /\ kept = SiWithout(siAttempts, SiEnded(now) \cup out)
               /\ siAttempts' = SiWith(kept, k, SiCounted(IF k \in DOMAIN kept THEN kept[k] ELSE SiFreshEntry(now), now))
<1>1. siWork[w].at \in {"tried", "verify"} /\ siWork \in [SiWorkers -> SiWorks] BY DEF SiFail, SiThrottleInv
<1>2. siWork[w].now \in Nat BY <1>1, SiWorkIs
<1>3. siWork[w].now <= siClock BY <1>1 DEF SiThrottleInv
<1>4. PICK k, now : k = siWork[w].key /\ now = siWork[w].now OBVIOUS
<1>5. PICK out : /\ SiPrunes(now, out)
                 /\ LET kept == SiWithout(siAttempts, SiEnded(now) \cup out)
                    IN  siAttempts' = SiWith(kept, k, SiCounted(IF k \in DOMAIN kept THEN kept[k] ELSE SiFreshEntry(now), now))
    BY <1>4 DEF SiFail
<1>6. PICK kept : kept = SiWithout(siAttempts, SiEnded(now) \cup out) OBVIOUS
<1> QED BY <1>2, <1>3, <1>4, <1>5, <1>6

\* Counting a failed attempt keeps the bound of the map.
LEMMA SiFailStep ==
    ASSUME SiInv, NEW w \in SiWorkers, SiFail(w)
    PROVE  SiInv'
<1>0. SiThrottleInv /\ SiFactorInv /\ siClock \in Nat /\ siWork \in [SiWorkers -> SiWorks] /\ SiMaxEntries \in Nat
      /\ UNCHANGED <<siClock, siSecret, siChallenges, siOverlapped>> /\ SiGo(w, SiIdle)
    BY SiAssumption DEF SiInv, SiThrottleInv, SiFail, SiAssumption
<1>1. PICK k, now, out, kept :
               /\ siWork[w].key = k /\ now = siWork[w].now /\ now \in Nat /\ now <= siClock
               /\ SiPrunes(now, out) /\ kept = SiWithout(siAttempts, SiEnded(now) \cup out)
               /\ siAttempts' = SiWith(kept, k, SiCounted(IF k \in DOMAIN kept THEN kept[k] ELSE SiFreshEntry(now), now))
    BY <1>0, SiFailIs
<1>2. SiIdle \in SiWorks /\ SiIdle.at = "idle" BY DEF SiWorks, SiIdle
<1>3. siWork' \in [SiWorkers -> SiWorks] /\ \A v \in SiWorkers : siWork'[v] = IF v = w THEN SiIdle ELSE siWork[v]
    BY <1>0, <1>2, SiGoIs
<1>4. DOMAIN kept = SiEntries \ (SiEnded(now) \cup out) /\ \A j \in DOMAIN kept : kept[j] = siAttempts[j]
    <2>1. PICK gone : gone = SiEnded(now) \cup out OBVIOUS
    <2>2. DOMAIN kept = DOMAIN siAttempts \ gone BY <1>1, <2>1, SiWithoutIs
    <2>3. kept = SiWithout(siAttempts, gone) BY <1>1, <2>1
    <2>4. \A j \in DOMAIN siAttempts \ gone : kept[j] = siAttempts[j] BY <2>3 DEF SiWithout
    <2> QED BY <2>1, <2>2, <2>4 DEF SiEntries
<1>5. IsFiniteSet(DOMAIN kept) /\ Cardinality(DOMAIN kept) < SiMaxEntries
    <2>1. IsFiniteSet(SiEntries) BY <1>0 DEF SiThrottleInv
    <2>2. IsFiniteSet(DOMAIN kept) BY <1>4, <2>1, FS_Subset
    <2>3. DOMAIN kept = (SiEntries \ SiEnded(now)) \ out BY <1>4
    <2> QED BY <1>1, <2>2, <2>3 DEF SiPrunes, SiRoom
<1>6. PICK e : e = SiCounted(IF k \in DOMAIN kept THEN kept[k] ELSE SiFreshEntry(now), now) OBVIOUS
<1>7. e \in SiEntryType /\ e.start <= siClock
    <2>1. PICK d : d = IF k \in DOMAIN kept THEN kept[k] ELSE SiFreshEntry(now) OBVIOUS
    <2>2. CASE k \in DOMAIN kept
        <3>1. d = siAttempts[k] /\ k \in SiEntries BY <1>4, <2>1, <2>2
        <3>2. d \in SiEntryType /\ d.start <= siClock BY <1>0, <3>1 DEF SiThrottleInv
        <3> QED BY <1>0, <1>1, <1>6, <2>1, <3>2, SiCountedIs
    <2>3. CASE k \notin DOMAIN kept
        <3>1. d \in SiEntryType /\ d.start <= siClock BY <1>1, <2>1, <2>3 DEF SiFreshEntry, SiEntryType
        <3> QED BY <1>0, <1>1, <1>6, <2>1, <3>1, SiCountedIs
    <2> QED BY <2>2, <2>3
<1>8. siAttempts' = SiWith(kept, k, e) BY <1>1, <1>6
<1>9. DOMAIN siAttempts' = DOMAIN kept \cup {k} /\ \A j \in DOMAIN siAttempts' : siAttempts'[j] = IF j = k THEN e ELSE kept[j]
    BY <1>8 DEF SiWith
<1>10. IsFiniteSet(DOMAIN siAttempts') /\ Cardinality(DOMAIN siAttempts') <= SiMaxEntries
    <2>1. PICK D : D = DOMAIN kept \cup {k} OBVIOUS
    <2>2. IsFiniteSet(D) /\ Cardinality(D) = IF k \in DOMAIN kept THEN Cardinality(DOMAIN kept) ELSE Cardinality(DOMAIN kept) + 1
        BY <1>5, <2>1, FS_AddElement
    <2>3. Cardinality(DOMAIN kept) \in Nat BY <1>5, FS_CardinalityType
    <2>4. Cardinality(D) <= SiMaxEntries BY <1>0, <1>5, <2>2, <2>3
    <2> QED BY <1>9, <2>1, <2>2, <2>4
<1>11. \A j \in DOMAIN siAttempts' : siAttempts'[j] \in SiEntryType /\ siAttempts'[j].start <= siClock
    BY <1>0, <1>4, <1>7, <1>9 DEF SiThrottleInv
<1>12. \A v \in SiWorkers : siWork'[v].at \in {"tried", "verify"} => siWork'[v].now <= siClock
    BY <1>0, <1>2, <1>3 DEF SiThrottleInv
<1>13. SiThrottleInv' BY <1>0, <1>3, <1>10, <1>11, <1>12 DEF SiThrottleInv, SiEntries
<1>14. SiFactorInv' BY <1>0, <1>2, <1>3, SiFactorStays
<1> QED BY <1>13, <1>14 DEF SiInv

\* A failure frees a blocked key only from a map of blocks.
LEMMA SiFailBlocks ==
    ASSUME SiThrottleInv, NEW w \in SiWorkers, SiFail(w),
           NEW k \in SiEntries, SiBlocked(siAttempts[k], siClock), k \notin SiEntries', NEW j \in SiEntries
    PROVE  siAttempts[j].until > 0
<1>1. PICK own, now, out, kept :
               /\ siWork[w].key = own /\ now = siWork[w].now /\ now \in Nat /\ now <= siClock
               /\ SiPrunes(now, out) /\ kept = SiWithout(siAttempts, SiEnded(now) \cup out)
               /\ siAttempts' = SiWith(kept, own, SiCounted(IF own \in DOMAIN kept THEN kept[own] ELSE SiFreshEntry(now), now))
    BY SiFailIs
<1>2. DOMAIN kept = SiEntries \ (SiEnded(now) \cup out) BY <1>1, SiWithoutIs DEF SiEntries
<1>3. SiEntries' = DOMAIN kept \cup {own} BY <1>1 DEF SiEntries, SiWith
<1>4. siClock \in Nat /\ siAttempts[k] \in SiEntryType /\ siAttempts[k].start <= siClock
      /\ siAttempts[j] \in SiEntryType /\ siAttempts[j].start <= siClock
    BY DEF SiThrottleInv
<1>5. /\ siAttempts[k].start \in Nat /\ siAttempts[k].until \in Nat
      /\ siAttempts[j].start \in Nat /\ siAttempts[j].until \in Nat
    BY <1>4 DEF SiEntryType
<1>6. siClock < siAttempts[k].until BY DEF SiBlocked
<1>7. SiBlocked(siAttempts[k], now) BY <1>1, <1>4, <1>5, <1>6 DEF SiBlocked
<1>8. k \notin SiEnded(now) BY <1>7 DEF SiEnded
<1>9. k \in out BY <1>2, <1>3, <1>8
<1>10. SiEnded(now) = {} /\ out = {k} BY <1>1, <1>9, SiPruning
<1>11. CASE j = k BY <1>4, <1>5, <1>6, <1>11
<1>12. CASE j # k
    <2>1. j \in (SiEntries \ SiEnded(now)) \ out BY <1>10, <1>12
    <2>2. SiLastRelevant(siAttempts[k]) <= SiLastRelevant(siAttempts[j]) BY <1>1, <1>9, <2>1 DEF SiPrunes
    <2>3. SiLastRelevant(siAttempts[k]) = siAttempts[k].until BY <1>4, <1>5, <1>6 DEF SiLastRelevant
    <2>4. siAttempts[j].until > siAttempts[j].start
        <3>1. SUFFICES ASSUME ~(siAttempts[j].until > siAttempts[j].start) PROVE FALSE OBVIOUS
        <3>2. SiLastRelevant(siAttempts[j]) = siAttempts[j].start BY <3>1 DEF SiLastRelevant
        <3> QED BY <1>4, <1>5, <1>6, <2>2, <2>3, <3>2
    <2> QED BY <1>5, <2>4
<1> QED BY <1>11, <1>12


\* A right password is the first of an attempt, or overlaps another.
LEMMA SiPasswordStep ==
    ASSUME SiInv, NEW w \in SiWorkers, SiPassword(w)
    PROVE  SiInv'
<1>1. SiThrottleInv /\ SiFactorInv /\ siWork \in [SiWorkers -> SiWorks] /\ siClock \in Nat
      /\ UNCHANGED <<siClock, siAttempts, siSecret, siChallenges>>
    BY DEF SiInv, SiPassword, SiThrottleInv
<1>2. PICK x, first : x = [at |-> "spend", setup |-> first] /\ first = (siSecret = 0) OBVIOUS
<1>3. first \in BOOLEAN /\ (siSecret # 0 => first = FALSE)
    <2>1. (siSecret = 0) \in BOOLEAN /\ (siSecret # 0 => (siSecret = 0) = FALSE) OBVIOUS
    <2> QED BY <1>2, <2>1, Zenon
<1>4. x \in SiWorks /\ x.at = "spend" /\ x.setup = first BY <1>2, <1>3 DEF SiWorks
<1>5. siWork' \in [SiWorkers -> SiWorks] /\ \A v \in SiWorkers : siWork'[v] = IF v = w THEN x ELSE siWork[v]
    BY <1>1, <1>2, <1>4, SiGoIs DEF SiPassword
<1>6. siOverlapped' \in BOOLEAN /\ (siOverlapped' = FALSE => siOverlapped = FALSE /\ SiSigning = {})
    <2>1. siOverlapped' = (siOverlapped \/ SiSigning # {}) /\ siOverlapped \in BOOLEAN BY <1>1 DEF SiPassword, SiFactorInv
    <2> QED BY <2>1, Zenon
<1>7. SiThrottleInv' BY <1>1, <1>4, <1>5, SiThrottleStays
<1>8. ASSUME siOverlapped' = FALSE PROVE SiAlone'
    <2>1. SiAlone /\ SiSigning = {} BY <1>1, <1>6, <1>8 DEF SiFactorInv
    <2>2. \A v \in SiWorkers : siWork'[v].at \in {"spend", "open"} => v = w BY <1>5, <2>1 DEF SiSigning
    <2>3. \A v \in SiSigning' : v = w BY <2>2 DEF SiSigning
    <2>4. \A v \in SiWorkers : siWork'[v].at # "open" BY <1>4, <1>5, <2>2
    <2> QED BY <1>1, <1>3, <1>4, <1>5, <2>1, <2>3, <2>4 DEF SiAlone, SiIds
<1>9. SiFactorInv' BY <1>1, <1>5, <1>6, <1>8 DEF SiFactorInv, SiIds, SiChallengeOk
<1> QED BY <1>7, <1>9 DEF SiInv

\* The open challenges are used up.
LEMMA SiSpendStep ==
    ASSUME SiInv, NEW w \in SiWorkers, SiSpend(w)
    PROVE  SiInv'
<1>1. SiThrottleInv /\ SiFactorInv /\ siWork \in [SiWorkers -> SiWorks] /\ siClock \in Nat
      /\ UNCHANGED <<siClock, siAttempts, siSecret, siOverlapped>>
    BY DEF SiInv, SiSpend, SiThrottleInv
<1>2. PICK x : x = [siWork[w] EXCEPT !.at = "open"] OBVIOUS
<1>3. siWork[w] \in [at : {"spend", "open"}, setup : BOOLEAN] BY <1>1, SiWorkIs DEF SiSpend, SiAt
<1>4. x \in SiWorks /\ x.at = "open" /\ x.setup = siWork[w].setup BY <1>2, <1>3 DEF SiWorks
<1>5. siWork' \in [SiWorkers -> SiWorks] /\ \A v \in SiWorkers : siWork'[v] = IF v = w THEN x ELSE siWork[v]
    BY <1>1, <1>2, <1>4, SiGoIs DEF SiSpend
<1>6. SiThrottleInv' BY <1>1, <1>4, <1>5, SiThrottleStays
<1>7. SiIds' = SiIds /\ \A c \in SiIds : siChallenges'[c] = [siChallenges[c] EXCEPT !.used = TRUE] BY DEF SiSpend, SiIds
<1>8. ASSUME NEW c \in SiIds
      PROVE  siChallenges'[c].used = TRUE /\ SiChallengeOk(c)'
    <2>1. PICK d, e : d = siChallenges[c] /\ e = siChallenges'[c] OBVIOUS
    <2>2. d \in SiChallengeType /\ d.sessions <= 1 /\ (d.wrong >= SiMaxCodes => d.sessions = 0)
        BY <1>1, <2>1 DEF SiFactorInv, SiChallengeOk
    <2>3. e \in SiChallengeType /\ e.used = TRUE /\ e.sessions = d.sessions /\ e.wrong = d.wrong
        BY <1>7, <2>1, <2>2 DEF SiChallengeType
    <2> QED BY <2>1, <2>2, <2>3 DEF SiChallengeOk
<1>9. SiSigning' = SiSigning BY <1>3, <1>4, <1>5 DEF SiSigning
<1>10. ASSUME siOverlapped = FALSE PROVE SiAlone'
    <2>1. SiAlone BY <1>1, <1>10 DEF SiFactorInv
    <2>2. \A v \in SiSigning : siWork'[v].setup = siWork[v].setup BY <1>4, <1>5 DEF SiSigning
    <2> QED BY <1>1, <1>7, <1>8, <1>9, <2>1, <2>2 DEF SiAlone
<1>11. SiFactorInv' BY <1>1, <1>5, <1>7, <1>8, <1>10 DEF SiFactorInv
<1> QED BY <1>6, <1>11 DEF SiInv

\* The update that uses them up is lost.
LEMMA SiSpendLostStep ==
    ASSUME SiInv, NEW w \in SiWorkers, SiSpendLost(w)
    PROVE  SiInv'
<1>1. SiThrottleInv /\ SiFactorInv /\ siWork \in [SiWorkers -> SiWorks] /\ siClock \in Nat
      /\ UNCHANGED <<siClock, siAttempts, siSecret, siChallenges>> /\ siOverlapped' = TRUE
    BY DEF SiInv, SiSpendLost, SiThrottleInv
<1>2. PICK x : x = [siWork[w] EXCEPT !.at = "open"] OBVIOUS
<1>3. siWork[w] \in [at : {"spend", "open"}, setup : BOOLEAN] BY <1>1, SiWorkIs DEF SiSpendLost, SiAt
<1>4. x \in SiWorks /\ x.at = "open" BY <1>2, <1>3 DEF SiWorks
<1>5. siWork' \in [SiWorkers -> SiWorks] /\ \A v \in SiWorkers : siWork'[v] = IF v = w THEN x ELSE siWork[v]
    BY <1>1, <1>2, <1>4, SiGoIs DEF SiSpendLost
<1>6. SiThrottleInv' BY <1>1, <1>4, <1>5, SiThrottleStays
<1>7. SiIds' = SiIds BY <1>1 DEF SiIds
<1>8. \A c \in SiIds : SiChallengeOk(c)' BY <1>1 DEF SiFactorInv, SiChallengeOk
<1>9. \E n \in Nat : SiIds' = 1..n BY <1>1, <1>7 DEF SiFactorInv
<1>10. SiFactorInv'
    <2>1. siOverlapped' \in BOOLEAN /\ (siOverlapped' = FALSE => SiAlone') BY <1>1
    <2> QED BY <1>5, <1>7, <1>8, <1>9, <2>1 DEF SiFactorInv
<1> QED BY <1>6, <1>10 DEF SiInv

\* The new one is inserted.
LEMMA SiOpenStep ==
    ASSUME SiInv, NEW w \in SiWorkers, SiOpen(w)
    PROVE  SiInv'
<1>1. SiThrottleInv /\ SiFactorInv /\ siWork \in [SiWorkers -> SiWorks] /\ siClock \in Nat
      /\ UNCHANGED <<siClock, siAttempts, siSecret, siOverlapped>> /\ SiGo(w, SiIdle)
    BY DEF SiInv, SiOpen, SiThrottleInv
<1>2. SiIdle \in SiWorks /\ SiIdle.at = "idle" BY DEF SiWorks, SiIdle
<1>3. siWork' \in [SiWorkers -> SiWorks] /\ \A v \in SiWorkers : siWork'[v] = IF v = w THEN SiIdle ELSE siWork[v]
    BY <1>1, <1>2, SiGoIs
<1>4. SiThrottleInv' BY <1>1, <1>2, <1>3, SiThrottleStays
<1>5. siWork[w].at = "open" /\ siWork[w].setup \in BOOLEAN /\ w \in SiSigning
    BY <1>1, SiWorkIs DEF SiOpen, SiAt, SiSigning
<1>6. PICK n \in Nat : SiIds = 1..n BY <1>1 DEF SiFactorInv
<1>7. Cardinality(SiIds) = n
    <2>1. Cardinality(1..n) = IF 1 > n THEN 0 ELSE n - 1 + 1 BY <1>6, FS_Interval
    <2> QED BY <1>6, <2>1
<1>8. PICK e : e = [setup |-> siWork[w].setup, used |-> FALSE, wrong |-> 0, sessions |-> 0] OBVIOUS
<1>9. SiIds' = 1..(n + 1) /\ \A c \in 1..(n + 1) : siChallenges'[c] = IF c \in SiIds THEN siChallenges[c] ELSE e
    BY <1>7, <1>8 DEF SiOpen, SiIds
<1>10. \A c \in SiIds' : c \in SiIds \/ c = n + 1 BY <1>6, <1>9
<1>11. n + 1 \notin SiIds /\ SiIds \subseteq 1..(n + 1) BY <1>6
<1>12. ASSUME NEW c \in SiIds' PROVE SiChallengeOk(c)'
    <2>1. CASE c \in SiIds
        <3>1. siChallenges'[c] = siChallenges[c] BY <1>9, <1>11, <2>1
        <3> QED BY <1>1, <2>1, <3>1 DEF SiFactorInv, SiChallengeOk
    <2>2. CASE c = n + 1
        <3>1. siChallenges'[c] = e BY <1>9, <1>11, <1>12, <2>2
        <3>2. e \in SiChallengeType BY <1>5, <1>8 DEF SiChallengeType
        <3> QED BY <1>8, <3>1, <3>2 DEF SiChallengeOk
    <2> QED BY <1>10, <2>1, <2>2
<1>13. ASSUME siOverlapped = FALSE PROVE SiAlone'
    <2>1. SiAlone BY <1>1, <1>13 DEF SiFactorInv
    <2>2. \A v \in SiSigning : v = w BY <1>5, <2>1 DEF SiAlone
    <2>3. SiSigning' = {} BY <1>2, <1>3, <2>2 DEF SiSigning
    <2>4. \A c \in SiIds : siChallenges'[c] = siChallenges[c] /\ siChallenges[c].used = TRUE
        BY <1>5, <1>9, <1>11, <2>1 DEF SiAlone
    <2>5. \A c \in SiIds : siChallenges'[c].used # FALSE
        <3>1. \A c \in SiIds : siChallenges'[c].used = TRUE BY <2>4
        <3> QED BY <3>1, Zenon
    <2>6. \A c, d \in SiIds' : siChallenges'[c].used = FALSE /\ siChallenges'[d].used = FALSE => c = d
        BY <1>10, <2>5
    <2>7. \A v \in SiWorkers : siWork'[v].at # "open" BY <2>3 DEF SiSigning
    <2>8. ASSUME siSecret # 0, NEW c \in SiIds', siChallenges'[c].setup = TRUE PROVE siChallenges'[c].used = TRUE
        <3>1. CASE c \in SiIds BY <2>4, <3>1
        <3>2. CASE c = n + 1
            <4>1. siChallenges'[c].setup = siWork[w].setup BY <1>8, <1>9, <1>11, <2>8, <3>2
            <4>2. siWork[w].setup = FALSE BY <1>5, <2>1, <2>8 DEF SiAlone
            <4>3. siChallenges'[c].setup = FALSE BY <4>1, <4>2
            <4> QED BY <2>8, <4>3, Zenon
        <3> QED BY <1>10, <2>8, <3>1, <3>2
    <2> QED BY <1>1, <2>3, <2>6, <2>7, <2>8 DEF SiAlone
<1>14. SiFactorInv'
    <2>1. n + 1 \in Nat BY <1>6
    <2> QED BY <1>1, <1>3, <1>9, <1>12, <1>13, <2>1 DEF SiFactorInv
<1> QED BY <1>4, <1>14 DEF SiInv


\* A right code uses the challenge up for a session, and its key is no longer counted.
LEMMA SiRightCodeIs ==
    ASSUME SiInv, NEW w \in SiWorkers, NEW c \in SiIds, SiRightCode(w, c)
    PROVE  /\ siChallenges[c] \in SiChallengeType
           /\ siChallenges[c].used = FALSE /\ siChallenges[c].sessions = 0 /\ siChallenges[c].wrong < SiMaxCodes
           /\ SiIds' = SiIds /\ \A d \in SiIds : d # c => siChallenges'[d] = siChallenges[d]
           /\ siChallenges'[c] = [siChallenges[c] EXCEPT !.used = TRUE, !.sessions = 1]
           /\ siChallenges'[c].sessions > siChallenges[c].sessions
           /\ siOverlapped' \in BOOLEAN /\ (siOverlapped' = FALSE => siOverlapped = FALSE /\ SiSigning = {})
<1>1. SiFactorInv /\ SiChallengeOk(c) BY DEF SiInv, SiFactorInv
<1>2. siChallenges[c] \in SiChallengeType BY <1>1 DEF SiChallengeOk
<1>3. siChallenges[c].used = FALSE
    <2>1. siChallenges[c].used \in BOOLEAN BY <1>2 DEF SiChallengeType
    <2>2. ~siChallenges[c].used BY DEF SiRightCode, SiUsable
    <2> QED BY <2>1, <2>2, Zenon
<1>4. siChallenges[c].sessions = 0 /\ siChallenges[c].wrong < SiMaxCodes
    BY <1>1, <1>3 DEF SiChallengeOk, SiRightCode, SiUsable
<1>5. PICK e : e = [siChallenges[c] EXCEPT !.used = TRUE, !.sessions = @ + 1] OBVIOUS
<1>6. siChallenges' = [siChallenges EXCEPT ![c] = e] BY <1>5 DEF SiRightCode
<1>7. e = [siChallenges[c] EXCEPT !.used = TRUE, !.sessions = 1] BY <1>2, <1>4, <1>5 DEF SiChallengeType
<1>8. e.sessions = 1 BY <1>2, <1>7 DEF SiChallengeType
<1>9. SiIds' = SiIds /\ (\A d \in SiIds : d # c => siChallenges'[d] = siChallenges[d]) /\ siChallenges'[c] = e
    BY <1>6 DEF SiIds
<1>10. siOverlapped' \in BOOLEAN /\ (siOverlapped' = FALSE => siOverlapped = FALSE /\ SiSigning = {})
    <2>1. siOverlapped' = (siOverlapped \/ SiSigning # {}) /\ siOverlapped \in BOOLEAN BY <1>1 DEF SiRightCode, SiFactorInv
    <2> QED BY <2>1, Zenon
<1> QED BY <1>2, <1>3, <1>4, <1>7, <1>8, <1>9, <1>10
\* It keeps the invariant.
LEMMA SiRightCodeStep ==
    ASSUME SiInv, NEW w \in SiWorkers, NEW c \in SiIds, SiRightCode(w, c)
    PROVE  SiInv'
<1>1. SiThrottleInv /\ SiFactorInv /\ siWork \in [SiWorkers -> SiWorks] /\ siClock \in Nat
      /\ siClock' = siClock /\ SiGo(w, SiIdle) /\ SiWorks = SiWorks
    BY DEF SiInv, SiRightCode, SiThrottleInv
<1>2. SiIdle \in SiWorks /\ SiIdle.at = "idle" BY DEF SiWorks, SiIdle
<1>3. siWork' \in [SiWorkers -> SiWorks] /\ \A v \in SiWorkers : siWork'[v] = IF v = w THEN SiIdle ELSE siWork[v]
    BY <1>1, <1>2, SiGoIs
<1>4. DOMAIN siAttempts' \subseteq DOMAIN siAttempts /\ \A k \in DOMAIN siAttempts' : siAttempts'[k] = siAttempts[k]
    BY DEF SiRightCode, SiWithout
<1>5. SiThrottleInv' BY <1>1, <1>2, <1>3, <1>4, SiThrottleStays
<1>6. /\ siChallenges[c] \in SiChallengeType
      /\ siChallenges[c].used = FALSE /\ siChallenges[c].wrong < SiMaxCodes
      /\ SiIds' = SiIds /\ \A d \in SiIds : d # c => siChallenges'[d] = siChallenges[d]
      /\ siChallenges'[c] = [siChallenges[c] EXCEPT !.used = TRUE, !.sessions = 1]
      /\ siOverlapped' \in BOOLEAN /\ (siOverlapped' = FALSE => siOverlapped = FALSE /\ SiSigning = {})
    BY SiRightCodeIs
<1>7. PICK e : e = siChallenges'[c] OBVIOUS
<1>8. e \in SiChallengeType /\ e.used = TRUE /\ e.sessions = 1 /\ e.wrong < SiMaxCodes /\ e.wrong \in Nat
    <2>1. PICK d : d = siChallenges[c] OBVIOUS
    <2>2. d \in SiChallengeType /\ d.wrong < SiMaxCodes /\ e = [d EXCEPT !.used = TRUE, !.sessions = 1]
        BY <1>6, <1>7, <2>1
    <2> QED BY <2>2 DEF SiChallengeType
<1>9. SiMaxCodes \in Nat BY SiAssumption DEF SiAssumption
<1>10. \A d \in SiIds : SiChallengeOk(d)'
    <2>1. SUFFICES ASSUME NEW d \in SiIds PROVE SiChallengeOk(d)' OBVIOUS
    <2>2. CASE d = c
        <3>1. ~(e.wrong >= SiMaxCodes) BY <1>8, <1>9
        <3>2. e.used # FALSE BY <1>8, Zenon
        <3> QED BY <1>7, <1>8, <2>2, <3>1, <3>2 DEF SiChallengeOk
    <2>3. CASE d # c BY <1>1, <1>6, <2>3 DEF SiFactorInv, SiChallengeOk
    <2> QED BY <2>2, <2>3
<1>11. ASSUME siOverlapped' = FALSE PROVE SiAlone'
    <2>1. SiAlone /\ SiSigning = {} BY <1>1, <1>6, <1>11 DEF SiFactorInv
    <2>2. SiSigning' = {} BY <1>2, <1>3, <2>1 DEF SiSigning
    <2>3. \A v \in SiWorkers : siWork'[v].at # "open" BY <2>2 DEF SiSigning
    <2>4. \A d \in SiIds : siChallenges'[d].used = TRUE
        <3>1. SUFFICES ASSUME NEW d \in SiIds, d # c PROVE siChallenges'[d].used = TRUE BY <1>7, <1>8
        <3>2. siChallenges[d].used # FALSE BY <1>6, <2>1, <3>1 DEF SiAlone
        <3>3. siChallenges[d].used \in BOOLEAN
            <4>1. siChallenges[d] \in SiChallengeType BY <1>1 DEF SiFactorInv, SiChallengeOk
            <4> QED BY <4>1 DEF SiChallengeType
        <3>4. siChallenges[d].used = TRUE BY <3>2, <3>3, Zenon
        <3> QED BY <1>6, <3>1, <3>4
    <2>5. \A d \in SiIds : siChallenges'[d].used # FALSE BY <2>4, Zenon
    <2> QED BY <1>6, <2>2, <2>3, <2>4, <2>5 DEF SiAlone
<1>12. SiFactorInv' BY <1>1, <1>3, <1>6, <1>10, <1>11 DEF SiFactorInv
<1> QED BY <1>5, <1>12 DEF SiInv

\* A wrong code is counted, and the last one uses the challenge up.
LEMMA SiWrongCodeStep ==
    ASSUME SiInv, NEW w \in SiWorkers, NEW c \in SiIds, SiWrongCode(w, c)
    PROVE  SiInv'
<1>1. SiThrottleInv /\ SiFactorInv /\ siWork \in [SiWorkers -> SiWorks] /\ siClock \in Nat
      /\ UNCHANGED <<siClock, siAttempts, siSecret, siOverlapped>>
    BY DEF SiInv, SiWrongCode, SiThrottleInv
<1>2. PICK x : x = [siWork[w] EXCEPT !.at = "verify"] OBVIOUS
<1>3. siWork[w] \in [at : {"tried", "verify"}, key : SiKeys, now : Nat] /\ siWork[w].at = "tried"
    BY <1>1, SiWorkIs DEF SiWrongCode, SiAt
<1>4. x \in SiWorks /\ x.at = "verify" /\ x.now = siWork[w].now BY <1>2, <1>3 DEF SiWorks
<1>5. siWork' \in [SiWorkers -> SiWorks] /\ \A v \in SiWorkers : siWork'[v] = IF v = w THEN x ELSE siWork[v]
    BY <1>1, <1>2, <1>4, SiGoIs DEF SiWrongCode
<1>6. SiThrottleInv'
    <2>1. \A v \in SiWorkers : siWork'[v].at \in {"tried", "verify"} =>
              siWork[v].at \in {"tried", "verify"} /\ siWork'[v].now = siWork[v].now
        BY <1>3, <1>4, <1>5
    <2> QED BY <1>1, <1>5, <2>1, SiThrottleStays
<1>7. siChallenges[c] \in SiChallengeType /\ siChallenges[c].sessions <= 1
      /\ (siChallenges[c].used = FALSE => siChallenges[c].sessions = 0)
    BY <1>1 DEF SiFactorInv, SiChallengeOk
<1>8. siChallenges[c].used = FALSE
    <2>1. siChallenges[c].used \in BOOLEAN BY <1>7 DEF SiChallengeType
    <2>2. ~siChallenges[c].used BY DEF SiWrongCode, SiUsable
    <2> QED BY <2>1, <2>2, Zenon
<1>9. PICK used : used = (siChallenges[c].used \/ siChallenges[c].wrong + 1 >= SiMaxCodes) OBVIOUS
<1>10. used \in BOOLEAN
    <2>1. (siChallenges[c].used \/ siChallenges[c].wrong + 1 >= SiMaxCodes) \in BOOLEAN OBVIOUS
    <2> QED BY <1>9, <2>1, Zenon
<1>11. PICK e : e = [siChallenges[c] EXCEPT !.wrong = @ + 1, !.used = used] OBVIOUS
<1>12. siChallenges' = [siChallenges EXCEPT ![c] = e] BY <1>9, <1>11 DEF SiWrongCode
<1>13. e \in SiChallengeType /\ e.sessions = 0 /\ e.setup = siChallenges[c].setup
    <2>1. PICK d : d = siChallenges[c] OBVIOUS
    <2>2. d \in SiChallengeType /\ d.sessions = 0 /\ e = [d EXCEPT !.wrong = @ + 1, !.used = used]
        BY <1>7, <1>8, <1>11, <2>1
    <2>3. e = [setup |-> d.setup, used |-> used, wrong |-> d.wrong + 1, sessions |-> d.sessions]
        BY <2>2 DEF SiChallengeType
    <2>4. d.setup \in BOOLEAN /\ d.wrong + 1 \in Nat /\ d.sessions \in Nat BY <2>2 DEF SiChallengeType
    <2>5. e \in SiChallengeType BY <1>10, <2>3, <2>4 DEF SiChallengeType
    <2> QED BY <2>1, <2>2, <2>3, <2>5
<1>14. SiIds' = SiIds /\ (\A d \in SiIds : d # c => siChallenges'[d] = siChallenges[d]) /\ siChallenges'[c] = e
    BY <1>12 DEF SiIds
<1>15. \A d \in SiIds : SiChallengeOk(d)'
    <2>1. SUFFICES ASSUME NEW d \in SiIds PROVE SiChallengeOk(d)' OBVIOUS
    <2>2. CASE d = c BY <1>13, <1>14, <2>2 DEF SiChallengeOk
    <2>3. CASE d # c BY <1>1, <1>14, <2>3 DEF SiFactorInv, SiChallengeOk
    <2> QED BY <2>2, <2>3
<1>16. SiSigning' = SiSigning /\ \A v \in SiSigning : siWork'[v] = siWork[v] BY <1>3, <1>4, <1>5 DEF SiSigning
<1>17. ASSUME siOverlapped = FALSE PROVE SiAlone'
    <2>1. SiAlone BY <1>1, <1>17 DEF SiFactorInv
    <2>2. \A v \in SiWorkers : siWork'[v].at # "open"
        <3>1. \A v \in SiWorkers : siWork[v].at = "open" => siChallenges[c].used = TRUE BY <2>1 DEF SiAlone
        <3>2. siChallenges[c].used # TRUE BY <1>8, Zenon
        <3> QED BY <1>4, <1>5, <3>1, <3>2
    <2>3. \A d \in SiIds : siChallenges'[d].used = FALSE => siChallenges[d].used = FALSE BY <1>8, <1>14
    <2>4. ASSUME siSecret # 0, NEW d \in SiIds, siChallenges'[d].setup = TRUE PROVE siChallenges'[d].used = TRUE
        <3>1. siChallenges[d].setup = TRUE BY <1>13, <1>14, <2>4
        <3>2. siChallenges[d].used = TRUE BY <2>1, <2>4, <3>1 DEF SiAlone
        <3>3. d # c BY <1>8, <3>2, Zenon
        <3> QED BY <1>14, <3>2, <3>3
    <2> QED BY <1>1, <1>14, <1>16, <2>1, <2>2, <2>3, <2>4 DEF SiAlone
<1>18. SiFactorInv' BY <1>1, <1>5, <1>14, <1>15, <1>17 DEF SiFactorInv
<1> QED BY <1>6, <1>18 DEF SiInv

\* The invariant is inductive.
LEMMA SiInvStep == SiInv /\ [SiNext]_siVars => SiInv'
<1>1. SUFFICES ASSUME SiInv, [SiNext]_siVars PROVE SiInv' OBVIOUS
<1>2. CASE UNCHANGED siVars
    <2>1. SiThrottleInv /\ SiFactorInv /\ siWork \in [SiWorkers -> SiWorks] /\ siClock \in Nat
        BY <1>1 DEF SiInv, SiThrottleInv
    <2>2. UNCHANGED <<siClock, siAttempts, siWork, siSecret, siChallenges, siOverlapped>> BY <1>2 DEF siVars
    <2>3. SiThrottleInv' BY <2>1, <2>2, SiThrottleStays
    <2>4. SiFactorInv' BY <2>1, <2>2, SiFactorStays
    <2> QED BY <2>3, <2>4 DEF SiInv
<1>3. CASE SiTick BY <1>1, <1>3, SiTickStep
<1>4. ASSUME NEW w \in SiWorkers, NEW k \in SiKeys, SiTry(w, k) PROVE SiInv' BY <1>1, <1>4, SiTryStep
<1>5. ASSUME NEW w \in SiWorkers, SiFail(w) PROVE SiInv' BY <1>1, <1>5, SiFailStep
<1>6. ASSUME NEW w \in SiWorkers, SiPassword(w) PROVE SiInv' BY <1>1, <1>6, SiPasswordStep
<1>7. ASSUME NEW w \in SiWorkers, SiSpend(w) PROVE SiInv' BY <1>1, <1>7, SiSpendStep
<1>8. ASSUME NEW w \in SiWorkers, SiOpen(w) PROVE SiInv' BY <1>1, <1>8, SiOpenStep
<1>9. ASSUME NEW w \in SiWorkers, NEW c \in SiIds, SiRightCode(w, c) PROVE SiInv' BY <1>1, <1>9, SiRightCodeStep
<1>10. ASSUME NEW w \in SiWorkers, NEW c \in SiIds, SiWrongCode(w, c) PROVE SiInv' BY <1>1, <1>10, SiWrongCodeStep
<1>11. ASSUME NEW w \in SiWorkers, SiSpendLost(w) PROVE SiInv' BY <1>1, <1>11, SiSpendLostStep
<1> QED BY <1>1, <1>2, <1>3, <1>4, <1>5, <1>6, <1>7, <1>8, <1>9, <1>10, <1>11 DEF SiNext

\* What the steps never do.
LEMMA SiStepKeeps ==
    ASSUME SiInv, SiNext
    PROVE  /\ \A k \in SiEntries : SiBlocked(siAttempts[k], siClock) /\ k \notin SiEntries' =>
                 \/ \E w \in SiWorkers, c \in SiIds :
                       SiAt(w, "tried") /\ siWork[w].key = k /\ siChallenges'[c].sessions > siChallenges[c].sessions
                 \/ \A j \in SiEntries : siAttempts[j].until > 0
           /\ siSecret # 0 /\ ~siOverlapped' => siSecret' = siSecret
<1>1. CASE siAttempts' = siAttempts /\ siSecret' = siSecret BY <1>1 DEF SiEntries
<1>2. ASSUME NEW w \in SiWorkers, NEW k \in SiKeys, SiTry(w, k)
      PROVE  /\ \A j \in SiEntries : SiBlocked(siAttempts[j], siClock) => j \in SiEntries'
             /\ siSecret' = siSecret
    BY <1>2, SiTryStep DEF SiTry
<1>3. ASSUME NEW w \in SiWorkers, SiFail(w)
      PROVE  /\ \A k \in SiEntries : SiBlocked(siAttempts[k], siClock) /\ k \notin SiEntries' =>
                    \A j \in SiEntries : siAttempts[j].until > 0
             /\ siSecret' = siSecret
    <2>1. SiThrottleInv BY DEF SiInv
    <2>2. siSecret' = siSecret BY <1>3 DEF SiFail
    <2>3. ASSUME NEW k \in SiEntries, SiBlocked(siAttempts[k], siClock), k \notin SiEntries', NEW j \in SiEntries
          PROVE  siAttempts[j].until > 0
        BY <1>3, <2>1, <2>3, SiFailBlocks
    <2> QED BY <2>2, <2>3
<1>4. ASSUME NEW w \in SiWorkers, NEW c \in SiIds, SiRightCode(w, c)
      PROVE  /\ \A k \in SiEntries : k \notin SiEntries' =>
                    SiAt(w, "tried") /\ siWork[w].key = k /\ siChallenges'[c].sessions > siChallenges[c].sessions
             /\ siSecret # 0 /\ ~siOverlapped' => siSecret' = siSecret
    <2>1. siChallenges'[c].sessions > siChallenges[c].sessions /\ siChallenges[c].used = FALSE
          /\ siOverlapped' \in BOOLEAN /\ (siOverlapped' = FALSE => siOverlapped = FALSE)
        BY <1>4, SiRightCodeIs
    <2>2. SiEntries' = SiEntries \ {siWork[w].key} /\ SiAt(w, "tried")
        BY <1>4 DEF SiRightCode, SiEntries, SiWithout
    <2>3. ASSUME siSecret # 0, ~siOverlapped' PROVE siSecret' = siSecret
        <3>1. siOverlapped = FALSE
            <4>1. siOverlapped' = FALSE BY <2>1, <2>3, Zenon
            <4> QED BY <2>1, <4>1
        <3>2. SiAlone BY <3>1 DEF SiInv, SiFactorInv
        <3>3. siChallenges[c].setup # TRUE
            <4>1. siChallenges[c].setup = TRUE => siChallenges[c].used = TRUE BY <2>3, <3>2 DEF SiAlone
            <4>2. siChallenges[c].used # TRUE BY <2>1, Zenon
            <4> QED BY <4>1, <4>2
        <3>4. ~siChallenges[c].setup
            <4>1. siChallenges[c] \in SiChallengeType BY <1>4, SiRightCodeIs
            <4>2. siChallenges[c].setup \in BOOLEAN BY <4>1 DEF SiChallengeType
            <4> QED BY <3>3, <4>2, Zenon
        <3> QED BY <1>4, <3>4 DEF SiRightCode
    <2> QED BY <2>1, <2>2, <2>3
<1>5. CASE \/ SiTick
           \/ \E w \in SiWorkers : SiPassword(w) \/ SiSpend(w) \/ SiSpendLost(w) \/ SiOpen(w)
                                  \/ \E c \in SiIds : SiWrongCode(w, c)
    <2>1. siAttempts' = siAttempts /\ siSecret' = siSecret
        BY <1>5 DEF SiTick, SiPassword, SiSpend, SiSpendLost, SiOpen, SiWrongCode
    <2> QED BY <1>1, <2>1
<1>6. ASSUME NEW w \in SiWorkers, NEW k \in SiKeys, SiTry(w, k)
      PROVE  /\ \A j \in SiEntries : SiBlocked(siAttempts[j], siClock) /\ j \notin SiEntries' => FALSE
             /\ siSecret' = siSecret
    BY <1>2, <1>6
<1> QED BY <1>3, <1>4, <1>5, <1>6 DEF SiNext

\* The map of failed attempts is bounded and gives a block up only when nothing else is left; a
\* challenge makes one session, and the secret of an account stays unless sign-ins overlapped or
\* one left earlier challenges open:
\* for any client keys, limits, and number of attempts in progress.
THEOREM SignInsAreContained == SiSpec => SignInSafe
<1>1. SiInv => SiBounded BY DEF SiInv, SiThrottleInv, SiBounded
<1>2. SiInv => SiOneSession
    <2>1. SUFFICES ASSUME SiInv, NEW c \in SiIds
                   PROVE  siChallenges[c].sessions <= 1 /\ (siChallenges[c].wrong >= SiMaxCodes => siChallenges[c].sessions = 0)
        BY DEF SiOneSession
    <2> QED BY <2>1 DEF SiInv, SiFactorInv, SiChallengeOk
<1>3. SiInv /\ [SiNext]_siVars =>
          [\A k \in SiEntries : SiBlocked(siAttempts[k], siClock) /\ k \notin SiEntries' =>
              \/ \E w \in SiWorkers, c \in SiIds : SiAt(w, "tried") /\ siWork[w].key = k /\ siChallenges'[c].sessions > siChallenges[c].sessions
              \/ \A j \in SiEntries : siAttempts[j].until > 0]_siVars
    BY SiStepKeeps
<1>4. SiInv /\ [SiNext]_siVars => [siSecret # 0 /\ ~siOverlapped' => siSecret' = siSecret]_siVars
    BY SiStepKeeps
<1> QED BY <1>1, <1>2, <1>3, <1>4, SiInvInit, SiInvStep, PTL DEF SiSpec, SignInSafe, SiBlocksLast, SiSecretStays

-----------------------------------------------------------------------------
(* A screen of the console (ScreenSnapshots): refreshes, mutations and requests that overlap. *)

SsStatuses == {"none", "healthy", "partial", "unavailable"}
SsRows == [p : Nat, q : Nat, status : SsStatuses]
SsReadings == [at : {"read", "save"}, p : Nat \cup {SsFailed}, q : Nat \cup {SsFailed}, dirty : BOOLEAN]
SsSignals == [at : {"signal", "get"}, part : SsParts, v : Nat \ {0}, dirty : BOOLEAN]
SsMerges == [at : {"merge"}, base : SsRows, v : Nat \ {0}, dirty : BOOLEAN]
SsWrites == [at : {"persist", "write"}, made : SsRows]
SsWorks == {SsIdle} \cup SsReadings \cup SsSignals \cup SsMerges \cup SsWrites

\* A snapshot, in memory, stored, or on its way: no newer than the services; the plans have one
\* part only, and the registry has both or none.
SsRowOk(x, kind, source) ==
    /\ x \in SsRows /\ x.p <= source["p"] /\ x.q <= source["q"]
    /\ kind = "plans" => x.q = 0
    /\ kind = "registry" /\ x.p # 0 => x.q # 0

\* What a worker has read and will write: older than the screen only when the screen was written
\* meanwhile, which it is then marked with.
SsReadOk(r, kind, source, screen) ==
    /\ r.p <= source["p"] /\ r.q <= source["q"]
    /\ r.dirty = FALSE => (r.p > 0 => screen.p <= r.p) /\ (r.q > 0 => screen.q <= r.q)
    /\ kind \notin {"registry", "workspace"} => r.dirty = FALSE
    /\ r.at = "save" => r.p # 0 /\ (r.q # 0 \/ kind = "plans"
                                    \/ (kind \in {"commercial", "partners"} /\ r.p = SsFailed))
SsToldOk(r, kind, source, screen) ==
    /\ r.v <= source[r.part]
    /\ r.dirty = FALSE /\ r.part = "p" => screen.p <= r.v
    /\ r.at = "get" => kind = "registry" /\ r.part = "p"
SsMergeOk(r, kind, source, screen) ==
    /\ SsRowOk(r.base, kind, source) /\ r.base.p # 0 /\ r.v <= source["p"] /\ kind = "registry"
    /\ r.dirty = FALSE => r.base = screen /\ screen.p <= r.v
SsWorkOk(r, kind, source, screen) ==
    /\ r \in SsWorks
    /\ r.at \in {"read", "save"} => SsReadOk(r, kind, source, screen)
    /\ r.at \in {"signal", "get"} => SsToldOk(r, kind, source, screen)
    /\ r.at = "merge" => SsMergeOk(r, kind, source, screen)
    /\ r.at \in {"persist", "write"} => SsRowOk(r.made, kind, source) /\ kind # "workspace"

SsSourceOk == ssSource \in [SsParts -> Nat \ {0}]
SsTyped ==
    /\ ssKind \in SsKinds /\ SsSourceOk /\ ssSignal \in BOOLEAN /\ ssExcuse \in BOOLEAN
    /\ SsRowOk(ssScreen, ssKind, ssSource) /\ SsRowOk(ssStored, ssKind, ssSource)
    /\ ssKind = "workspace" => ssStored = SsNone /\ ssSignal = FALSE
    /\ DOMAIN ssWork = SsWorkers
SsHeld == \A w \in SsWorkers : SsWorkOk(ssWork[w], ssKind, ssSource, ssScreen)

\* But for the workspace one refresh runs at a time.
SsSingle ==
    ssKind # "workspace" =>
        \A v, w \in SsWorkers :
            ssWork[v].at \in {"read", "save", "persist"} /\ ssWork[w].at \in {"read", "save", "persist"} => v = w

\* A refresh is asked for, or one under way was overtaken and will say so.
SsReads(r) == r.at \in {"read", "save"}
SsPending ==
    \/ ssSignal = TRUE
    \/ \E u \in SsWorkers : ssWork[u].at = "signal" \/ (SsReads(ssWork[u]) /\ ssWork[u].dirty = TRUE)
SsUnderWay == \E u \in SsWorkers : SsReads(ssWork[u])
SsTracked == IF ssKind = "plans" THEN {"p"} ELSE SsParts
\* Until it is, every part that a refresh tracks is on the screen, or read, as the services hold it.
SsFollows ==
    ssKind # "workspace" /\ ssExcuse = FALSE =>
        /\ \A part \in SsTracked : SsPending \/ SsUnderWay \/ ssScreen[part] = ssSource[part]
        /\ \A u \in SsWorkers : SsReads(ssWork[u]) =>
              /\ ssWork[u].p # SsFailed /\ ssWork[u].q # SsFailed
              /\ \A part \in SsTracked : SsPending \/ ssWork[u][part] \in {0, ssSource[part]}
        /\ \A u \in SsWorkers : ssWork[u].at \in {"get", "merge"} /\ ssWork[u].dirty = FALSE =>
              SsPending \/ SsUnderWay \/ ssWork[u].v = ssSource["p"]
\* The workspace is dropped by the change that makes it old, or a request that is not marked by
\* the change has read what the services hold.
SsDropped == \E u \in SsWorkers : ssWork[u].at = "signal" /\ ssWork[u].part = "p"
SsFresh ==
    ssKind = "workspace" =>
        /\ ssExcuse = FALSE => ssScreen.p = 0 \/ ssScreen.p = ssSource["p"] \/ SsDropped
        /\ \A u \in SsWorkers : SsReads(ssWork[u]) /\ ssWork[u].dirty = FALSE =>
              ssWork[u].p \in {0, SsFailed, ssSource["p"]} \/ SsDropped

SsInv == SsTyped /\ SsHeld /\ SsSingle /\ SsFollows /\ SsFresh

-----------------------------------------------------------------------------
\* SsWorkOk: what a worker may hold does not grow old when a service gets newer data.
LEMMA SsWorkGrows ==
    ASSUME NEW r, NEW kind, NEW source, NEW newer, NEW screen,
           SsWorkOk(r, kind, source, screen),
           source \in [SsParts -> Nat \ {0}], newer \in [SsParts -> Nat \ {0}],
           source["p"] <= newer["p"], source["q"] <= newer["q"]
    PROVE  SsWorkOk(r, kind, newer, screen)
<1>1. CASE r = SsIdle
  BY <1>1 DEF SsWorkOk, SsIdle, SsWorks
<1>2. CASE r \in SsReadings
  BY <1>2 DEF SsWorkOk, SsWorks, SsReadings, SsReadOk, SsFailed, SsParts
<1>3. CASE r \in SsSignals
  BY <1>3 DEF SsWorkOk, SsWorks, SsSignals, SsToldOk, SsParts
<1>4. CASE r \in SsMerges
  BY <1>4 DEF SsWorkOk, SsWorks, SsMerges, SsMergeOk, SsRowOk, SsRows, SsParts
<1>5. CASE r \in SsWrites
  BY <1>5 DEF SsWorkOk, SsWorks, SsWrites, SsRowOk, SsRows, SsParts
<1> QED BY <1>1, <1>2, <1>3, <1>4, <1>5 DEF SsWorkOk, SsWorks

\* SsMark: what is marked is what it was but for the mark.
LEMMA SsMarkIs ==
    ASSUME NEW r \in SsWorks, NEW m, m = SsMark(r)
    PROVE  /\ r \in SsReadings => m \in SsReadings /\ m.at = r.at /\ m.p = r.p /\ m.q = r.q /\ m.dirty = TRUE
           /\ r \in SsSignals => m \in SsSignals /\ m.at = r.at /\ m.part = r.part /\ m.v = r.v /\ m.dirty = TRUE
           /\ r \in SsMerges => m \in SsMerges /\ m.at = r.at /\ m.base = r.base /\ m.v = r.v /\ m.dirty = TRUE
           /\ r = SsIdle \/ r \in SsWrites => m = r
<1>1. CASE r = SsIdle
  <2>1. "dirty" \notin DOMAIN SsIdle BY DEF SsIdle
  <2> QED BY <1>1, <2>1 DEF SsMark, SsIdle, SsReadings, SsSignals, SsMerges, SsWrites
<1>2. CASE r \in SsReadings
  <2>1. "dirty" \in DOMAIN r BY <1>2 DEF SsReadings
  <2>2. m = [r EXCEPT !.dirty = TRUE] BY <2>1 DEF SsMark
  <2> PICK b : b = TRUE OBVIOUS
  <2> b \in BOOLEAN OBVIOUS
  <2>3. m = [r EXCEPT !.dirty = b] BY <2>2
  <2>4. m \in SsReadings /\ m.at = r.at /\ m.p = r.p /\ m.q = r.q BY <1>2, <2>3 DEF SsReadings
  <2>5. m.dirty = b BY <1>2, <2>3 DEF SsReadings
  <2>6. m.dirty = TRUE BY <2>5
  <2>7. r.at \in {"read", "save"} BY <1>2 DEF SsReadings
  <2>8. r \notin SsSignals /\ r \notin SsMerges /\ r \notin SsWrites /\ r # SsIdle
    BY <2>7 DEF SsReadings, SsSignals, SsMerges, SsWrites, SsIdle
  <2> QED BY <1>2, <2>4, <2>6, <2>8
<1>3. CASE r \in SsSignals
  <2>1. "dirty" \in DOMAIN r BY <1>3 DEF SsSignals
  <2>2. m = [r EXCEPT !.dirty = TRUE] BY <2>1 DEF SsMark
  <2> PICK b : b = TRUE OBVIOUS
  <2> b \in BOOLEAN OBVIOUS
  <2>3. m = [r EXCEPT !.dirty = b] BY <2>2
  <2>4. m \in SsSignals /\ m.at = r.at /\ m.part = r.part /\ m.v = r.v BY <1>3, <2>3 DEF SsSignals
  <2>5. m.dirty = b BY <1>3, <2>3 DEF SsSignals
  <2>6. m.dirty = TRUE BY <2>5
  <2>7. r.at \in {"signal", "get"} BY <1>3 DEF SsSignals
  <2>8. r \notin SsReadings /\ r \notin SsMerges /\ r \notin SsWrites /\ r # SsIdle
    BY <2>7 DEF SsReadings, SsSignals, SsMerges, SsWrites, SsIdle
  <2> QED BY <1>3, <2>4, <2>6, <2>8
<1>4. CASE r \in SsMerges
  <2>1. "dirty" \in DOMAIN r BY <1>4 DEF SsMerges
  <2>2. m = [r EXCEPT !.dirty = TRUE] BY <2>1 DEF SsMark
  <2> PICK b : b = TRUE OBVIOUS
  <2> b \in BOOLEAN OBVIOUS
  <2>3. m = [r EXCEPT !.dirty = b] BY <2>2
  <2>4. m \in SsMerges /\ m.at = r.at /\ m.base = r.base /\ m.v = r.v BY <1>4, <2>3 DEF SsMerges
  <2>5. m.dirty = b BY <1>4, <2>3 DEF SsMerges
  <2>6. m.dirty = TRUE BY <2>5
  <2>7. r.at \in {"merge"} BY <1>4 DEF SsMerges
  <2>8. r \notin SsReadings /\ r \notin SsSignals /\ r \notin SsWrites /\ r # SsIdle
    BY <2>7 DEF SsReadings, SsSignals, SsMerges, SsWrites, SsIdle
  <2> QED BY <1>4, <2>4, <2>6, <2>8
<1>5. CASE r \in SsWrites
  <2>1. "dirty" \notin DOMAIN r BY <1>5 DEF SsWrites
  <2> QED BY <1>5, <2>1 DEF SsMark, SsReadings, SsSignals, SsMerges, SsWrites, SsIdle
<1> QED BY <1>1, <1>2, <1>3, <1>4, <1>5 DEF SsWorks

\* SsWorkOk: a worker that is marked may hold what it holds, whatever the screen has become.
LEMMA SsMarkKeeps ==
    ASSUME NEW r, NEW m, NEW kind, NEW source, NEW screen, NEW other,
           SsWorkOk(r, kind, source, screen), m = SsMark(r),
           r.at \in {"read", "save"} => kind \in {"registry", "workspace"}
    PROVE  SsWorkOk(m, kind, source, other)
<1> r \in SsWorks BY DEF SsWorkOk
<1>1. CASE r = SsIdle
  <2>1. m = r BY <1>1, SsMarkIs
  <2> QED BY <1>1, <2>1 DEF SsWorkOk, SsIdle, SsWorks
<1>2. CASE r \in SsReadings
  <2>1. m \in SsReadings /\ m.at = r.at /\ m.p = r.p /\ m.q = r.q /\ m.dirty = TRUE BY <1>2, SsMarkIs
  <2> QED BY <1>2, <2>1 DEF SsWorkOk, SsWorks, SsReadings, SsReadOk
<1>3. CASE r \in SsSignals
  <2>1. m \in SsSignals /\ m.at = r.at /\ m.part = r.part /\ m.v = r.v /\ m.dirty = TRUE BY <1>3, SsMarkIs
  <2> QED BY <1>3, <2>1 DEF SsWorkOk, SsWorks, SsSignals, SsToldOk
<1>4. CASE r \in SsMerges
  <2>1. m \in SsMerges /\ m.at = r.at /\ m.base = r.base /\ m.v = r.v /\ m.dirty = TRUE BY <1>4, SsMarkIs
  <2> QED BY <1>4, <2>1 DEF SsWorkOk, SsWorks, SsMerges, SsMergeOk
<1>5. CASE r \in SsWrites
  <2>1. m = r BY <1>5, SsMarkIs
  <2> QED BY <1>5, <2>1 DEF SsWorkOk, SsWorks, SsWrites
<1> QED BY <1>1, <1>2, <1>3, <1>4, <1>5 DEF SsWorks

\* SsMark: where a marked worker is, and what it knows.
LEMMA SsMarkAt ==
    ASSUME NEW r \in SsWorks, NEW m, m = SsMark(r)
    PROVE  /\ m.at = r.at
           /\ r.at \in {"read", "save"} => m.p = r.p /\ m.q = r.q /\ m.dirty = TRUE
           /\ r.at \in {"signal", "get"} => m.part = r.part /\ m.v = r.v /\ m.dirty = TRUE
           /\ r.at = "merge" => m.v = r.v /\ m.dirty = TRUE
<1>1. CASE r = SsIdle
  <2>1. m = r BY <1>1, SsMarkIs
  <2> QED BY <1>1, <2>1 DEF SsIdle
<1>2. CASE r \in SsReadings
  <2>1. r.at \in {"read", "save"} BY <1>2 DEF SsReadings
  <2> QED BY <1>2, <2>1, SsMarkIs
<1>3. CASE r \in SsSignals
  <2>1. r.at \in {"signal", "get"} BY <1>3 DEF SsSignals
  <2> QED BY <1>3, <2>1, SsMarkIs
<1>4. CASE r \in SsMerges
  <2>1. r.at = "merge" BY <1>4 DEF SsMerges
  <2> QED BY <1>4, <2>1, SsMarkIs
<1>5. CASE r \in SsWrites
  <2>1. r.at \in {"persist", "write"} BY <1>5 DEF SsWrites
  <2> QED BY <1>5, <2>1, SsMarkIs
<1> QED BY <1>1, <1>2, <1>3, <1>4, <1>5 DEF SsWorks

\* SsInv: what a worker holds has one of the forms the steps give it.
LEMMA SsWorkForms ==
    ASSUME SsInv, NEW u \in SsWorkers
    PROVE  /\ ssWork[u] \in SsWorks /\ SsWorkOk(ssWork[u], ssKind, ssSource, ssScreen)
           /\ ssWork[u].at = "idle" => ssWork[u] = SsIdle
           /\ ssWork[u].at \in {"read", "save"} => ssWork[u] \in SsReadings
           /\ ssWork[u].at \in {"signal", "get"} => ssWork[u] \in SsSignals
           /\ ssWork[u].at = "merge" => ssWork[u] \in SsMerges
           /\ ssWork[u].at \in {"persist", "write"} => ssWork[u] \in SsWrites
<1> PICK r : r = ssWork[u] OBVIOUS
<1>1. SsWorkOk(r, ssKind, ssSource, ssScreen) BY DEF SsInv, SsHeld
<1>2. r \in SsWorks BY <1>1 DEF SsWorkOk
<1>3. SsIdle.at = "idle" BY DEF SsIdle
<1>4. r \in SsReadings => r.at \in {"read", "save"} BY DEF SsReadings
<1>5. r \in SsSignals => r.at \in {"signal", "get"} BY DEF SsSignals
<1>6. r \in SsMerges => r.at = "merge" BY DEF SsMerges
<1>7. r \in SsWrites => r.at \in {"persist", "write"} BY DEF SsWrites
<1>8. r = SsIdle \/ r \in SsReadings \/ r \in SsSignals \/ r \in SsMerges \/ r \in SsWrites BY <1>2 DEF SsWorks
<1> QED BY <1>1, <1>2, <1>3, <1>4, <1>5, <1>6, <1>7, <1>8

\* SsGo: the step of one worker leaves the others where they were.
LEMMA SsOneMoves ==
    ASSUME SsInv, NEW w \in SsWorkers, NEW state, SsGo(w, state)
    PROVE  /\ DOMAIN ssWork' = SsWorkers /\ ssWork'[w] = state
           /\ \A u \in SsWorkers : u # w => ssWork'[u] = ssWork[u]
BY DEF SsInv, SsTyped, SsGo

\* SsMarked: the step of a writer marks the others.
LEMMA SsOthersMarked ==
    ASSUME NEW w \in SsWorkers, NEW state, ssWork' = SsMarked(w, state)
    PROVE  /\ DOMAIN ssWork' = SsWorkers /\ ssWork'[w] = state
           /\ \A u \in SsWorkers : u # w => ssWork'[u] = SsMark(ssWork[u])
<1>1. ssWork' = [u \in SsWorkers |-> IF u = w THEN state ELSE SsMark(ssWork[u])] BY DEF SsMarked
<1> QED BY <1>1

\* SsHeld: while the screen is left alone, only the worker that moves needs a look.
LEMMA SsHeldByOne ==
    ASSUME SsInv, SsSourceOk', ssKind' = ssKind, ssScreen' = ssScreen,
           ssSource["p"] <= ssSource'["p"], ssSource["q"] <= ssSource'["q"],
           NEW w \in SsWorkers, NEW state, SsGo(w, state), SsWorkOk(state, ssKind, ssSource', ssScreen)
    PROVE  SsHeld'
<1> SUFFICES ASSUME NEW u \in SsWorkers PROVE SsWorkOk(ssWork'[u], ssKind, ssSource', ssScreen)
  BY DEF SsHeld
<1>1. SsWorkOk(ssWork[u], ssKind, ssSource', ssScreen)
  BY SsWorkGrows, SsWorkForms DEF SsInv, SsTyped, SsSourceOk
<1> QED BY <1>1, SsOneMoves

\* SsHeld: a writer marks every worker whose work the new screen could make old.
LEMMA SsHeldByWriter ==
    ASSUME SsInv, ssKind' = ssKind, ssSource' = ssSource,
           NEW w \in SsWorkers, NEW state, ssWork' = SsMarked(w, state),
           SsWorkOk(state, ssKind, ssSource, ssScreen'),
           \A u \in SsWorkers : ssWork[u].at \in {"read", "save"} => u = w \/ ssKind \in {"registry", "workspace"}
    PROVE  SsHeld'
<1> SUFFICES ASSUME NEW u \in SsWorkers PROVE SsWorkOk(ssWork'[u], ssKind, ssSource, ssScreen')
  BY DEF SsHeld
<1>1. CASE u = w
  BY <1>1, SsOthersMarked
<1>2. CASE u # w
  <2>1. ssWork'[u] = SsMark(ssWork[u]) BY <1>2, SsOthersMarked
  <2> PICK m : m = SsMark(ssWork[u]) OBVIOUS
  <2>2. SsWorkOk(m, ssKind, ssSource, ssScreen') BY <1>2, SsMarkKeeps, SsWorkForms
  <2> QED BY <2>1, <2>2
<1> QED BY <1>1, <1>2

\* A worker that refreshes.
SsBusy(u) == ssWork[u].at \in {"read", "save", "persist"}
\* SsMayBegin: at most one refresh runs if none begins.
LEMMA SsSingleStays ==
    ASSUME SsInv, ssKind' = ssKind, \A u \in SsWorkers : SsBusy(u)' => SsBusy(u)
    PROVE  SsSingle'
BY DEF SsInv, SsSingle, SsBusy

\* SsIdle, SsReading: what a worker begins and ends with.
LEMMA SsReadingIs ==
    SsReading \in SsReadings /\ SsReading.at = "read" /\ SsReading.p = 0 /\ SsReading.q = 0 /\ SsReading.dirty = FALSE
<1> PICK b : b = FALSE OBVIOUS
<1> b \in BOOLEAN OBVIOUS
<1>1. SsReading = [at |-> "read", p |-> 0, q |-> 0, dirty |-> b] BY DEF SsReading
<1>2. SsReading \in SsReadings /\ SsReading.at = "read" /\ SsReading.p = 0 /\ SsReading.q = 0 BY <1>1 DEF SsReadings
<1>3. SsReading.dirty = b BY <1>1
<1> QED BY <1>2, <1>3

\* SsIdle, SsReading: and neither can be old.
LEMMA SsBeginOk ==
    ASSUME NEW kind, NEW source \in [SsParts -> Nat \ {0}], NEW screen
    PROVE  SsWorkOk(SsIdle, kind, source, screen) /\ SsWorkOk(SsReading, kind, source, screen)
<1>1. SsIdle \in SsWorks /\ SsIdle.at = "idle" BY DEF SsIdle, SsWorks
<1>2. SsReading \in SsWorks BY SsReadingIs DEF SsWorks
<1>3. SsReadOk(SsReading, kind, source, screen) BY SsReadingIs DEF SsReadOk, SsParts
<1> QED BY <1>1, <1>2, <1>3, SsReadingIs DEF SsWorkOk

\* SsExpire: an entry that is not served any more hides nothing.
LEMMA SsExpireStep == ASSUME SsInv, SsExpire PROVE SsInv'
<1> USE DEF SsExpire
<1>1. SsRowOk(SsNone, ssKind, ssSource)
  BY DEF SsRowOk, SsNone, SsRows, SsStatuses, SsInv, SsTyped, SsSourceOk, SsParts
<1>2. SsTyped' BY <1>1 DEF SsInv, SsTyped, SsSourceOk
<1>3. SsHeld'
  <2> SUFFICES ASSUME NEW u \in SsWorkers PROVE SsWorkOk(ssWork[u], ssKind, ssSource, SsNone) BY DEF SsHeld
  <2> PICK r : r = ssWork[u] OBVIOUS
  <2>1. SsWorkOk(r, ssKind, ssSource, ssScreen) BY SsWorkForms
  <2>2. SsNone.p = 0 /\ SsNone.q = 0 BY DEF SsNone
  <2>3. CASE r.at \in {"read", "save"}
    <3>1. r \in SsReadings BY <2>3, SsWorkForms
    <3>2. SsReadOk(r, ssKind, ssSource, ssScreen) BY <2>1, <2>3 DEF SsWorkOk
    <3>3. r.p \in Int /\ r.q \in Int BY <3>1 DEF SsReadings, SsFailed
    <3>4. SsReadOk(r, ssKind, ssSource, SsNone) BY <2>2, <3>2, <3>3 DEF SsReadOk
    <3> QED BY <2>1, <2>3, <3>4 DEF SsWorkOk
  <2>4. CASE r.at \in {"signal", "get"}
    <3>1. r \in SsSignals BY <2>4, SsWorkForms
    <3>2. SsToldOk(r, ssKind, ssSource, ssScreen) BY <2>1, <2>4 DEF SsWorkOk
    <3>3. r.v \in Nat BY <3>1 DEF SsSignals
    <3>4. SsToldOk(r, ssKind, ssSource, SsNone) BY <2>2, <3>2, <3>3 DEF SsToldOk
    <3> QED BY <2>1, <2>4, <3>4 DEF SsWorkOk
  <2>5. r.at # "merge" BY <2>1 DEF SsWorkOk, SsMergeOk
  <2> QED BY <2>1, <2>3, <2>4, <2>5 DEF SsWorkOk
<1>4. SsSingle' BY DEF SsInv, SsSingle
<1>5. SsFollows' BY DEF SsFollows
<1>6. SsFresh' BY DEF SsInv, SsFresh, SsNone, SsDropped, SsReads
<1> QED BY <1>2, <1>3, <1>4, <1>5, <1>6 DEF SsInv

\* SsRestart: the gateway begins with what was stored, and asks for a refresh.
LEMMA SsRestartStep == ASSUME SsInv, SsRestart PROVE SsInv'
<1> USE DEF SsRestart
<1>1. \A u \in SsWorkers : ssWork'[u] = SsIdle OBVIOUS
<1>2. SsIdle.at = "idle" BY DEF SsIdle
<1>3. SsTyped'
  <2>1. ssSignal' \in BOOLEAN /\ ssExcuse' \in BOOLEAN OBVIOUS
  <2>2. ssKind' = "workspace" => ssSignal' = FALSE OBVIOUS
  <2>a. SsRowOk(SsNone, ssKind, ssSource)
    BY DEF SsRowOk, SsNone, SsRows, SsStatuses, SsInv, SsTyped, SsSourceOk, SsParts
  <2>3. SsRowOk(ssScreen, ssKind, ssSource)' /\ SsRowOk(ssStored, ssKind, ssSource)'
    BY <2>a DEF SsInv, SsTyped
  <2>4. DOMAIN ssWork' = SsWorkers OBVIOUS
  <2> QED BY <2>1, <2>2, <2>3, <2>4 DEF SsInv, SsTyped, SsSourceOk
<1>4. SsHeld' BY <1>1, SsBeginOk DEF SsHeld, SsInv, SsTyped, SsSourceOk
<1>5. SsSingle' BY <1>1, <1>2 DEF SsSingle
<1>6. SsFollows'
  <2> SUFFICES ASSUME ssKind # "workspace" PROVE SsFollows' BY DEF SsFollows
  <2>1. ssSignal' = TRUE OBVIOUS
  <2>2. SsPending' BY <2>1 DEF SsPending
  <2> QED BY <1>1, <1>2, <2>2 DEF SsFollows, SsReads
<1>7. SsFresh'
  <2> SUFFICES ASSUME ssKind = "workspace" PROVE SsFresh' BY DEF SsFresh
  <2>1. ssScreen' = SsNone BY DEF SsInv, SsTyped
  <2> QED BY <1>1, <1>2, <2>1 DEF SsFresh, SsNone, SsReads
<1> QED BY <1>3, <1>4, <1>5, <1>6, <1>7 DEF SsInv

\* SsBegin: a refresh begins when none runs, and will read what the services hold.
LEMMA SsBeginStep ==
    ASSUME SsInv, NEW w \in SsWorkers, SsMayBegin, SsBegin(w), ssKind # "workspace", ssSignal' \in BOOLEAN,
           UNCHANGED <<ssKind, ssSource, ssScreen, ssStored>>
    PROVE  SsInv'
<1>0. SsGo(w, SsReading) /\ ssExcuse' = FALSE /\ SsAt(w, "idle") BY DEF SsBegin
<1>1. ssWork'[w] = SsReading /\ \A u \in SsWorkers : u # w => ssWork'[u] = ssWork[u] BY <1>0, SsOneMoves
<1>2. \A u \in SsWorkers : ~SsBusy(u) BY DEF SsMayBegin, SsRefreshing, SsBusy
<1>3. SsTyped'
  <2>1. DOMAIN ssWork' = SsWorkers BY <1>0, SsOneMoves
  <2>2. ssExcuse' \in BOOLEAN BY <1>0
  <2> QED BY <2>1, <2>2 DEF SsInv, SsTyped, SsSourceOk
<1>4. SsHeld'
  <2>1. SsSourceOk' BY DEF SsInv, SsTyped, SsSourceOk
  <2>2. ssSource["p"] <= ssSource'["p"] /\ ssSource["q"] <= ssSource'["q"] BY DEF SsInv, SsTyped, SsSourceOk, SsParts
  <2>3. SsWorkOk(SsReading, ssKind, ssSource', ssScreen) BY <2>1, SsBeginOk DEF SsSourceOk
  <2> QED BY <1>0, <2>1, <2>2, <2>3, SsHeldByOne
<1>5. SsSingle' BY <1>1, <1>2 DEF SsSingle, SsBusy
<1>6. SsFollows'
  <2>1. \A u \in SsWorkers : SsReads(ssWork'[u]) => u = w BY <1>1, <1>2 DEF SsReads, SsBusy
  <2>2. SsUnderWay' BY <1>1, SsReadingIs DEF SsUnderWay, SsReads
  <2>3. SsReading["p"] = 0 /\ SsReading["q"] = 0 BY SsReadingIs
  <2>4. \A part \in SsTracked' : SsReading[part] = 0 BY <2>3 DEF SsTracked, SsParts
  <2> QED BY <1>1, <2>1, <2>2, <2>3, <2>4 DEF SsFollows, SsFailed
<1>7. SsFresh' BY DEF SsFresh
<1> QED BY <1>3, <1>4, <1>5, <1>6, <1>7 DEF SsInv

\* SsTick: the ticker begins a refresh.
LEMMA SsTickStep == ASSUME SsInv, NEW w \in SsWorkers, SsTick(w) PROVE SsInv'
BY SsBeginStep DEF SsTick, SsInv, SsTyped

\* SsTake: the request in the channel begins a refresh, or is skipped.
LEMMA SsTakeStep == ASSUME SsInv, NEW w \in SsWorkers, SsTake(w) PROVE SsInv'
<1>0. ssSignal /\ ssSignal' = FALSE /\ UNCHANGED <<ssKind, ssSource, ssScreen, ssStored>> BY DEF SsTake
<1>1. ssSignal' \in BOOLEAN BY <1>0
<1>2. ssKind # "workspace" BY <1>0 DEF SsInv, SsTyped
<1>3. CASE SsMayBegin
  <2>1. SsBegin(w) BY <1>3 DEF SsTake
  <2> QED BY <1>0, <1>1, <1>2, <1>3, <2>1, SsBeginStep
<1>4. CASE ~SsMayBegin
  <2>1. ssExcuse' = TRUE /\ ssWork' = ssWork BY <1>4 DEF SsTake
  <2>2. ssExcuse' \in BOOLEAN BY <2>1
  <2>3. SsTyped' BY <1>0, <1>1, <1>2, <2>1, <2>2 DEF SsInv, SsTyped, SsSourceOk
  <2>4. SsHeld' BY <1>0, <2>1 DEF SsInv, SsHeld
  <2>5. SsSingle' BY <1>0, <2>1 DEF SsInv, SsSingle
  <2>6. SsFollows' BY <2>1 DEF SsFollows
  <2>7. SsFresh' BY <1>0, <1>2 DEF SsFresh
  <2> QED BY <2>3, <2>4, <2>5, <2>6, <2>7 DEF SsInv
<1> QED BY <1>3, <1>4

\* SsRequest: a request for the workspace begins to read.
LEMMA SsRequestStep == ASSUME SsInv, NEW w \in SsWorkers, SsRequest(w) PROVE SsInv'
<1>0. /\ SsGo(w, SsReading) /\ SsAt(w, "idle") /\ ssKind = "workspace"
      /\ UNCHANGED <<ssKind, ssSource, ssScreen, ssStored, ssSignal, ssExcuse>>
  BY DEF SsRequest
<1>1. ssWork'[w] = SsReading /\ \A u \in SsWorkers : u # w => ssWork'[u] = ssWork[u] BY <1>0, SsOneMoves
<1>2. SsTyped' BY <1>0, SsOneMoves DEF SsInv, SsTyped, SsSourceOk
<1>3. SsHeld'
  <2>1. SsSourceOk' BY <1>0 DEF SsInv, SsTyped, SsSourceOk
  <2>2. ssSource["p"] <= ssSource'["p"] /\ ssSource["q"] <= ssSource'["q"] BY <1>0 DEF SsInv, SsTyped, SsSourceOk, SsParts
  <2>3. SsWorkOk(SsReading, ssKind, ssSource', ssScreen) BY <2>1, SsBeginOk DEF SsSourceOk
  <2> QED BY <1>0, <2>1, <2>2, <2>3, SsHeldByOne
<1>4. SsSingle' /\ SsFollows' BY <1>0 DEF SsSingle, SsFollows
<1>5. SsFresh'
  <2>1. SsDropped => SsDropped' BY <1>0, <1>1 DEF SsDropped, SsAt
  <2>2. ssWork'[w].p = 0 BY <1>1, SsReadingIs
  <2> QED BY <1>0, <1>1, <2>1, <2>2 DEF SsInv, SsFresh, SsReads
<1> QED BY <1>2, <1>3, <1>4, <1>5 DEF SsInv

\* SsFollows, SsFresh: a worker that neither reads nor asks for a refresh decides nothing.
LEMMA SsQuietStep ==
    ASSUME SsInv, NEW w \in SsWorkers, NEW state, SsGo(w, state),
           UNCHANGED <<ssKind, ssSource, ssScreen, ssSignal, ssExcuse>>,
           ssWork[w].at \in {"persist", "write", "get"}, state.at \in {"idle", "merge"},
           state.at = "merge" => /\ ssWork[w].at = "get" /\ state.v = ssWork[w].v
                                 /\ state.dirty = FALSE => ssWork[w].dirty = FALSE
    PROVE  SsSingle' /\ SsFollows' /\ SsFresh'
<1>1. ssWork'[w] = state /\ \A u \in SsWorkers : u # w => ssWork'[u] = ssWork[u] BY SsOneMoves
<1>2. \A u \in SsWorkers : SsBusy(u)' => SsBusy(u) BY <1>1 DEF SsBusy
<1>3. SsSingle' BY <1>2, SsSingleStays
<1>4. \A u \in SsWorkers : SsReads(ssWork'[u]) => u # w /\ ssWork'[u] = ssWork[u] BY <1>1 DEF SsReads
<1>5. SsPending => SsPending' BY <1>1 DEF SsPending, SsReads
<1>6. SsUnderWay => SsUnderWay' BY <1>1 DEF SsUnderWay, SsReads
<1>7. SsDropped => SsDropped' BY <1>1 DEF SsDropped
<1>8. SsFollows'
  <2> SUFFICES ASSUME ssKind # "workspace", ssExcuse = FALSE PROVE SsFollows' BY DEF SsFollows
  <2>0. SsTracked' = SsTracked BY DEF SsTracked
  <2>1. \A part \in SsTracked' : SsPending' \/ SsUnderWay' \/ ssScreen'[part] = ssSource'[part]
    BY <2>0, <1>5, <1>6 DEF SsInv, SsFollows
  <2>2. ASSUME NEW u \in SsWorkers, SsReads(ssWork'[u])
        PROVE  /\ ssWork'[u].p # SsFailed /\ ssWork'[u].q # SsFailed
               /\ \A part \in SsTracked' : SsPending' \/ ssWork'[u][part] \in {0, ssSource'[part]}
    <3>1. ssWork'[u] = ssWork[u] /\ SsReads(ssWork[u]) BY <1>4, <2>2
    <3>2. \A part \in SsTracked : SsPending \/ ssWork[u][part] \in {0, ssSource[part]}
      BY <3>1 DEF SsInv, SsFollows
    <3>3. ssWork[u].p # SsFailed /\ ssWork[u].q # SsFailed BY <3>1 DEF SsInv, SsFollows
    <3> QED BY <2>0, <3>1, <3>2, <3>3, <1>5
  <2>3. ASSUME NEW u \in SsWorkers, ssWork'[u].at \in {"get", "merge"} /\ ssWork'[u].dirty = FALSE
        PROVE  SsPending' \/ SsUnderWay' \/ ssWork'[u].v = ssSource'["p"]
    <3>1. ssWork[u].at \in {"get", "merge"} /\ ssWork[u].dirty = FALSE /\ ssWork'[u].v = ssWork[u].v BY <1>1, <2>3
    <3> QED BY <3>1, <1>5, <1>6 DEF SsInv, SsFollows
  <2> QED BY <2>1, <2>2, <2>3 DEF SsFollows
<1>9. SsFresh' BY <1>4, <1>7 DEF SsInv, SsFresh
<1> QED BY <1>3, <1>8, <1>9

\* SsPersist: the stored snapshot becomes one that was in memory.
LEMMA SsPersistStep == ASSUME SsInv, NEW w \in SsWorkers, SsPersist(w) PROVE SsInv'
<1>0. /\ SsGo(w, SsIdle) /\ ssWork[w].at \in {"persist", "write"}
      /\ UNCHANGED <<ssKind, ssSource, ssScreen, ssSignal, ssExcuse>>
      /\ ssStored' \in {ssWork[w].made, ssStored}
  BY DEF SsPersist
<1>1. SsIdle.at = "idle" BY DEF SsIdle
<1>2. SsRowOk(ssWork[w].made, ssKind, ssSource) /\ ssKind # "workspace" BY <1>0, SsWorkForms DEF SsWorkOk
<1>3. SsTyped'
  <2>1. SsRowOk(ssStored, ssKind, ssSource)' BY <1>0, <1>2 DEF SsInv, SsTyped
  <2> QED BY <1>0, <1>2, <2>1, SsOneMoves DEF SsInv, SsTyped, SsSourceOk
<1>4. SsHeld'
  <2>1. SsSourceOk' BY <1>0 DEF SsInv, SsTyped, SsSourceOk
  <2>2. ssSource["p"] <= ssSource'["p"] /\ ssSource["q"] <= ssSource'["q"] BY <1>0 DEF SsInv, SsTyped, SsSourceOk, SsParts
  <2>3. SsWorkOk(SsIdle, ssKind, ssSource', ssScreen) BY <2>1, SsBeginOk DEF SsSourceOk
  <2> QED BY <1>0, <2>1, <2>2, <2>3, SsHeldByOne
<1>5. SsSingle' /\ SsFollows' /\ SsFresh' BY <1>0, <1>1, SsQuietStep
<1> QED BY <1>3, <1>4, <1>5 DEF SsInv

\* SsGet: the merge begins from the screen it reads.
LEMMA SsGetStep == ASSUME SsInv, NEW w \in SsWorkers, SsGet(w) PROVE SsInv'
<1> PICK r : r = ssWork[w] OBVIOUS
<1> PICK state : /\ SsGo(w, state)
                 /\ state = IF ssScreen.p = 0 THEN SsIdle
                            ELSE [at |-> "merge", base |-> ssScreen, v |-> r.v, dirty |-> r.dirty]
  BY DEF SsGet
<1>0. r.at = "get" /\ UNCHANGED <<ssKind, ssSource, ssScreen, ssStored, ssSignal, ssExcuse>> BY DEF SsGet, SsAt
<1>1. r \in SsSignals /\ SsToldOk(r, ssKind, ssSource, ssScreen) BY <1>0, SsWorkForms DEF SsWorkOk
<1>2. r.part = "p" /\ ssKind = "registry" /\ r.v <= ssSource["p"] /\ (r.dirty = FALSE => ssScreen.p <= r.v)
  BY <1>0, <1>1 DEF SsToldOk
<1>3. SsRowOk(ssScreen, ssKind, ssSource) BY DEF SsInv, SsTyped
<1>4. /\ state.at \in {"idle", "merge"} /\ SsWorkOk(state, ssKind, ssSource, ssScreen)
      /\ state.at = "merge" => state.v = r.v /\ state.dirty = r.dirty
  <2>1. CASE ssScreen.p = 0
    <3>1. state.at = "idle" BY <2>1 DEF SsIdle
    <3> QED BY <2>1, <3>1, SsBeginOk DEF SsInv, SsTyped, SsSourceOk
  <2>2. CASE ssScreen.p # 0
    <3>1. state = [at |-> "merge", base |-> ssScreen, v |-> r.v, dirty |-> r.dirty] BY <2>2
    <3>2. r.v \in Nat \ {0} /\ r.dirty \in BOOLEAN BY <1>1 DEF SsSignals
    <3>3. state \in SsMerges BY <1>3, <3>1, <3>2 DEF SsMerges, SsRowOk
    <3>4. state.at = "merge" /\ state.base = ssScreen /\ state.v = r.v /\ state.dirty = r.dirty BY <3>1
    <3>5. SsMergeOk(state, ssKind, ssSource, ssScreen) BY <1>2, <1>3, <2>2, <3>4 DEF SsMergeOk
    <3> QED BY <3>3, <3>4, <3>5 DEF SsWorkOk, SsWorks
  <2> QED BY <2>1, <2>2
<1>5. SsTyped' BY <1>0, SsOneMoves DEF SsInv, SsTyped, SsSourceOk
<1>6. SsHeld'
  <2>1. SsSourceOk' BY <1>0 DEF SsInv, SsTyped, SsSourceOk
  <2>2. ssSource["p"] <= ssSource'["p"] /\ ssSource["q"] <= ssSource'["q"] BY <1>0 DEF SsInv, SsTyped, SsSourceOk, SsParts
  <2> QED BY <1>0, <1>4, <2>1, <2>2, SsHeldByOne
<1>7. SsSingle' /\ SsFollows' /\ SsFresh' BY <1>0, <1>4, SsQuietStep
<1> QED BY <1>5, <1>6, <1>7 DEF SsInv

\* SsChange: the change is under way to the screen from the moment it is made.
LEMMA SsChangeStep ==
    ASSUME SsInv, NEW w \in SsWorkers, NEW part \in SsParts, SsChange(w, part)
    PROVE  SsInv'
<1> PICK b : b = FALSE OBVIOUS
<1> b \in BOOLEAN OBVIOUS
<1> PICK n : n = ssSource[part] + 1 OBVIOUS
<1> PICK state : SsGo(w, state) /\ state = [at |-> "signal", part |-> part, v |-> n, dirty |-> b]
  BY DEF SsChange
<1>0. /\ ssSource' = [ssSource EXCEPT ![part] = n] /\ SsAt(w, "idle")
      /\ UNCHANGED <<ssKind, ssScreen, ssStored, ssSignal, ssExcuse>>
  BY DEF SsChange, SsNewer
<1>1. ssWork'[w] = state /\ \A u \in SsWorkers : u # w => ssWork'[u] = ssWork[u] BY SsOneMoves
<1>2. /\ SsSourceOk' /\ ssSource["p"] <= ssSource'["p"] /\ ssSource["q"] <= ssSource'["q"]
      /\ ssSource'[part] = n /\ ssSource[part] < n /\ n \in Nat \ {0}
  BY <1>0 DEF SsInv, SsTyped, SsSourceOk, SsParts
<1>3. SsTyped'
  <2>1. SsRowOk(ssScreen, ssKind, ssSource)' /\ SsRowOk(ssStored, ssKind, ssSource)'
    BY <1>0, <1>2 DEF SsInv, SsTyped, SsRowOk, SsRows, SsSourceOk, SsParts
  <2> QED BY <1>0, <1>2, <2>1, SsOneMoves DEF SsInv, SsTyped
<1>4. state \in SsSignals /\ state.at = "signal" /\ state.part = part /\ state.v = n BY <1>2 DEF SsSignals
<1>5. SsHeld'
  <2>1. part = "p" => ssScreen.p <= n BY <1>2 DEF SsInv, SsTyped, SsRowOk, SsRows, SsSourceOk, SsParts
  <2>2. SsToldOk(state, ssKind, ssSource', ssScreen) BY <1>2, <1>4, <2>1 DEF SsToldOk
  <2>3. SsWorkOk(state, ssKind, ssSource', ssScreen) BY <1>4, <2>2 DEF SsWorkOk, SsWorks
  <2> QED BY <1>0, <1>2, <2>3, SsHeldByOne
<1>6. SsSingle'
  <2>1. \A u \in SsWorkers : SsBusy(u)' => SsBusy(u) BY <1>1, <1>4 DEF SsBusy
  <2> QED BY <1>0, <2>1, SsSingleStays
<1>7. SsFollows'
  <2> SUFFICES ASSUME ssKind # "workspace", ssExcuse = FALSE PROVE SsFollows' BY <1>0 DEF SsFollows
  <2>1. SsPending' BY <1>1, <1>4 DEF SsPending
  <2>2. ASSUME NEW u \in SsWorkers, SsReads(ssWork'[u])
        PROVE  ssWork'[u].p # SsFailed /\ ssWork'[u].q # SsFailed
    <3>1. ssWork'[u] = ssWork[u] BY <1>1, <1>4, <2>2 DEF SsReads
    <3> QED BY <2>2, <3>1 DEF SsInv, SsFollows
  <2> QED BY <2>1, <2>2 DEF SsFollows
<1>8. SsFresh'
  <2> SUFFICES ASSUME ssKind = "workspace" PROVE SsFresh' BY <1>0 DEF SsFresh
  <2>1. CASE part = "p"
    <3>1. SsDropped' BY <1>1, <1>4, <2>1 DEF SsDropped
    <3> QED BY <3>1 DEF SsFresh
  <2>2. CASE part = "q"
    <3>1. ssSource'["p"] = ssSource["p"] BY <1>0, <2>2 DEF SsInv, SsTyped, SsSourceOk, SsParts
    <3>2. SsDropped => SsDropped' BY <1>0, <1>1 DEF SsDropped, SsAt
    <3>3. ssExcuse' = FALSE => ssScreen'.p = 0 \/ ssScreen'.p = ssSource'["p"] \/ SsDropped'
      BY <1>0, <3>1, <3>2 DEF SsInv, SsFresh
    <3>4. ASSUME NEW u \in SsWorkers, SsReads(ssWork'[u]) /\ ssWork'[u].dirty = FALSE
          PROVE  ssWork'[u].p \in {0, SsFailed, ssSource'["p"]} \/ SsDropped'
      <4>1. ssWork'[u] = ssWork[u] BY <1>1, <1>4, <3>4 DEF SsReads
      <4> QED BY <3>1, <3>2, <3>4, <4>1 DEF SsInv, SsFresh
    <3> QED BY <3>3, <3>4 DEF SsFresh
  <2> QED BY <2>1, <2>2 DEF SsParts
<1> QED BY <1>3, <1>5, <1>6, <1>7, <1>8 DEF SsInv

\* SsQuiet: a change nobody is told of excuses the screen, and marks the requests it overtakes.
LEMMA SsUnannouncedStep == ASSUME SsInv, NEW part \in SsParts, SsQuiet(part) PROVE SsInv'
<1> PICK n : n = ssSource[part] + 1 OBVIOUS
<1>0. /\ ssSource' = [ssSource EXCEPT ![part] = n] /\ ssExcuse' = TRUE
      /\ ssWork' = IF ssKind = "workspace" THEN [u \in SsWorkers |-> SsMark(ssWork[u])] ELSE ssWork
      /\ UNCHANGED <<ssKind, ssScreen, ssStored, ssSignal>>
  BY DEF SsQuiet, SsNewer
<1>1. SsSourceOk' /\ ssSource["p"] <= ssSource'["p"] /\ ssSource["q"] <= ssSource'["q"]
  BY <1>0 DEF SsInv, SsTyped, SsSourceOk, SsParts
<1>2. SsTyped'
  <2>1. SsRowOk(ssScreen, ssKind, ssSource)' /\ SsRowOk(ssStored, ssKind, ssSource)'
    BY <1>0, <1>1 DEF SsInv, SsTyped, SsRowOk, SsRows, SsSourceOk, SsParts
  <2>2. ssExcuse' \in BOOLEAN BY <1>0
  <2>3. DOMAIN ssWork' = SsWorkers BY <1>0 DEF SsInv, SsTyped
  <2> QED BY <1>0, <1>1, <2>1, <2>2, <2>3 DEF SsInv, SsTyped
<1>3. ASSUME NEW u \in SsWorkers PROVE SsWorkOk(ssWork[u], ssKind, ssSource', ssScreen)
  BY <1>1, SsWorkGrows, SsWorkForms DEF SsInv, SsTyped, SsSourceOk
<1>4. CASE ssKind = "workspace"
  <2>1. ASSUME NEW u \in SsWorkers
        PROVE  /\ SsWorkOk(ssWork'[u], ssKind, ssSource', ssScreen)
               /\ SsReads(ssWork'[u]) => ssWork'[u].dirty # FALSE
    <3> PICK o, m : o = ssWork[u] /\ m = SsMark(o) OBVIOUS
    <3>1. ssWork'[u] = m BY <1>0, <1>4
    <3>2. o \in SsWorks BY SsWorkForms
    <3>3. SsWorkOk(m, ssKind, ssSource', ssScreen) BY <1>3, <1>4, SsMarkKeeps
    <3>4. m.at = o.at /\ (o.at \in {"read", "save"} => m.dirty = TRUE) BY <3>2, SsMarkAt
    <3> QED BY <3>1, <3>3, <3>4 DEF SsReads
  <2>2. SsHeld' BY <2>1, <1>0 DEF SsHeld
  <2>3. SsFresh' BY <2>1, <1>0 DEF SsFresh
  <2> QED BY <1>0, <1>2, <1>4, <2>2, <2>3 DEF SsInv, SsSingle, SsFollows
<1>5. CASE ssKind # "workspace"
  <2>1. ssWork' = ssWork BY <1>0, <1>5
  <2>2. SsHeld' BY <1>0, <1>3, <2>1 DEF SsHeld
  <2>3. SsSingle' BY <1>0, <2>1 DEF SsInv, SsSingle
  <2>4. SsFollows' BY <1>0 DEF SsFollows
  <2>5. SsFresh' BY <1>0, <1>5 DEF SsFresh
  <2> QED BY <1>2, <2>2, <2>3, <2>4, <2>5 DEF SsInv
<1> QED BY <1>4, <1>5

\* SsSignal: the change asks for a refresh, or drops the workspace and marks its readers.
LEMMA SsSignalStep == ASSUME SsInv, NEW w \in SsWorkers, SsSignal(w) PROVE SsInv'
<1> PICK r : r = ssWork[w] OBVIOUS
<1> PICK next : next = IF ssKind = "registry" /\ r.part = "p" THEN [r EXCEPT !.at = "get"] ELSE SsIdle OBVIOUS
<1>0. /\ r.at = "signal" /\ UNCHANGED <<ssKind, ssSource, ssStored, ssExcuse>>
      /\ ssSignal' = (ssSignal \/ ssKind # "workspace")
      /\ ssScreen' = IF SsDrops(r.part) THEN SsNone ELSE ssScreen
      /\ ssWork' = IF SsDrops(r.part) THEN SsMarked(w, next) ELSE [ssWork EXCEPT ![w] = next]
  BY DEF SsSignal, SsAt
<1>1. r \in SsSignals /\ SsToldOk(r, ssKind, ssSource, ssScreen) BY <1>0, SsWorkForms DEF SsWorkOk
<1>2. ssSignal' \in BOOLEAN /\ (ssKind = "workspace" => ssSignal' = FALSE) /\ (ssKind # "workspace" => ssSignal' = TRUE)
  BY <1>0 DEF SsInv, SsTyped
<1>3. /\ next.at \in {"idle", "get"} /\ (next.at = "get" => ssKind = "registry")
      /\ SsWorkOk(next, ssKind, ssSource, ssScreen) /\ (ssKind = "workspace" => next = SsIdle)
  <2>1. CASE ssKind = "registry" /\ r.part = "p"
    <3>1. next = [r EXCEPT !.at = "get"] BY <2>1
    <3>2. next \in SsSignals /\ next.at = "get" /\ next.part = r.part /\ next.v = r.v /\ next.dirty = r.dirty
      BY <1>1, <3>1 DEF SsSignals
    <3>3. SsToldOk(next, ssKind, ssSource, ssScreen) BY <1>1, <2>1, <3>2 DEF SsToldOk
    <3> QED BY <2>1, <3>2, <3>3 DEF SsWorkOk, SsWorks
  <2>2. CASE ~(ssKind = "registry" /\ r.part = "p")
    <3>1. next = SsIdle BY <2>2
    <3>2. next.at = "idle" BY <3>1 DEF SsIdle
    <3> QED BY <3>1, <3>2, SsBeginOk DEF SsInv, SsTyped, SsSourceOk
  <2> QED BY <2>1, <2>2
<1>4. CASE SsDrops(r.part)
  <2>0. ssScreen' = SsNone /\ ssWork' = SsMarked(w, next) /\ ssKind = "workspace" /\ next = SsIdle
    BY <1>0, <1>3, <1>4 DEF SsDrops
  <2>1. ssWork'[w] = next /\ \A u \in SsWorkers : u # w => ssWork'[u] = SsMark(ssWork[u]) BY <2>0, SsOthersMarked
  <2>2. SsRowOk(SsNone, ssKind, ssSource)
    BY DEF SsRowOk, SsNone, SsRows, SsStatuses, SsInv, SsTyped, SsSourceOk, SsParts
  <2>3. SsTyped' BY <1>0, <1>2, <2>0, <2>2, SsOthersMarked DEF SsInv, SsTyped, SsSourceOk
  <2>4. SsHeld'
    <3>1. SsWorkOk(next, ssKind, ssSource, ssScreen') BY <2>0, SsBeginOk DEF SsInv, SsTyped, SsSourceOk
    <3> QED BY <1>0, <2>0, <3>1, SsHeldByWriter
  <2>5. SsSingle' /\ SsFollows' BY <1>0, <2>0 DEF SsSingle, SsFollows
  <2>6. SsFresh'
    <3>1. ssScreen'.p = 0 BY <2>0 DEF SsNone
    <3>2. ASSUME NEW u \in SsWorkers, SsReads(ssWork'[u]) PROVE ssWork'[u].dirty # FALSE
      <4>1. u # w BY <2>1, <3>2, <1>3 DEF SsReads
      <4> PICK m : m = SsMark(ssWork[u]) OBVIOUS
      <4>2. ssWork'[u] = m BY <2>1, <4>1
      <4> PICK o : o = ssWork[u] OBVIOUS
      <4>3. o \in SsWorks BY SsWorkForms
      <4>4. m.at = o.at /\ (o.at \in {"read", "save"} => m.dirty = TRUE) BY <4>3, SsMarkAt
      <4>5. m.at \in {"read", "save"} BY <3>2, <4>2 DEF SsReads
      <4>6. m.dirty = TRUE BY <4>4, <4>5
      <4> QED BY <4>2, <4>6
    <3> QED BY <3>1, <3>2 DEF SsFresh
  <2> QED BY <2>3, <2>4, <2>5, <2>6 DEF SsInv
<1>5. CASE ~SsDrops(r.part)
  <2>0. ssScreen' = ssScreen /\ SsGo(w, next) BY <1>0, <1>5 DEF SsGo
  <2>1. ssWork'[w] = next /\ \A u \in SsWorkers : u # w => ssWork'[u] = ssWork[u] BY <2>0, SsOneMoves
  <2>2. SsTyped' BY <1>0, <1>2, <2>0, SsOneMoves DEF SsInv, SsTyped, SsSourceOk
  <2>3. SsHeld'
    <3>1. SsSourceOk' BY <1>0 DEF SsInv, SsTyped, SsSourceOk
    <3>2. ssSource["p"] <= ssSource'["p"] /\ ssSource["q"] <= ssSource'["q"] BY <1>0 DEF SsInv, SsTyped, SsSourceOk, SsParts
    <3> QED BY <1>0, <1>3, <2>0, <3>1, <3>2, SsHeldByOne
  <2>4. SsSingle'
    <3>1. \A u \in SsWorkers : SsBusy(u)' => SsBusy(u) BY <1>3, <2>1 DEF SsBusy
    <3> QED BY <1>0, <3>1, SsSingleStays
  <2>5. \A u \in SsWorkers : SsReads(ssWork'[u]) => ssWork'[u] = ssWork[u] BY <1>3, <2>1 DEF SsReads
  <2>6. SsFollows'
    <3> SUFFICES ASSUME ssKind # "workspace", ssExcuse = FALSE PROVE SsFollows' BY <1>0 DEF SsFollows
    <3>1. SsPending' BY <1>2 DEF SsPending
    <3>2. \A u \in SsWorkers : SsReads(ssWork'[u]) => ssWork'[u].p # SsFailed /\ ssWork'[u].q # SsFailed
      BY <2>5 DEF SsInv, SsFollows
    <3> QED BY <3>1, <3>2 DEF SsFollows
  <2>7. SsFresh'
    <3> SUFFICES ASSUME ssKind = "workspace" PROVE SsFresh' BY <1>0 DEF SsFresh
    <3>1. r.part # "p" BY <1>5 DEF SsDrops
    <3>2. SsDropped => SsDropped' BY <2>1, <3>1 DEF SsDropped
    <3> QED BY <1>0, <2>0, <2>5, <3>2 DEF SsInv, SsFresh
  <2> QED BY <2>2, <2>3, <2>4, <2>6, <2>7 DEF SsInv
<1> QED BY <1>4, <1>5

SsAnswered(r, part, v) == [r EXCEPT ![part] = v]
SsGoesOn(r) == IF SsWanted(r) = {} THEN [r EXCEPT !.at = "save"] ELSE r

\* SsRead: what one answer makes of a reading, which goes on to the save when nothing is left.
LEMMA SsReadMakes ==
    ASSUME ssKind \in SsKinds, NEW r \in SsReadings, r.at = "read", NEW part \in SsWanted(r),
           NEW v \in Nat \cup {SsFailed}, v # 0, NEW new, new = SsAnswered(r, part, v),
           NEW state, state = SsGoesOn(new)
    PROVE  /\ part \in SsParts /\ state \in SsReadings /\ state.dirty = r.dirty
           /\ part = "p" => state.p = v /\ state.q = r.q
           /\ part = "q" => state.q = v /\ state.p = r.p
           /\ state.at = "save" => state.p # 0 /\ (state.q # 0 \/ ssKind = "plans"
                                       \/ (ssKind \in {"commercial", "partners"} /\ state.p = SsFailed))
<1>1. part \in SsParts BY DEF SsWanted, SsParts
<1>2. new \in SsReadings /\ new.dirty = r.dirty /\ new.at = "read"
  <2>1. CASE part = "p"
    <3>1. new = [r EXCEPT !.p = v] BY <2>1 DEF SsAnswered
    <3> QED BY <3>1 DEF SsReadings
  <2>2. CASE part = "q"
    <3>1. new = [r EXCEPT !.q = v] BY <2>2 DEF SsAnswered
    <3> QED BY <3>1 DEF SsReadings
  <2> QED BY <1>1, <2>1, <2>2 DEF SsParts
<1>3. (part = "p" => new.p = v /\ new.q = r.q) /\ (part = "q" => new.q = v /\ new.p = r.p)
  <2>1. CASE part = "p"
    <3>1. new = [r EXCEPT !.p = v] BY <2>1 DEF SsAnswered
    <3> QED BY <2>1, <3>1 DEF SsReadings
  <2>2. CASE part = "q"
    <3>1. new = [r EXCEPT !.q = v] BY <2>2 DEF SsAnswered
    <3> QED BY <2>2, <3>1 DEF SsReadings
  <2> QED BY <1>1, <2>1, <2>2 DEF SsParts
<1>4. CASE SsWanted(new) = {}
  <2>1. state = [new EXCEPT !.at = "save"] BY <1>4 DEF SsGoesOn
  <2>2. state \in SsReadings /\ state.dirty = new.dirty /\ state.p = new.p /\ state.q = new.q
    BY <1>2, <2>1 DEF SsReadings
  <2>3. new.p = new["p"] /\ new.q = new["q"] OBVIOUS
  <2>4. CASE ssKind = "plans"
    <3>1. "p" \notin {"p"} \ {i \in SsParts : new[i] # 0} BY <1>4, <2>4 DEF SsWanted
    <3>2. new["p"] # 0 BY <3>1
    <3> QED BY <1>1, <1>2, <1>3, <2>2, <2>3, <2>4, <3>2
  <2>5. CASE ssKind # "plans" /\ SsInTurn /\ new.p = SsFailed
    <3>1. SsFailed # 0 BY DEF SsFailed
    <3>2. new.p # 0 BY <2>5, <3>1
    <3> QED BY <1>1, <1>2, <1>3, <2>2, <2>5, <3>2 DEF SsInTurn
  <2>6. CASE ssKind # "plans" /\ ~(SsInTurn /\ new.p = SsFailed)
    <3>1. ~(SsInTurn /\ new.p = 0) BY <1>4, <2>6 DEF SsWanted
    <3>2. {i \in SsParts : new[i] = 0} = {} BY <1>4, <2>6, <3>1 DEF SsWanted
    <3>3. new["p"] # 0 /\ new["q"] # 0 BY <3>2 DEF SsParts
    <3> QED BY <1>1, <1>2, <1>3, <2>2, <2>3, <3>3
  <2> QED BY <2>4, <2>5, <2>6
<1>5. CASE SsWanted(new) # {}
  <2>1. state = new BY <1>5 DEF SsGoesOn
  <2> QED BY <1>1, <1>2, <1>3, <2>1
<1> QED BY <1>4, <1>5

\* SsRead: a part that is read is the one the service holds, and a failed read excuses the refresh.
LEMMA SsReadStep == ASSUME SsInv, NEW w \in SsWorkers, SsRead(w) PROVE SsInv'
<1> PICK r : r = ssWork[w] OBVIOUS
<1>a. PICK part \in SsWanted(r), v \in {SsFailed} \cup SsVersions :
        /\ SsAnswer(part, v) /\ SsGo(w, SsGoesOn(SsAnswered(r, part, v)))
        /\ ssExcuse' = (ssExcuse \/ (v = SsFailed /\ ssKind # "workspace"))
  BY DEF SsRead, SsGoesOn, SsAnswered
<1>b. PICK new : new = SsAnswered(r, part, v) OBVIOUS
<1>c. PICK state : SsGo(w, state) /\ state = SsGoesOn(new) BY <1>a, <1>b
<1>0. r.at = "read" /\ UNCHANGED <<ssKind, ssSource, ssScreen, ssStored, ssSignal>> BY DEF SsRead, SsAt
<1>1. r \in SsReadings /\ SsReadOk(r, ssKind, ssSource, ssScreen) BY <1>0, SsWorkForms DEF SsWorkOk
<1>2. v \in Nat \cup {SsFailed} /\ v # 0 BY SsAssumption DEF SsVersions, SsFailed
<1>3. /\ part \in SsParts /\ state \in SsReadings /\ state.dirty = r.dirty
      /\ part = "p" => state.p = v /\ state.q = r.q
      /\ part = "q" => state.q = v /\ state.p = r.p
      /\ state.at = "save" => state.p # 0 /\ (state.q # 0 \/ ssKind = "plans"
                                  \/ (ssKind \in {"commercial", "partners"} /\ state.p = SsFailed))
  BY <1>0, <1>1, <1>2, <1>b, <1>c, SsReadMakes DEF SsInv, SsTyped
<1>4. state.at \in {"read", "save"} BY <1>3 DEF SsReadings
<1>5. v \in {ssSource[part], SsFailed} BY <1>a DEF SsAnswer
<1>6. ssWork'[w] = state /\ \A u \in SsWorkers : u # w => ssWork'[u] = ssWork[u] BY <1>c, SsOneMoves
<1>7. ssExcuse' \in BOOLEAN /\ (ssExcuse' = FALSE => ssExcuse = FALSE /\ (v = SsFailed => ssKind = "workspace"))
  <2>1. ssExcuse \in BOOLEAN BY DEF SsInv, SsTyped
  <2> QED BY <1>a, <2>1, Zenon
<1>8. SsTyped' BY <1>0, <1>7, <1>c, SsOneMoves DEF SsInv, SsTyped, SsSourceOk
<1>9. SsHeld'
  <2>1. SsSourceOk' BY <1>0 DEF SsInv, SsTyped, SsSourceOk
  <2>2. ssSource["p"] <= ssSource'["p"] /\ ssSource["q"] <= ssSource'["q"] BY <1>0 DEF SsInv, SsTyped, SsSourceOk, SsParts
  <2>3. /\ ssSource["p"] \in Nat /\ ssSource["q"] \in Nat
        /\ ssScreen.p \in Nat /\ ssScreen.q \in Nat /\ ssScreen.p <= ssSource["p"] /\ ssScreen.q <= ssSource["q"]
    BY DEF SsInv, SsTyped, SsSourceOk, SsParts, SsRowOk, SsRows
  <2>4. state.p <= ssSource["p"] /\ state.q <= ssSource["q"]
    BY <1>1, <1>3, <1>5, <2>3 DEF SsReadOk, SsParts, SsFailed
  <2>5. state.dirty = FALSE => (state.p > 0 => ssScreen.p <= state.p) /\ (state.q > 0 => ssScreen.q <= state.q)
    BY <1>1, <1>3, <1>5, <2>3 DEF SsReadOk, SsParts, SsFailed
  <2>6. SsReadOk(state, ssKind, ssSource, ssScreen) BY <1>1, <1>3, <2>4, <2>5 DEF SsReadOk
  <2>7. SsWorkOk(state, ssKind, ssSource', ssScreen) BY <1>0, <1>3, <1>4, <2>6 DEF SsWorkOk, SsWorks
  <2> QED BY <1>0, <1>c, <2>1, <2>2, <2>7, SsHeldByOne
<1>10. SsSingle'
  <2>1. \A u \in SsWorkers : SsBusy(u)' => SsBusy(u) BY <1>0, <1>6 DEF SsBusy
  <2> QED BY <1>0, <2>1, SsSingleStays
<1>11. \A u \in SsWorkers : SsReads(ssWork'[u]) <=> SsReads(ssWork[u]) BY <1>0, <1>4, <1>6 DEF SsReads
<1>12. SsDropped => SsDropped' BY <1>0, <1>6 DEF SsDropped
<1>13. SsFollows'
  <2> SUFFICES ASSUME ssKind # "workspace", ssExcuse' = FALSE PROVE SsFollows' BY <1>0 DEF SsFollows
  <2>0. ssExcuse = FALSE /\ v = ssSource[part] /\ v # SsFailed /\ SsTracked' = SsTracked
    BY <1>0, <1>5, <1>7 DEF SsTracked
  <2>1. SsPending => SsPending' BY <1>0, <1>3, <1>6, <1>11 DEF SsPending, SsReads
  <2>2. SsUnderWay' BY <1>4, <1>6 DEF SsUnderWay, SsReads
  <2>3. ASSUME NEW u \in SsWorkers, SsReads(ssWork'[u])
        PROVE  /\ ssWork'[u].p # SsFailed /\ ssWork'[u].q # SsFailed
               /\ \A i \in SsTracked' : SsPending' \/ ssWork'[u][i] \in {0, ssSource'[i]}
    <3>1. /\ ssWork[u].p # SsFailed /\ ssWork[u].q # SsFailed
          /\ \A i \in SsTracked : SsPending \/ ssWork[u][i] \in {0, ssSource[i]}
      BY <2>0, <2>3, <1>11 DEF SsInv, SsFollows
    <3>2. CASE u # w
      BY <3>1, <3>2, <2>0, <2>1, <1>0, <1>6
    <3>3. CASE u = w
      <4>1. state.p # SsFailed /\ state.q # SsFailed BY <3>1, <3>3, <2>0, <1>3 DEF SsParts
      <4>2. ASSUME NEW i \in SsTracked PROVE SsPending' \/ state[i] \in {0, ssSource[i]}
        <5>1. i \in SsParts BY DEF SsTracked, SsParts
        <5>2. CASE i = part
          <6>1. state[i] = v BY <5>1, <5>2, <1>3 DEF SsParts
          <6> QED BY <5>2, <6>1, <2>0
        <5>3. CASE i # part
          <6>1. state[i] = r[i] BY <5>1, <5>3, <1>3 DEF SsParts
          <6> QED BY <6>1, <3>1, <3>3, <2>1
        <5> QED BY <5>2, <5>3
      <4> QED BY <4>1, <4>2, <3>3, <2>0, <1>0, <1>6
    <3> QED BY <3>2, <3>3
  <2> QED BY <2>2, <2>3 DEF SsFollows
<1>14. SsFresh'
  <2> SUFFICES ASSUME ssKind = "workspace" PROVE SsFresh' BY <1>0 DEF SsFresh
  <2>1. ssExcuse' = FALSE => ssExcuse = FALSE BY <1>7
  <2>2. ssExcuse' = FALSE => ssScreen'.p = 0 \/ ssScreen'.p = ssSource'["p"] \/ SsDropped'
    BY <1>0, <1>12, <2>1 DEF SsInv, SsFresh
  <2>3. ASSUME NEW u \in SsWorkers, SsReads(ssWork'[u]) /\ ssWork'[u].dirty = FALSE
        PROVE  ssWork'[u].p \in {0, SsFailed, ssSource'["p"]} \/ SsDropped'
    <3>1. CASE u # w
      BY <3>1, <2>3, <1>0, <1>6, <1>12 DEF SsInv, SsFresh
    <3>2. CASE u = w
      <4>1. SsReads(ssWork[u]) /\ ssWork[u].dirty = FALSE BY <3>2, <2>3, <1>3, <1>6, <1>11
      <4>2. r.p \in {0, SsFailed, ssSource["p"]} \/ SsDropped BY <3>2, <4>1 DEF SsInv, SsFresh
      <4>3. state.p \in {0, SsFailed, ssSource["p"]} \/ SsDropped BY <4>2, <1>3, <1>5 DEF SsParts
      <4> QED BY <3>2, <4>3, <1>0, <1>6, <1>12
    <3> QED BY <3>1, <3>2
  <2> QED BY <2>2, <2>3 DEF SsFresh
<1> QED BY <1>8, <1>9, <1>10, <1>13, <1>14 DEF SsInv

\* SsMade: what a refresh makes of the screen it finds is no newer than the services, shows what was
\* read, empties nothing, and is not older than the screen unless the reading was overtaken.
SsMadeWell(made, r, screen) ==
    /\ SsRowOk(made, ssKind, ssSource)
    /\ ssKind # "workspace" /\ r.p # SsFailed /\ r.q # SsFailed =>
          made.p = r.p /\ (ssKind # "plans" => made.q = r.q)
    /\ screen.p # 0 => made.p # 0
    /\ screen.q # 0 => made.q # 0 \/ ssKind \in {"partners", "activity", "trend"}
    /\ r.dirty = FALSE => made.p >= screen.p /\ (made.q >= screen.q \/ made.q = 0)
    /\ ssKind = "workspace" => made = IF r.p # SsFailed /\ r.q # SsFailed
                                      THEN [p |-> r.p, q |-> r.q, status |-> "healthy"] ELSE screen
\* SsMade: and so it is for every screen.
LEMMA SsMadeIsWell ==
    ASSUME SsInv, NEW w \in SsWorkers, SsAt(w, "save"), NEW r, r = ssWork[w],
           NEW made, made = SsMade(ssScreen, r.p, r.q)
    PROVE  SsMadeWell(made, r, ssScreen)
<1> PICK p, q : p = r.p /\ q = r.q OBVIOUS
<1>1. /\ r.at = "save" /\ r \in SsReadings /\ SsReadOk(r, ssKind, ssSource, ssScreen)
  BY SsWorkForms DEF SsAt, SsWorkOk
<1>2. /\ p \in Nat \cup {SsFailed} /\ q \in Nat \cup {SsFailed} /\ SsFailed = -1 /\ p <= ssSource["p"] /\ q <= ssSource["q"]
      /\ p # 0 /\ (q # 0 \/ ssKind = "plans" \/ (ssKind \in {"commercial", "partners"} /\ p = SsFailed))
      /\ r.dirty = FALSE => (p > 0 => ssScreen.p <= p) /\ (q > 0 => ssScreen.q <= q)
  BY <1>1 DEF SsReadings, SsReadOk, SsFailed
<1>3. /\ ssSource["p"] \in Nat \ {0} /\ ssSource["q"] \in Nat \ {0} /\ ssKind \in SsKinds
      /\ SsRowOk(ssScreen, ssKind, ssSource) /\ SsRowOk(ssStored, ssKind, ssSource)
  BY DEF SsInv, SsTyped, SsSourceOk, SsParts
<1>4. SsRowOk(SsNone, ssKind, ssSource) /\ SsRowOk(SsEmpty(0, 0), ssKind, ssSource)
  BY <1>3 DEF SsRowOk, SsRows, SsStatuses, SsNone, SsEmpty
<1>5. /\ SsNone.p = 0 /\ SsNone.q = 0 /\ SsEmpty(0, 0).p = 0 /\ SsEmpty(0, 0).q = 0
  BY DEF SsNone, SsEmpty
<1>6. SsGot(p) <=> p # SsFailed BY DEF SsGot
<1>7. SsGot(q) <=> q # SsFailed BY DEF SsGot
<1>8. made = SsMade(ssScreen, p, q) OBVIOUS
<1>9. CASE ssKind = "registry"
  <2>1. made = SsRegistry(ssScreen, p, q) BY <1>8, <1>9 DEF SsMade
  <2>2. CASE p # SsFailed /\ q # SsFailed
    <3>1. made = [p |-> p, q |-> q, status |-> "healthy"] BY <2>1, <2>2, <1>6, <1>7 DEF SsRegistry
    <3>2. SsRowOk(made, ssKind, ssSource) BY <3>1, <2>2, <1>2, <1>9 DEF SsRowOk, SsRows, SsStatuses
    <3>3. made.p = p /\ made.q = q BY <3>1
    <3> QED BY <3>2, <3>3, <2>2, <1>2, <1>9 DEF SsMadeWell
  <2>3. CASE ~(p # SsFailed /\ q # SsFailed)
    <3>1. made \in {ssScreen, SsEmpty(0, 0)} /\ (made # ssScreen => ssScreen = SsNone)
      BY <2>1, <2>3, <1>6, <1>7 DEF SsRegistry, SsKeep
    <3> QED BY <3>1, <2>3, <1>3, <1>4, <1>5, <1>9 DEF SsMadeWell, SsRowOk, SsRows
  <2> QED BY <2>2, <2>3
<1>10. CASE ssKind = "plans"
  <2>1. made = SsPlans(ssScreen, p) BY <1>8, <1>10 DEF SsMade
  <2>2. CASE p # SsFailed
    <3>1. made = [p |-> p, q |-> 0, status |-> "healthy"] BY <2>1, <2>2, <1>6 DEF SsPlans
    <3>2. SsRowOk(made, ssKind, ssSource) BY <3>1, <2>2, <1>2, <1>3, <1>10 DEF SsRowOk, SsRows, SsStatuses
    <3>3. made.p = p /\ made.q = 0 BY <3>1
    <3>4. ssScreen.q = 0 BY <1>3, <1>10 DEF SsRowOk
    <3> QED BY <3>2, <3>3, <3>4, <2>2, <1>2, <1>10 DEF SsMadeWell
  <2>3. CASE p = SsFailed
    <3>1. made \in {ssScreen, SsEmpty(0, 0)} /\ (made # ssScreen => ssScreen = SsNone)
      BY <2>1, <2>3, <1>6 DEF SsPlans, SsKeep
    <3> QED BY <3>1, <2>3, <1>3, <1>4, <1>5, <1>10 DEF SsMadeWell, SsRowOk, SsRows
  <2> QED BY <2>2, <2>3
<1>11. CASE ssKind = "commercial"
  <2>1. made = SsCommercial(ssScreen, p, q) BY <1>8, <1>11 DEF SsMade
  <2>2. CASE p # SsFailed
    <3>1. made = [p |-> p, q |-> SsOr(q, ssScreen.q), status |-> SsStatus(p, q)] BY <2>1, <2>2, <1>6 DEF SsCommercial
    <3>2. SsOr(q, ssScreen.q) = IF q # SsFailed THEN q ELSE ssScreen.q BY <1>7 DEF SsOr
    <3>3. SsStatus(p, q) \in SsStatuses BY DEF SsStatus, SsStatuses
    <3>4. made.p = p /\ made.q = IF q # SsFailed THEN q ELSE ssScreen.q BY <3>1, <3>2
    <3>5. SsRowOk(made, ssKind, ssSource) BY <3>1, <3>2, <3>3, <2>2, <1>2, <1>3, <1>11 DEF SsRowOk, SsRows
    <3> QED BY <3>4, <3>5, <2>2, <1>2, <1>3, <1>11 DEF SsMadeWell, SsRowOk, SsRows
  <2>3. CASE p = SsFailed
    <3>1. made \in {ssScreen, SsEmpty(0, 0)} /\ (made # ssScreen => ssScreen = SsNone)
      BY <2>1, <2>3, <1>6 DEF SsCommercial, SsKeep
    <3> QED BY <3>1, <2>3, <1>3, <1>4, <1>5, <1>11 DEF SsMadeWell, SsRowOk, SsRows
  <2> QED BY <2>2, <2>3
<1>12. CASE ssKind = "partners"
  <2>1. made = SsPartners(ssScreen, p, q) BY <1>8, <1>12 DEF SsMade
  <2>2. CASE p # SsFailed
    <3>1. made = [p |-> p, q |-> SsOr(q, 0), status |-> SsStatus(p, q)] BY <2>1, <2>2, <1>6 DEF SsPartners
    <3>2. SsOr(q, 0) = IF q # SsFailed THEN q ELSE 0 BY <1>7 DEF SsOr
    <3>3. SsStatus(p, q) \in SsStatuses BY DEF SsStatus, SsStatuses
    <3>4. made.p = p /\ made.q = IF q # SsFailed THEN q ELSE 0 BY <3>1, <3>2
    <3>5. SsRowOk(made, ssKind, ssSource) BY <3>1, <3>2, <3>3, <2>2, <1>2, <1>3, <1>12 DEF SsRowOk, SsRows
    <3> QED BY <3>4, <3>5, <2>2, <1>2, <1>3, <1>12 DEF SsMadeWell, SsRowOk, SsRows
  <2>3. CASE p = SsFailed
    <3>1. made \in {ssScreen, SsEmpty(0, 0)} /\ (made # ssScreen => ssScreen = SsNone)
      BY <2>1, <2>3, <1>6 DEF SsPartners, SsKeep
    <3> QED BY <3>1, <2>3, <1>3, <1>4, <1>5, <1>12 DEF SsMadeWell, SsRowOk, SsRows
  <2> QED BY <2>2, <2>3
<1>13. ASSUME NEW old, old = ssScreen \/ (ssKind = "dashboard" /\ ssScreen = SsNone /\ old = ssStored),
              made = SsEach(old, p, q), ssKind \in {"finance", "impact", "dashboard"}
       PROVE  SsMadeWell(made, r, ssScreen)
  <2>1. /\ SsOr(p, old.p) = IF p # SsFailed THEN p ELSE old.p
        /\ SsOr(q, old.q) = IF q # SsFailed THEN q ELSE old.q
    BY <1>6, <1>7 DEF SsOr
  <2>2. SsStatus(p, q) \in SsStatuses BY DEF SsStatus, SsStatuses
  <2>3. made = [p |-> SsOr(p, old.p), q |-> SsOr(q, old.q), status |-> SsStatus(p, q)] BY <1>13 DEF SsEach
  <2>4. /\ made.p = IF p # SsFailed THEN p ELSE old.p
        /\ made.q = IF q # SsFailed THEN q ELSE old.q
    BY <2>1, <2>3
  <2>5. SsRowOk(old, ssKind, ssSource) BY <1>3, <1>13
  <2>6. SsRowOk(made, ssKind, ssSource)
    <3>1. made.p \in Nat /\ made.q \in Nat /\ made.p <= ssSource["p"] /\ made.q <= ssSource["q"]
      BY <2>4, <2>5, <1>2, <1>3 DEF SsRowOk, SsRows
    <3>2. made \in SsRows BY <2>2, <2>3, <3>1 DEF SsRows
    <3> QED BY <3>1, <3>2, <1>13 DEF SsRowOk
  <2>7. old.p >= ssScreen.p /\ old.q >= ssScreen.q /\ old.p \in Nat /\ old.q \in Nat /\ ssScreen.p \in Nat /\ ssScreen.q \in Nat
    BY <2>5, <1>3, <1>5, <1>13 DEF SsRowOk, SsRows
  <2>8. (ssScreen.p # 0 => made.p # 0) /\ (ssScreen.q # 0 => made.q # 0)
    BY <2>4, <2>7, <1>2, <1>13
  <2>9. r.dirty = FALSE => made.p >= ssScreen.p /\ made.q >= ssScreen.q
    <3>1. (p > 0 \/ p = -1) /\ (q > 0 \/ q = -1) BY <1>2, <1>13
    <3> QED BY <2>4, <2>7, <3>1, <1>2
  <2> QED BY <2>4, <2>6, <2>8, <2>9, <1>13 DEF SsMadeWell
<1>14. CASE ssKind = "finance"
  <2>1. made = SsFinance(ssScreen, p, q) BY <1>8, <1>14 DEF SsMade
  <2>2. CASE p = SsFailed /\ q = SsFailed /\ ssScreen = SsNone
    <3>1. made = SsEmpty(0, 0) BY <2>1, <2>2, <1>6, <1>7 DEF SsFinance
    <3> QED BY <3>1, <2>2, <1>4, <1>5, <1>14 DEF SsMadeWell
  <2>3. CASE ~(p = SsFailed /\ q = SsFailed /\ ssScreen = SsNone)
    <3>1. made = SsEach(ssScreen, p, q) BY <2>1, <2>3, <1>6, <1>7 DEF SsFinance
    <3> QED BY <3>1, <1>13, <1>14
  <2> QED BY <2>2, <2>3
<1>15. CASE ssKind = "impact"
  <2>1. made = SsImpact(ssScreen, p, q) BY <1>8, <1>15 DEF SsMade
  <2>2. CASE p = SsFailed /\ q = SsFailed
    <3>1. made = [p |-> ssScreen.p, q |-> ssScreen.q, status |-> "unavailable"] BY <2>1, <2>2, <1>6, <1>7 DEF SsImpact, SsEmpty
    <3>2. made.p = ssScreen.p /\ made.q = ssScreen.q BY <3>1
    <3>3. SsRowOk(made, ssKind, ssSource) BY <3>1, <1>3, <1>15 DEF SsRowOk, SsRows, SsStatuses
    <3> QED BY <3>2, <3>3, <2>2, <1>3, <1>15 DEF SsMadeWell, SsRowOk, SsRows
  <2>3. CASE ~(p = SsFailed /\ q = SsFailed)
    <3>1. made = SsEach(ssScreen, p, q) BY <2>1, <2>3, <1>6, <1>7 DEF SsImpact
    <3> QED BY <3>1, <1>13, <1>15
  <2> QED BY <2>2, <2>3
<1>16. CASE ssKind = "dashboard"
  <2> PICK old : old = SsPrevious(ssScreen) OBVIOUS
  <2>1. made = SsEach(old, p, q) BY <1>8, <1>16 DEF SsMade, SsDashboard
  <2>2. old = ssScreen \/ (ssScreen = SsNone /\ old = ssStored) BY DEF SsPrevious
  <2> QED BY <2>1, <2>2, <1>13, <1>16
<1>17. ASSUME NEW old, old = SsPrevious(ssScreen), NEW n \in Nat, n <= ssSource["q"],
              made = [SsEach(old, p, q) EXCEPT !.q = n], ssKind \in {"activity", "trend"},
              n = 0 \/ (q # SsFailed /\ n = q) \/ (p = SsFailed /\ n = old.q),
              p # SsFailed /\ q # SsFailed => n = q
       PROVE  SsMadeWell(made, r, ssScreen)
  <2>0. old = ssScreen \/ (ssScreen = SsNone /\ old = ssStored) BY <1>17 DEF SsPrevious
  <2>1. SsOr(p, old.p) = IF p # SsFailed THEN p ELSE old.p BY <1>6 DEF SsOr
  <2>2. SsStatus(p, q) \in SsStatuses BY DEF SsStatus, SsStatuses
  <2>3. made = [p |-> SsOr(p, old.p), q |-> n, status |-> SsStatus(p, q)] BY <1>17 DEF SsEach
  <2>4. made.p = (IF p # SsFailed THEN p ELSE old.p) /\ made.q = n BY <2>1, <2>3
  <2>5. SsRowOk(old, ssKind, ssSource) BY <1>3, <2>0
  <2>6. SsRowOk(made, ssKind, ssSource)
    <3>1. made.p \in Nat /\ made.q \in Nat /\ made.p <= ssSource["p"] /\ made.q <= ssSource["q"]
      BY <2>4, <2>5, <1>2, <1>3, <1>17 DEF SsRowOk, SsRows
    <3>2. made \in SsRows BY <2>2, <2>3, <3>1 DEF SsRows
    <3> QED BY <3>1, <3>2, <1>17 DEF SsRowOk
  <2>7. old.p >= ssScreen.p /\ old.q >= ssScreen.q /\ old.p \in Nat /\ old.q \in Nat /\ ssScreen.p \in Nat /\ ssScreen.q \in Nat
    BY <2>0, <2>5, <1>3, <1>5 DEF SsRowOk, SsRows
  <2>8. ssScreen.p # 0 => made.p # 0 BY <2>4, <2>7, <1>2
  <2>9. r.dirty = FALSE => made.p >= ssScreen.p /\ (made.q >= ssScreen.q \/ made.q = 0)
    <3>1. (p > 0 \/ p = -1) /\ (q > 0 \/ q = -1) BY <1>2, <1>17
    <3>2. r.dirty = FALSE => made.p >= ssScreen.p BY <2>4, <2>7, <3>1, <1>2
    <3>3. r.dirty = FALSE => made.q >= ssScreen.q \/ made.q = 0 BY <2>4, <2>7, <3>1, <1>2, <1>17
    <3> QED BY <3>2, <3>3
  <2>10. p # SsFailed /\ q # SsFailed => made.p = p /\ made.q = q BY <2>4, <1>17
  <2> QED BY <2>6, <2>8, <2>9, <2>10, <1>17 DEF SsMadeWell
<1>18. CASE ssKind = "activity"
  <2> PICK old : old = SsPrevious(ssScreen) OBVIOUS
  <2> PICK n : n = SsOr(q, 0) OBVIOUS
  <2>1. made = [SsEach(old, p, q) EXCEPT !.q = n] BY <1>8, <1>18 DEF SsMade, SsActivity
  <2>2. n = IF q # SsFailed THEN q ELSE 0 BY <1>7 DEF SsOr
  <2>3. n \in Nat /\ n <= ssSource["q"] BY <2>2, <1>2, <1>3
  <2> QED BY <2>1, <2>2, <2>3, <1>17, <1>18
<1>19. CASE ssKind = "trend"
  <2> PICK old : old = SsPrevious(ssScreen) OBVIOUS
  <2> PICK n : n = IF SsGot(p) THEN SsOr(q, 0) ELSE old.q OBVIOUS
  <2>1. made = [SsEach(old, p, q) EXCEPT !.q = n] BY <1>8, <1>19 DEF SsMade, SsTrend
  <2>2. n = IF p = SsFailed THEN old.q ELSE IF q # SsFailed THEN q ELSE 0 BY <1>6, <1>7 DEF SsOr
  <2>3. old = ssScreen \/ old = ssStored BY DEF SsPrevious
  <2>4. old.q \in Nat /\ old.q <= ssSource["q"] BY <2>3, <1>3 DEF SsRowOk, SsRows
  <2>5. n \in Nat /\ n <= ssSource["q"] BY <2>2, <2>4, <1>2, <1>3
  <2>6. /\ n = 0 \/ (q # SsFailed /\ n = q) \/ (p = SsFailed /\ n = old.q)
        /\ p # SsFailed /\ q # SsFailed => n = q
    BY <2>2
  <2> QED BY <2>1, <2>5, <2>6, <1>17, <1>19
<1>20. CASE ssKind = "workspace"
  <2>1. made = SsWorkspace(ssScreen, p, q) BY <1>8, <1>20 DEF SsMade
  <2>2. CASE p # SsFailed /\ q # SsFailed
    <3>1. made = [p |-> p, q |-> q, status |-> "healthy"] BY <2>1, <2>2, <1>6, <1>7 DEF SsWorkspace
    <3>2. SsRowOk(made, ssKind, ssSource) BY <3>1, <2>2, <1>2, <1>20 DEF SsRowOk, SsRows, SsStatuses
    <3>3. made.p = p /\ made.q = q BY <3>1
    <3> QED BY <3>1, <3>2, <3>3, <2>2, <1>2, <1>20 DEF SsMadeWell
  <2>3. CASE ~(p # SsFailed /\ q # SsFailed)
    <3>1. made = ssScreen BY <2>1, <2>3, <1>6, <1>7 DEF SsWorkspace
    <3> QED BY <3>1, <2>3, <1>3, <1>20 DEF SsMadeWell, SsRowOk, SsRows
  <2> QED BY <2>2, <2>3
<1> QED BY <1>3, <1>9, <1>10, <1>11, <1>12, <1>14, <1>15, <1>16, <1>18, <1>19, <1>20 DEF SsKinds, SsDashboards

\* SsFollows: a writer marks what it may have overtaken, so that those have to say so.
LEMMA SsFollowsByWriter ==
    ASSUME SsInv, ssKind # "workspace", NEW w \in SsWorkers, NEW state, ssWork' = SsMarked(w, state),
           UNCHANGED <<ssKind, ssSource, ssSignal>>, state.at \in {"idle", "persist", "write"},
           ssWork[w].at # "signal", SsReads(ssWork[w]) => ssWork[w].dirty = FALSE, ssExcuse = FALSE,
           \A part \in SsTracked : \/ SsPending \/ (\E u \in SsWorkers : u # w /\ SsReads(ssWork[u]))
                                   \/ ssScreen'[part] = ssSource[part]
    PROVE  SsFollows'
<1>1. ssWork'[w] = state /\ \A u \in SsWorkers : u # w => ssWork'[u] = SsMark(ssWork[u]) BY SsOthersMarked
<1>2. ASSUME NEW u \in SsWorkers, u # w
      PROVE  /\ ssWork'[u].at = ssWork[u].at
             /\ SsReads(ssWork[u]) => ssWork'[u].dirty = TRUE /\ ssWork'[u].p = ssWork[u].p /\ ssWork'[u].q = ssWork[u].q
             /\ ssWork[u].at \in {"get", "merge"} => ssWork'[u].dirty = TRUE
  <2> PICK o, m : o = ssWork[u] /\ m = SsMark(o) OBVIOUS
  <2>1. o \in SsWorks BY SsWorkForms
  <2>2. m.at = o.at /\ (o.at \in {"read", "save"} => m.p = o.p /\ m.q = o.q /\ m.dirty = TRUE)
    BY <2>1, SsMarkAt
  <2>3. (o.at = "get" => m.dirty = TRUE) /\ (o.at = "merge" => m.dirty = TRUE) BY <2>1, SsMarkAt
  <2>4. ssWork'[u] = m BY <1>1, <1>2
  <2> QED BY <2>2, <2>3, <2>4 DEF SsReads
<1>3. (\E u \in SsWorkers : u # w /\ SsReads(ssWork[u])) => SsPending'
  <2> SUFFICES ASSUME NEW u \in SsWorkers, u # w, SsReads(ssWork[u]) PROVE SsPending' OBVIOUS
  <2>1. ssWork'[u].dirty = TRUE /\ SsReads(ssWork'[u]) BY <1>2 DEF SsReads
  <2> QED BY <2>1 DEF SsPending
<1>4. SsPending => SsPending'
  <2>1. CASE ssSignal = TRUE
    BY <2>1 DEF SsPending
  <2>2. ASSUME NEW u \in SsWorkers, ssWork[u].at = "signal" PROVE SsPending'
    <3>1. u # w BY <2>2
    <3>2. ssWork'[u].at = "signal" BY <2>2, <3>1, <1>2
    <3> QED BY <3>2 DEF SsPending
  <2>3. ASSUME NEW u \in SsWorkers, SsReads(ssWork[u]), ssWork[u].dirty = TRUE PROVE SsPending'
    <3>1. u # w BY <2>3
    <3> QED BY <2>3, <3>1, <1>3
  <2> QED BY <2>1, <2>2, <2>3 DEF SsPending
<1>5. \A part \in SsTracked' : SsPending' \/ ssScreen'[part] = ssSource'[part]
  BY <1>3, <1>4 DEF SsTracked
<1>6. ASSUME NEW u \in SsWorkers, SsReads(ssWork'[u])
      PROVE  ssWork'[u].p # SsFailed /\ ssWork'[u].q # SsFailed /\ SsPending'
  <2>1. u # w BY <1>1, <1>6 DEF SsReads
  <2>2. SsReads(ssWork[u]) BY <1>2, <1>6, <2>1 DEF SsReads
  <2>3. ssWork[u].p # SsFailed /\ ssWork[u].q # SsFailed BY <2>2 DEF SsInv, SsFollows
  <2> QED BY <2>1, <2>2, <2>3, <1>2, <1>3
<1>7. ASSUME NEW u \in SsWorkers, ssWork'[u].at \in {"get", "merge"} PROVE ssWork'[u].dirty # FALSE
  <2>1. u # w BY <1>1, <1>7
  <2>2. ssWork'[u].dirty = TRUE BY <1>2, <1>7, <2>1
  <2> QED BY <2>2
<1> QED BY <1>5, <1>6, <1>7 DEF SsFollows

\* SsMerge: a merge puts the change on the registry's screen, whose readers it marks.
LEMMA SsMergeStep == ASSUME SsInv, NEW w \in SsWorkers, SsMerge(w) PROVE SsInv'
<1> PICK r : r = ssWork[w] OBVIOUS
<1> PICK made : made = [r.base EXCEPT !.p = r.v] OBVIOUS
<1>a. PICK state : state = [at |-> "write", made |-> made] OBVIOUS
<1>0. /\ r.at = "merge" /\ UNCHANGED <<ssKind, ssSource, ssStored, ssSignal>>
      /\ ssScreen' = made /\ ssWork' = SsMarked(w, state) /\ ssExcuse' = (ssExcuse \/ r.dirty)
  BY <1>a DEF SsMerge, SsAt
<1>1. r \in SsMerges /\ SsMergeOk(r, ssKind, ssSource, ssScreen) BY <1>0, SsWorkForms DEF SsWorkOk
<1>2. /\ r.base \in SsRows /\ r.base.p # 0 /\ r.base.q # 0 /\ r.v \in Nat \ {0} /\ r.v <= ssSource["p"]
      /\ r.base.q <= ssSource["q"] /\ ssKind = "registry" /\ r.dirty \in BOOLEAN
      /\ r.dirty = FALSE => r.base = ssScreen
  BY <1>1 DEF SsMerges, SsMergeOk, SsRowOk
<1>3. made \in SsRows /\ made.p = r.v /\ made.q = r.base.q
  <2> PICK base, v : base = r.base /\ v = r.v OBVIOUS
  <2>1. made = [base EXCEPT !.p = v] /\ base \in SsRows /\ v \in Nat BY <1>2
  <2>2. made \in SsRows /\ made.p = v /\ made.q = base.q BY <2>1 DEF SsRows
  <2> QED BY <2>2
<1>4. SsRowOk(made, ssKind, ssSource) BY <1>2, <1>3 DEF SsRowOk
<1>5. state.at = "write" /\ SsWorkOk(state, ssKind, ssSource, made)
  BY <1>a, <1>2, <1>3, <1>4 DEF SsWorkOk, SsWorks, SsWrites
<1>6. ssExcuse' \in BOOLEAN /\ (ssExcuse' = FALSE => ssExcuse = FALSE /\ r.dirty = FALSE)
  <2>1. ssExcuse \in BOOLEAN BY DEF SsInv, SsTyped
  <2> QED BY <1>0, <1>2, <2>1, Zenon
<1>7. SsTyped' BY <1>0, <1>2, <1>4, <1>6, SsOthersMarked DEF SsInv, SsTyped, SsSourceOk
<1>8. SsHeld' BY <1>0, <1>2, <1>5, SsHeldByWriter
<1>9. \A u \in SsWorkers : SsBusy(u)' => SsBusy(u)
  <2> SUFFICES ASSUME NEW u \in SsWorkers, SsBusy(u)' PROVE SsBusy(u) OBVIOUS
  <2>1. u # w BY <1>0, <1>5, SsOthersMarked DEF SsBusy
  <2> PICK o, m : o = ssWork[u] /\ m = SsMark(o) OBVIOUS
  <2>2. m.at = o.at BY SsMarkAt, SsWorkForms
  <2>3. ssWork'[u] = m BY <1>0, <2>1, SsOthersMarked
  <2> QED BY <2>2, <2>3 DEF SsBusy
<1>10. SsSingle' BY <1>0, <1>9, SsSingleStays
<1>11. SsFollows'
  <2> SUFFICES ASSUME ssExcuse' = FALSE PROVE SsFollows' BY DEF SsFollows
  <2>1. ssExcuse = FALSE /\ r.dirty = FALSE /\ r.base = ssScreen BY <1>2, <1>6
  <2>2. SsPending \/ SsUnderWay \/ r.v = ssSource["p"] BY <1>0, <1>2, <2>1 DEF SsInv, SsFollows
  <2>3. SsPending \/ SsUnderWay \/ ssScreen["q"] = ssSource["q"] BY <1>2, <2>1 DEF SsInv, SsFollows, SsTracked, SsParts
  <2>4. SsUnderWay => \E u \in SsWorkers : u # w /\ SsReads(ssWork[u]) BY <1>0 DEF SsUnderWay, SsReads
  <2>5. ssScreen'["p"] = r.v /\ ssScreen'["q"] = ssScreen["q"] BY <1>0, <1>3, <2>1
  <2>6. \A part \in SsTracked : \/ SsPending \/ (\E u \in SsWorkers : u # w /\ SsReads(ssWork[u]))
                                \/ ssScreen'[part] = ssSource[part]
    BY <2>2, <2>3, <2>4, <2>5, <1>2 DEF SsTracked, SsParts
  <2>7. ~SsReads(r) /\ r.at # "signal" BY <1>0 DEF SsReads
  <2> QED BY <1>0, <1>2, <1>5, <2>1, <2>6, <2>7, SsFollowsByWriter
<1>12. SsFresh' BY <1>0, <1>2 DEF SsFresh
<1> QED BY <1>7, <1>8, <1>10, <1>11, <1>12 DEF SsInv

\* SsSave: a refresh that was not overtaken shows what the services hold; an overtaken one is excused.
LEMMA SsSaveStep == ASSUME SsInv, NEW w \in SsWorkers, SsSave(w) PROVE SsInv'
<1> PICK r : r = ssWork[w] OBVIOUS
<1>a. PICK made : made = SsMade(ssScreen, r.p, r.q) OBVIOUS
<1>b. PICK state : state = IF SsStores(r) THEN [at |-> "persist", made |-> made] ELSE SsIdle OBVIOUS
<1>0. /\ r.at = "save" /\ SsAt(w, "save") /\ UNCHANGED <<ssKind, ssSource, ssStored, ssSignal>>
      /\ ssScreen' = made /\ ssWork' = SsMarked(w, state)
      /\ ssExcuse' = IF ssKind # "workspace" THEN ssExcuse \/ r.dirty
                     ELSE IF SsGot(r.p) /\ SsGot(r.q) THEN r.dirty ELSE ssExcuse
  BY <1>a, <1>b DEF SsSave, SsAt
<1>1. r \in SsReadings /\ SsReadOk(r, ssKind, ssSource, ssScreen) BY <1>0, SsWorkForms DEF SsWorkOk
<1>2. r.dirty \in BOOLEAN BY <1>1 DEF SsReadings
<1>3. SsMadeWell(made, r, ssScreen) BY <1>0, <1>a, SsMadeIsWell
<1>4. SsRowOk(made, ssKind, ssSource) BY <1>3 DEF SsMadeWell
<1>5. /\ SsWorkOk(state, ssKind, ssSource, made) /\ state.at \in {"idle", "persist"}
      /\ ssKind = "workspace" => state = SsIdle
  <2>1. CASE SsStores(r)
    <3>1. state = [at |-> "persist", made |-> made] BY <2>1, <1>b
    <3>2. state.at = "persist" /\ state.made = made BY <3>1
    <3>3. state \in SsWrites BY <3>1, <1>4 DEF SsWrites, SsRowOk
    <3>4. ssKind # "workspace"
      <4>1. ssKind = "workspace" => ~SsStores(r) BY DEF SsStores, SsDashboards
      <4> QED BY <2>1, <4>1
    <3> QED BY <3>2, <3>3, <3>4, <1>4 DEF SsWorkOk, SsWorks
  <2>2. CASE ~SsStores(r)
    <3>1. state = SsIdle BY <2>2, <1>b
    <3>2. state.at = "idle" BY <3>1 DEF SsIdle
    <3> QED BY <3>1, <3>2, SsBeginOk DEF SsInv, SsTyped, SsSourceOk
  <2> QED BY <2>1, <2>2
<1>6. /\ ssExcuse' \in BOOLEAN
      /\ ssKind # "workspace" /\ ssExcuse' = FALSE => ssExcuse = FALSE /\ r.dirty = FALSE
  <2>1. ssExcuse \in BOOLEAN BY DEF SsInv, SsTyped
  <2>2. CASE ssKind # "workspace"
    <3>1. ssExcuse' = (ssExcuse \/ r.dirty) BY <1>0, <2>2
    <3> QED BY <3>1, <2>1, <1>2, Zenon
  <2>3. CASE ssKind = "workspace"
    <3>1. ssExcuse' = r.dirty \/ ssExcuse' = ssExcuse BY <1>0, <2>3
    <3> QED BY <3>1, <2>1, <2>3, <1>2
  <2> QED BY <2>2, <2>3
<1>7. SsTyped' BY <1>0, <1>4, <1>6, SsOthersMarked DEF SsInv, SsTyped, SsSourceOk
<1>8. SsHeld'
  <2>1. \A u \in SsWorkers : ssWork[u].at \in {"read", "save"} => u = w \/ ssKind \in {"registry", "workspace"}
    BY <1>0 DEF SsInv, SsSingle
  <2> QED BY <1>0, <1>5, <2>1, SsHeldByWriter
<1>9. ASSUME NEW u \in SsWorkers, u # w
      PROVE  ssWork'[u].at = ssWork[u].at /\ (SsReads(ssWork[u]) => ssWork'[u].dirty = TRUE)
  <2> PICK o, m : o = ssWork[u] /\ m = SsMark(o) OBVIOUS
  <2>1. o \in SsWorks BY SsWorkForms
  <2>2. m.at = o.at /\ (o.at \in {"read", "save"} => m.dirty = TRUE) BY <2>1, SsMarkAt
  <2>3. ssWork'[u] = m BY <1>0, <1>9, SsOthersMarked
  <2> QED BY <2>2, <2>3 DEF SsReads
<1>10. SsSingle'
  <2>1. \A u \in SsWorkers : SsBusy(u)' => SsBusy(u) BY <1>0, <1>9 DEF SsBusy
  <2> QED BY <1>0, <2>1, SsSingleStays
<1>11. SsFollows'
  <2> SUFFICES ASSUME ssKind # "workspace", ssExcuse' = FALSE PROVE SsFollows' BY <1>0 DEF SsFollows
  <2>1. ssExcuse = FALSE /\ r.dirty = FALSE BY <1>6
  <2>2. SsReads(r) /\ r.at # "signal" BY <1>0 DEF SsReads
  <2>3. /\ r.p # SsFailed /\ r.q # SsFailed
        /\ \A part \in SsTracked : SsPending \/ r[part] \in {0, ssSource[part]}
    BY <2>1, <2>2 DEF SsInv, SsFollows
  <2>4. made.p = r.p /\ (ssKind # "plans" => made.q = r.q) BY <1>3, <2>3 DEF SsMadeWell
  <2>5. r.p # 0 /\ (r.q # 0 \/ ssKind = "plans") BY <1>0, <1>1, <2>3 DEF SsReadOk
  <2>6. ASSUME NEW part \in SsTracked PROVE SsPending \/ ssScreen'[part] = ssSource[part]
    <3>1. CASE part = "p"
      <4>1. SsPending \/ r["p"] \in {0, ssSource["p"]} BY <2>3, <3>1
      <4> QED BY <4>1, <2>4, <2>5, <3>1, <1>0
    <3>2. CASE part = "q" /\ ssKind # "plans"
      <4>1. SsPending \/ r["q"] \in {0, ssSource["q"]} BY <2>3, <3>2
      <4> QED BY <4>1, <2>4, <2>5, <3>2, <1>0
    <3> QED BY <3>1, <3>2 DEF SsTracked, SsParts
  <2> QED BY <1>0, <1>5, <2>1, <2>2, <2>6, SsFollowsByWriter
<1>12. SsFresh'
  <2> SUFFICES ASSUME ssKind = "workspace" PROVE SsFresh' BY <1>0 DEF SsFresh
  <2>1. ASSUME NEW u \in SsWorkers, SsReads(ssWork'[u]) PROVE ssWork'[u].dirty # FALSE
    <3>1. u # w
      <4>1. ssWork'[w] = state BY <1>0, SsOthersMarked
      <4> QED BY <2>1, <4>1, <1>5 DEF SsReads
    <3>2. ssWork'[u].dirty = TRUE BY <2>1, <3>1, <1>9 DEF SsReads
    <3> QED BY <3>2
  <2>2. SsDropped => SsDropped'
    <3> SUFFICES ASSUME NEW u \in SsWorkers, ssWork[u].at = "signal", ssWork[u].part = "p" PROVE SsDropped'
      BY DEF SsDropped
    <3>1. u # w BY <1>0
    <3> PICK o, m : o = ssWork[u] /\ m = SsMark(o) OBVIOUS
    <3>2. m.at = "signal" /\ m.part = "p" BY SsMarkAt, SsWorkForms
    <3>3. ssWork'[u] = m BY <1>0, <3>1, SsOthersMarked
    <3> QED BY <3>2, <3>3 DEF SsDropped
  <2>3. ssExcuse' = FALSE => ssScreen'.p = 0 \/ ssScreen'.p = ssSource'["p"] \/ SsDropped'
    <3>1. CASE SsGot(r.p) /\ SsGot(r.q)
      <4>1. made = [p |-> r.p, q |-> r.q, status |-> "healthy"] BY <1>3, <3>1 DEF SsMadeWell, SsGot
      <4>2. made.p = r.p BY <4>1
      <4>3. ssExcuse' = r.dirty BY <1>0, <3>1
      <4>4. r.dirty = FALSE => r.p \in {0, SsFailed, ssSource["p"]} \/ SsDropped BY <1>0 DEF SsInv, SsFresh, SsReads
      <4> QED BY <4>2, <4>3, <4>4, <2>2, <3>1, <1>0 DEF SsGot
    <3>2. CASE ~(SsGot(r.p) /\ SsGot(r.q))
      <4>1. made = ssScreen BY <1>3, <3>2 DEF SsMadeWell, SsGot
      <4>2. ssExcuse' = ssExcuse BY <1>0, <3>2
      <4> QED BY <4>1, <4>2, <2>2, <1>0 DEF SsInv, SsFresh
    <3> QED BY <3>1, <3>2
  <2> QED BY <2>1, <2>3 DEF SsFresh
<1> QED BY <1>7, <1>8, <1>10, <1>11, <1>12 DEF SsInv

\* SsInv is inductive.
LEMMA SsInvHolds == SsSpec => []SsInv
<1>1. SsInit => SsInv
  <2> SUFFICES ASSUME SsInit PROVE SsInv OBVIOUS
  <2> USE DEF SsInit
  <2>1. SsSourceOk /\ ssSource["p"] = 1 /\ ssSource["q"] = 1 BY DEF SsSourceOk, SsParts
  <2>2. SsRowOk(SsNone, ssKind, ssSource) BY <2>1 DEF SsRowOk, SsRows, SsStatuses, SsNone
  <2>3. ssSignal \in BOOLEAN /\ ssExcuse \in BOOLEAN /\ (ssKind = "workspace" => ssSignal = FALSE) OBVIOUS
  <2>4. SsTyped BY <2>1, <2>2, <2>3 DEF SsTyped
  <2>5. \A u \in SsWorkers : ssWork[u] = SsIdle OBVIOUS
  <2>6. SsIdle.at = "idle" BY DEF SsIdle
  <2>7. SsHeld BY <2>1, <2>5, SsBeginOk DEF SsHeld, SsSourceOk
  <2>8. SsSingle BY <2>5, <2>6 DEF SsSingle
  <2>9. SsFollows
    <3> SUFFICES ASSUME ssKind # "workspace" PROVE SsFollows BY DEF SsFollows
    <3>1. ssSignal = TRUE OBVIOUS
    <3>2. SsPending BY <3>1 DEF SsPending
    <3> QED BY <2>5, <2>6, <3>2 DEF SsFollows, SsReads
  <2>10. SsFresh BY <2>5, <2>6 DEF SsFresh, SsNone, SsReads
  <2> QED BY <2>4, <2>7, <2>8, <2>9, <2>10 DEF SsInv
<1>2. SsInv /\ [SsNext]_ssVars => SsInv'
  <2> SUFFICES ASSUME SsInv, [SsNext]_ssVars PROVE SsInv' OBVIOUS
  <2>1. CASE UNCHANGED ssVars
    BY <2>1 DEF ssVars, SsInv, SsTyped, SsSourceOk, SsHeld, SsSingle, SsFollows, SsTracked, SsPending,
                SsUnderWay, SsFresh, SsDropped
  <2>2. ASSUME NEW w \in SsWorkers, NEW part \in SsParts, SsChange(w, part) PROVE SsInv'
    BY <2>2, SsChangeStep
  <2>3. ASSUME NEW part \in SsParts, SsQuiet(part) PROVE SsInv'
    BY <2>3, SsUnannouncedStep
  <2> QED BY <2>1, <2>2, <2>3, SsExpireStep, SsRestartStep, SsTickStep, SsTakeStep, SsRequestStep, SsReadStep,
             SsSaveStep, SsPersistStep, SsSignalStep, SsGetStep, SsMergeStep DEF SsNext
<1> QED BY <1>1, <1>2, PTL DEF SsSpec

\* SsKeepsData, SsForward: the steps that write the screen are the refresh's save, the merge of a
\* module, and those that drop the workspace or begin again.
LEMMA SsWritesWell == ASSUME SsInv, [SsNext]_ssVars PROVE SsKeepsData /\ SsForward
<1>0. /\ ssScreen["p"] \in Nat /\ ssScreen["q"] \in Nat
      /\ ssKind = "registry" /\ ssScreen["p"] # 0 => ssScreen["q"] # 0
  BY DEF SsInv, SsTyped, SsRowOk, SsRows
<1>1. CASE ssScreen' = ssScreen
  BY <1>0, <1>1 DEF SsKeepsData, SsForward, SsParts
<1>2. CASE SsRestart
  BY <1>2 DEF SsKeepsData, SsForward
<1>3. CASE ssKind = "workspace" /\ ssScreen' = SsNone
  <2>1. \A part \in SsParts : ssScreen'[part] = 0 BY <1>3 DEF SsNone, SsParts
  <2> QED BY <1>3, <2>1 DEF SsKeepsData, SsForward
<1>4. ASSUME NEW w \in SsWorkers, SsSave(w) PROVE SsKeepsData /\ SsForward
  <2> PICK r : r = ssWork[w] OBVIOUS
  <2>a. PICK made : made = SsMade(ssScreen, r.p, r.q) OBVIOUS
  <2>b. PICK state : state = IF SsStores(r) THEN [at |-> "persist", made |-> made] ELSE SsIdle OBVIOUS
  <2>1. SsAt(w, "save") /\ ssScreen' = made /\ ssWork' = SsMarked(w, state) BY <1>4, <2>a, <2>b DEF SsSave
  <2>2. SsMadeWell(made, r, ssScreen) BY <2>1, <2>a, SsMadeIsWell
  <2>3. r \in SsReadings /\ SsReadOk(r, ssKind, ssSource, ssScreen) /\ r.at = "save"
    BY <2>1, SsWorkForms DEF SsWorkOk, SsAt
  <2>4. /\ ssScreen["p"] # 0 => made["p"] # 0
        /\ ssScreen["q"] # 0 => made["q"] # 0 \/ ssKind \in {"partners", "activity", "trend"}
        /\ r.dirty = FALSE => made["p"] >= ssScreen["p"] /\ (made["q"] >= ssScreen["q"] \/ made["q"] = 0)
        /\ made["p"] \in Nat /\ made["q"] \in Nat
    BY <2>2 DEF SsMadeWell, SsRowOk, SsRows
  <2>5. SsKeepsData BY <2>1, <2>4 DEF SsKeepsData, SsParts
  <2>6. CASE r.dirty = FALSE
    <3>1. SsForward BY <1>0, <2>1, <2>4, <2>6 DEF SsForward, SsParts
    <3> QED BY <2>5, <3>1
  <2>7. CASE r.dirty # FALSE
    <3>1. r.dirty = TRUE /\ "dirty" \in DOMAIN r /\ ssKind \in {"registry", "workspace"}
      BY <2>3, <2>7 DEF SsReadings, SsReadOk
    <3>2. ssWork'[w] # r
      <4>1. ssWork'[w] = state BY <2>1, SsOthersMarked
      <4>2. state.at # "save" BY <2>b DEF SsIdle
      <4> QED BY <4>1, <4>2, <2>3
    <3>3. SsForward BY <3>1, <3>2 DEF SsForward
    <3> QED BY <2>5, <3>3
  <2> QED BY <2>6, <2>7
<1>5. ASSUME NEW w \in SsWorkers, SsMerge(w) PROVE SsKeepsData /\ SsForward
  <2> PICK r : r = ssWork[w] OBVIOUS
  <2> PICK made : made = [r.base EXCEPT !.p = r.v] OBVIOUS
  <2>a. PICK state : state = [at |-> "write", made |-> made] OBVIOUS
  <2>1. r.at = "merge" /\ ssScreen' = made /\ ssWork' = SsMarked(w, state) BY <1>5, <2>a DEF SsMerge, SsAt
  <2>2. r \in SsMerges /\ SsMergeOk(r, ssKind, ssSource, ssScreen) BY <2>1, SsWorkForms DEF SsWorkOk
  <2>3. /\ r.base \in SsRows /\ r.base.q # 0 /\ r.v \in Nat \ {0} /\ ssKind = "registry"
        /\ r.dirty = FALSE => r.base = ssScreen /\ ssScreen.p <= r.v
    BY <2>2 DEF SsMerges, SsMergeOk, SsRowOk
  <2>4. made["p"] = r.v /\ made["q"] = r.base["q"]
    <3> PICK base, v : base = r.base /\ v = r.v OBVIOUS
    <3>1. made = [base EXCEPT !.p = v] /\ base \in SsRows BY <2>3
    <3> QED BY <3>1 DEF SsRows
  <2>5. SsKeepsData BY <2>1, <2>3, <2>4 DEF SsKeepsData, SsParts
  <2>6. CASE r.dirty = FALSE
    <3>1. ssScreen'["q"] = ssScreen["q"] /\ ssScreen["p"] <= r.v /\ ssScreen'["p"] = r.v BY <2>1, <2>3, <2>4, <2>6
    <3>2. r.v \in Nat BY <2>3
    <3>3. \A part \in SsParts : ~(ssScreen'[part] < ssScreen[part])
      BY <1>0, <3>1, <3>2 DEF SsParts
    <3>4. SsForward BY <3>3 DEF SsForward
    <3> QED BY <2>5, <3>4
  <2>7. CASE r.dirty # FALSE
    <3>1. r.dirty = TRUE /\ "dirty" \in DOMAIN r BY <2>2, <2>7 DEF SsMerges
    <3>2. ssWork'[w] # r
      <4>1. ssWork'[w] = state BY <2>1, SsOthersMarked
      <4>2. state.at = "write" BY <2>a
      <4> QED BY <4>1, <4>2, <2>1
    <3>3. SsForward BY <2>3, <3>1, <3>2 DEF SsForward
    <3> QED BY <2>5, <3>3
  <2> QED BY <2>6, <2>7
<1>6. SsExpire => ssKind = "workspace" /\ ssScreen' = SsNone BY DEF SsExpire
<1>7. \A w \in SsWorkers :
         \/ SsTick(w) \/ SsTake(w) \/ SsRequest(w) \/ SsRead(w) \/ SsPersist(w) \/ SsGet(w)
         \/ \E part \in SsParts : SsChange(w, part)
         => ssScreen' = ssScreen
  BY DEF SsTick, SsTake, SsRequest, SsRead, SsPersist, SsGet, SsChange
<1>8. \A w \in SsWorkers :
         SsSignal(w) => ssScreen' = ssScreen \/ (ssKind = "workspace" /\ ssScreen' = SsNone)
  BY DEF SsSignal, SsDrops
<1>9. UNCHANGED ssVars => ssScreen' = ssScreen BY DEF ssVars
<1>10. \A part \in SsParts : SsQuiet(part) => ssScreen' = ssScreen BY DEF SsQuiet
<1> QED BY <1>1, <1>2, <1>3, <1>4, <1>5, <1>6, <1>7, <1>8, <1>9, <1>10 DEF SsNext

\* SsShownUnlessExcused: when nothing is under way and nothing excuses it, the screen shows what the
\* services hold (central_step3_snapshots.go, central_step4_snapshots.go, dashboard_snapshot.go).
LEMMA SsRestShows == ASSUME SsInv PROVE SsShownUnlessExcused
<1> SUFFICES ASSUME SsRest, ~ssExcuse
             PROVE  IF ssKind = "workspace" THEN ssScreen.p # 0 => SsShows("p")
                    ELSE SsShows("p") /\ (ssKind # "plans" => SsShows("q"))
  BY DEF SsShownUnlessExcused
<1>1. ssExcuse = FALSE /\ ssSignal = FALSE BY DEF SsInv, SsTyped, SsRest
<1>2. \A u \in SsWorkers : ssWork[u].at = "idle" BY DEF SsRest, SsAt
<1>3. ~SsPending /\ ~SsUnderWay /\ ~SsDropped BY <1>1, <1>2 DEF SsPending, SsUnderWay, SsDropped, SsReads
<1>4. CASE ssKind = "workspace"
  BY <1>1, <1>3, <1>4 DEF SsInv, SsFresh, SsShows
<1>5. CASE ssKind # "workspace"
  <2>1. \A part \in SsTracked : ssScreen[part] = ssSource[part] BY <1>1, <1>3, <1>5 DEF SsInv, SsFollows
  <2> QED BY <1>5, <2>1 DEF SsTracked, SsParts, SsShows
<1> QED BY <1>4, <1>5

\* The console may rely on its screens: an outage empties none, time does not run backwards on them,
\* and at rest they show the changes that ask for a refresh, unless the refresh is excused.
THEOREM ScreensAreCurrent == SsSpec => ScreensSafe
<1>1. SsInv => SsShownUnlessExcused BY SsRestShows
<1>2. SsInv /\ [SsNext]_ssVars => [SsKeepsData /\ SsForward]_ssVars BY SsWritesWell
<1> QED BY <1>1, <1>2, SsInvHolds, PTL DEF SsSpec, ScreensSafe
=============================================================================
