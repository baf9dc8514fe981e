------------------------- MODULE MessageHandlerProofs -------------------------
(***************************************************************************)
(* Theorems about the gateway's message handler, for any sets of sessions  *)
(* and inputs: approvals and supplements are accounted for, no input is    *)
(* given twice, and cancellations are thorough.                            *)
(***************************************************************************)
EXTENDS MessageHandler, TLAPS

USE DEF Streams, Cancellers, Inputs, Send, Supplement, Cancel, Answer

------------------------------------------------------------------------------
(* Messages and queues.                                                     *)

\* A message is of one of four kinds, and about an input of that kind.
LEMMA MessageKinds ==
    ASSUME NEW msg \in Messages
    PROVE  \/ \E r \in Streams : msg = Send(r)
           \/ \E m \in Supplements : msg = Supplement(m)
           \/ \E c \in Cancels : msg = Cancel(c)
           \/ \E a \in Approvals : msg = Answer(a)
BY DEF Messages

\* What is left when the first message is taken.
LEMMA TailFacts ==
    ASSUME NEW S, NEW q \in Seq(S), q # <<>>
    PROVE  /\ Tail(q) \in Seq(S)
           /\ Head(q) = q[1] /\ 1 \in DOMAIN q /\ Head(q) \in S
           /\ \A i \in DOMAIN Tail(q) : i + 1 \in DOMAIN q /\ Tail(q)[i] = q[i + 1]
           /\ \A j \in DOMAIN q : j # 1 => j - 1 \in DOMAIN Tail(q) /\ Tail(q)[j - 1] = q[j]
OBVIOUS

\* What there is when one is added.
LEMMA AppendFacts ==
    ASSUME NEW S, NEW q \in Seq(S), NEW x \in S
    PROVE  /\ Append(q, x) \in Seq(S)
           /\ Len(q) + 1 \in DOMAIN Append(q, x) /\ Append(q, x)[Len(q) + 1] = x
           /\ \A i \in DOMAIN q : i \in DOMAIN Append(q, x) /\ Append(q, x)[i] = q[i]
           /\ \A j \in DOMAIN Append(q, x) :
                  j # Len(q) + 1 => j \in DOMAIN q /\ Append(q, x)[j] = q[j]
OBVIOUS

LEMMA QueuedTail ==
    ASSUME inbox \in Seq(Messages), inbox # <<>>, inbox' = Tail(inbox),
           NEW msg, msg # Head(inbox), Queued(msg)
    PROVE  Queued(msg)'
<1>1. PICK j \in DOMAIN inbox : inbox[j] = msg
  BY DEF Queued
<1>2. j # 1
  BY <1>1, TailFacts
<1>3. j - 1 \in DOMAIN Tail(inbox) /\ Tail(inbox)[j - 1] = msg
  BY <1>1, <1>2, TailFacts
<1> QED
  BY <1>3 DEF Queued

LEMMA QueuedAppend ==
    ASSUME inbox \in Seq(Messages), NEW x \in Messages, inbox' = Append(inbox, x)
    PROVE  /\ Queued(x)'
           /\ \A msg : Queued(msg) => Queued(msg)'
<1>1. Queued(x)'
  BY AppendFacts DEF Queued
<1>2. ASSUME NEW msg, Queued(msg) PROVE Queued(msg)'
  BY <1>2, AppendFacts DEF Queued
<1> QED
  BY <1>1, <1>2

------------------------------------------------------------------------------
(* Types.                                                                   *)

THEOREM TypeStep == TypeOK /\ [Next]_vars => TypeOK'
<1> SUFFICES ASSUME TypeOK, [Next]_vars PROVE TypeOK'
  OBVIOUS
<1> USE DEF TypeOK, loopVars, streamVars, evolutionVars, cancelVars, StreamState
<1>0. /\ SessionOf \in [Inputs -> Sessions]
      /\ inbox \in Seq(Messages)
      /\ inbox # <<>> => Tail(inbox) \in Seq(Messages)
      /\ \A x \in Messages : Append(inbox, x) \in Seq(Messages)
  BY SessionOfAssumption, TailFacts, AppendFacts
<1>m. /\ \A r \in Streams : Send(r) \in Messages
      /\ \A m \in Supplements : Supplement(m) \in Messages
      /\ \A c \in Cancels : Cancel(c) \in Messages
      /\ \A a \in Approvals : Answer(a) \in Messages
  BY DEF Messages
<1>i. \A rs : Interrupted(rs) \in [Streams -> StreamState]
  BY DEF Interrupted
<1>l. \A s : LiveOf(s) \subseteq Streams
  BY DEF LiveOf, Listed
<1>1. CASE UserSends
  BY <1>0, <1>1, <1>m DEF UserSends
<1>2. CASE UserAnswers
  BY <1>0, <1>2, <1>m DEF UserAnswers
<1>3. ASSUME NEW r \in Streams, StartStream(r) PROVE TypeOK'
  BY <1>0, <1>3 DEF StartStream, Takes
<1>4. ASSUME NEW a \in Approvals, ForwardAnswer(a) PROVE TypeOK'
  BY <1>0, <1>4, <1>m DEF ForwardAnswer, Takes
<1>5. ASSUME NEW m \in Supplements, PutAside(m) PROVE TypeOK'
  BY <1>0, <1>5 DEF PutAside, Takes
<1>6. ASSUME NEW m \in Supplements, BeginSupplement(m) PROVE TypeOK'
  BY <1>0, <1>6, <1>m, <1>i, <1>l DEF BeginSupplement, Takes
<1>b. ASSUME NEW c \in Cancels, BeginCancel(c)
      PROVE  /\ evolving' \subseteq Sessions
             /\ pending' \in [Sessions -> Approvals \cup {Nil}]
             /\ aside' \in [Sessions -> Supplements \cup {Nil}]
             /\ dropped' \subseteq Supplements
             /\ fate' \in [Approvals -> {"unasked", "open", "sent", "dropped"}]
             /\ victims' \in [Cancellers -> SUBSET Streams]
             /\ cpc' \in [Cancellers -> {"new", "asking", "joining", "done"}]
             /\ stream' = stream /\ registered' = registered
  BY <1>0, <1>b, <1>l DEF BeginCancel
<1>7. ASSUME NEW c \in Cancels, LoopCancels(c) PROVE TypeOK'
  BY <1>0, <1>7, <1>b, <1>m DEF LoopCancels, Takes
<1>8. ASSUME NEW c \in Cancels, CancelBeside(c) PROVE TypeOK'
  BY <1>0, <1>8, <1>b DEF CancelBeside
<1>9. ASSUME NEW a \in Approvals, AnswerResolved(a) PROVE TypeOK'
  <2>1. inbox' \in Seq(Messages)
    BY <1>0, <1>9, <1>m DEF AnswerResolved, Resolve
  <2> QED
    BY <1>0, <1>9, <2>1 DEF AnswerResolved, Resolve
<1>10. ASSUME NEW a \in Approvals, AnswerUnresolved(a) PROVE TypeOK'
  BY <1>10 DEF AnswerUnresolved
<1>11. ASSUME NEW a \in Approvals, ApprovalAsked(a) PROVE TypeOK'
  <2>1. inbox' \in Seq(Messages)
    BY <1>0, <1>11, <1>m DEF ApprovalAsked
  <2> QED
    BY <1>0, <1>11, <2>1 DEF ApprovalAsked
<1>12. ASSUME NEW m \in Supplements, SupplementJoined(m) PROVE TypeOK'
  BY <1>12 DEF SupplementJoined
<1>13. ASSUME NEW m \in Supplements, SupplementAnswered(m) PROVE TypeOK'
  BY <1>0, <1>13, <1>m DEF SupplementAnswered
<1>14. ASSUME NEW c \in Cancels, CancelAnswered(c) PROVE TypeOK'
  BY <1>14, <1>i DEF CancelAnswered
<1>15. ASSUME NEW c \in Cancels, CancelJoined(c) PROVE TypeOK'
  BY <1>15 DEF CancelJoined
<1>16. ASSUME NEW r \in Streams, TaskStep(r) \/ StreamEnds(r) PROVE TypeOK'
  BY <1>16 DEF TaskStep, StreamRuns, StreamStillborn, StreamStops, StreamEnds, CleanUp
<1>17. ASSUME NEW s \in Sessions, EvolutionStarts(s) \/ EvolutionEnds(s) PROVE TypeOK'
  BY <1>17 DEF EvolutionStarts, EvolutionEnds
<1>18. CASE UNCHANGED vars
  BY <1>18 DEF vars
<1> QED
  BY <1>1, <1>2, <1>3, <1>4, <1>5, <1>6, <1>7, <1>8, <1>9, <1>10, <1>11, <1>12, <1>13,
     <1>14, <1>15, <1>16, <1>17, <1>18
  DEF Next, LoopTakes, AnswerReturns, CancelStep

\* The variables of the message handler keep their types.
THEOREM TypeCorrect == Spec => []TypeOK
<1>1. Init => TypeOK
  BY DEF Init, TypeOK, StreamState
<1> QED
  BY <1>1, TypeStep, PTL DEF Spec

------------------------------------------------------------------------------
(* Approvals.                                                               *)

\* An approval whose answer is being forwarded is no longer open, and will not
\* be asked for again.
AnswersKnown == \A a \in Approvals : loop = Answer(a) => fate[a] \in {"sent", "dropped"}

LEMMA AnswersStep == TypeOK /\ AnswersKnown /\ [Next]_vars => AnswersKnown'
<1> SUFFICES ASSUME TypeOK, AnswersKnown, [Next]_vars PROVE AnswersKnown'
  OBVIOUS
<1> USE DEF AnswersKnown, TypeOK, loopVars, streamVars, evolutionVars, cancelVars
<1>1. CASE UserSends \/ UserAnswers
  BY <1>1 DEF UserSends, UserAnswers
<1>2. ASSUME NEW r \in Streams, StartStream(r) PROVE AnswersKnown'
  BY <1>2 DEF StartStream
<1>3. ASSUME NEW a \in Approvals, ForwardAnswer(a) PROVE AnswersKnown'
  BY <1>3 DEF ForwardAnswer
<1>4. ASSUME NEW m \in Supplements, PutAside(m) \/ BeginSupplement(m) PROVE AnswersKnown'
  BY <1>4 DEF PutAside, BeginSupplement
<1>5. ASSUME NEW c \in Cancels, LoopCancels(c) \/ CancelBeside(c) PROVE AnswersKnown'
  BY <1>5 DEF LoopCancels, CancelBeside, BeginCancel
<1>6. ASSUME NEW a \in Approvals, AnswerReturns(a) PROVE AnswersKnown'
  BY <1>6, NilAssumption DEF AnswerReturns, AnswerResolved, AnswerUnresolved, Messages
<1>7. ASSUME NEW a \in Approvals, ApprovalAsked(a) PROVE AnswersKnown'
  BY <1>7 DEF ApprovalAsked
<1>8. ASSUME NEW c \in Cancellers, CancelStep(c) PROVE AnswersKnown'
  BY <1>8, NilAssumption
  DEF CancelStep, SupplementJoined, SupplementAnswered, CancelAnswered, CancelJoined, Messages
<1>9. ASSUME NEW r \in Streams, TaskStep(r) \/ StreamEnds(r) PROVE AnswersKnown'
  BY <1>9 DEF TaskStep, StreamRuns, StreamStillborn, StreamStops, StreamEnds, CleanUp
<1>10. ASSUME NEW s \in Sessions, EvolutionStarts(s) \/ EvolutionEnds(s) PROVE AnswersKnown'
  BY <1>10 DEF EvolutionStarts, EvolutionEnds
<1>11. CASE UNCHANGED vars
  BY <1>11 DEF vars
<1> QED
  BY <1>1, <1>2, <1>3, <1>4, <1>5, <1>6, <1>7, <1>8, <1>9, <1>10, <1>11 DEF Next, LoopTakes

\* If what is pending and what became of approvals stays, and no answer is lost
\* from the queue, approvals stay accounted for.
LEMMA ApprovalsKept ==
    ASSUME ApprovalsAccounted, UNCHANGED <<pending, fate>>,
           \A a \in Approvals : Queued(Answer(a)) => Queued(Answer(a))'
    PROVE  ApprovalsAccounted'
BY DEF ApprovalsAccounted

LEMMA ApprovalsStep ==
    TypeOK /\ AnswersKnown /\ ApprovalsAccounted /\ [Next]_vars => ApprovalsAccounted'
<1> SUFFICES ASSUME TypeOK, AnswersKnown, ApprovalsAccounted, [Next]_vars
             PROVE  ApprovalsAccounted'
  OBVIOUS
<1> USE DEF loopVars, streamVars, evolutionVars, cancelVars
<1>0. /\ inbox \in Seq(Messages)
      /\ fate \in [Approvals -> {"unasked", "open", "sent", "dropped"}]
      /\ pending \in [Sessions -> Approvals \cup {Nil}]
      /\ SessionOf \in [Inputs -> Sessions]
      /\ \A r \in Streams : Send(r) \in Messages
      /\ \A m \in Supplements : Supplement(m) \in Messages
      /\ \A c \in Cancels : Cancel(c) \in Messages
      /\ \A a \in Approvals : Answer(a) \in Messages
  BY SessionOfAssumption DEF TypeOK, Messages
\* Taking a message that is no answer, and adding any message.
<1>t. ASSUME NEW msg \in Messages, Takes(msg), inbox' = Tail(inbox),
             NEW a \in Approvals, msg # Answer(a), Queued(Answer(a))
      PROVE  Queued(Answer(a))'
  BY <1>0, <1>t, QueuedTail DEF Takes
<1>p. ASSUME NEW msg \in Messages, inbox' = Append(inbox, msg),
             NEW a \in Approvals, Queued(Answer(a))
      PROVE  Queued(Answer(a))'
  BY <1>0, <1>p, QueuedAppend
<1>q. ASSUME inbox' = inbox, NEW a \in Approvals, Queued(Answer(a))
      PROVE  Queued(Answer(a))'
  BY <1>q DEF Queued
<1>1. CASE UserSends
  <2>1. \E msg \in Messages : inbox' = Append(inbox, msg)
    BY <1>0, <1>1 DEF UserSends
  <2> QED
    BY <1>1, <2>1, <1>p, ApprovalsKept DEF UserSends
<1>2. CASE UserAnswers
  <2>1. \E msg \in Messages : inbox' = Append(inbox, msg)
    BY <1>0, <1>2 DEF UserAnswers
  <2> QED
    BY <1>2, <2>1, <1>p, ApprovalsKept DEF UserAnswers
<1>3. ASSUME NEW r \in Streams, StartStream(r) PROVE ApprovalsAccounted'
  BY <1>0, <1>3, <1>t, ApprovalsKept DEF StartStream
<1>4. ASSUME NEW a \in Approvals, ForwardAnswer(a) PROVE ApprovalsAccounted'
  <2>1. ASSUME NEW b \in Approvals, fate'[b] = "open"
        PROVE  pending'[SessionOf[b]] = b \/ Queued(Answer(b))'
    <3>1. b # a /\ fate[b] = "open" /\ pending' = pending
      BY <1>0, <1>4, <2>1 DEF ForwardAnswer
    <3>2. CASE Queued(Answer(b))
      BY <1>0, <1>4, <1>t, <3>1, <3>2 DEF ForwardAnswer
    <3> QED
      BY <3>1, <3>2 DEF ApprovalsAccounted
  <2> QED
    BY <2>1 DEF ApprovalsAccounted
<1>5. ASSUME NEW m \in Supplements, PutAside(m) \/ BeginSupplement(m)
      PROVE  ApprovalsAccounted'
  BY <1>0, <1>5, <1>t, ApprovalsKept DEF PutAside, BeginSupplement
<1>6. ASSUME NEW c \in Cancels, BeginCancel(c),
             \A a \in Approvals : Queued(Answer(a)) => Queued(Answer(a))'
      PROVE  ApprovalsAccounted'
  <2>1. ASSUME NEW b \in Approvals, fate'[b] = "open"
        PROVE  pending'[SessionOf[b]] = b \/ Queued(Answer(b))'
    <3>1. /\ fate[b] = "open" /\ b # pending[SessionOf[c]]
          /\ \A s \in Sessions : s # SessionOf[c] => pending'[s] = pending[s]
      BY <1>0, <1>6, <2>1 DEF BeginCancel
    <3>2. CASE pending[SessionOf[b]] = b
      BY <1>0, <3>1, <3>2
    <3>3. CASE Queued(Answer(b))
      BY <1>6, <3>3
    <3> QED
      BY <3>1, <3>2, <3>3 DEF ApprovalsAccounted
  <2> QED
    BY <2>1 DEF ApprovalsAccounted
<1>7. ASSUME NEW c \in Cancels, LoopCancels(c) PROVE ApprovalsAccounted'
  BY <1>0, <1>6, <1>7, <1>t DEF LoopCancels
<1>8. ASSUME NEW c \in Cancels, CancelBeside(c) PROVE ApprovalsAccounted'
  BY <1>6, <1>8, <1>q DEF CancelBeside
<1>9. ASSUME NEW a \in Approvals, AnswerResolved(a) PROVE ApprovalsAccounted'
  <2>1. fate[a] # "open" /\ fate' = fate
    BY <1>9 DEF AnswerResolved, AnswersKnown
  <2>2. ASSUME NEW b \in Approvals, Queued(Answer(b)) PROVE Queued(Answer(b))'
    <3>1. CASE aside[SessionOf[a]] = Nil
      BY <1>9, <2>2, <3>1, <1>q DEF AnswerResolved, Resolve
    <3>2. CASE aside[SessionOf[a]] # Nil
      <4>1. Send(aside[SessionOf[a]]) \in Messages
        BY <1>0, <3>2 DEF TypeOK
      <4> QED
        BY <1>9, <2>2, <3>2, <4>1, <1>p DEF AnswerResolved, Resolve
    <3> QED
      BY <3>1, <3>2
  <2>3. ASSUME NEW b \in Approvals, fate[b] = "open"
        PROVE  pending'[SessionOf[b]] = b \/ Queued(Answer(b))'
    <3>1. CASE Queued(Answer(b))
      BY <2>2, <3>1
    <3>2. CASE pending[SessionOf[b]] = b
      <4>1. SessionOf[b] # SessionOf[a]
        BY <1>9, <2>1, <2>3, <3>2 DEF AnswerResolved
      <4> QED
        BY <1>0, <1>9, <3>2, <4>1 DEF AnswerResolved, Resolve
    <3> QED
      BY <2>3, <3>1, <3>2 DEF ApprovalsAccounted
  <2> QED
    BY <2>1, <2>3 DEF ApprovalsAccounted
<1>10. ASSUME NEW a \in Approvals, AnswerUnresolved(a) PROVE ApprovalsAccounted'
  BY <1>10, <1>q, ApprovalsKept DEF AnswerUnresolved
<1>11. ASSUME NEW a \in Approvals, ApprovalAsked(a) PROVE ApprovalsAccounted'
  <2> DEFINE s == SessionOf[a]
  <2>1. ASSUME NEW b \in Approvals, Queued(Answer(b)) PROVE Queued(Answer(b))'
    <3>1. CASE pending[s] = Nil
      BY <1>11, <2>1, <3>1, <1>q DEF ApprovalAsked
    <3>2. CASE pending[s] # Nil
      <4>1. Answer(pending[s]) \in Messages
        BY <1>0, <3>2
      <4> QED
        BY <1>11, <2>1, <3>2, <4>1, <1>p DEF ApprovalAsked
    <3> QED
      BY <3>1, <3>2
  <2>2. ASSUME NEW b \in Approvals, b # a, fate[b] = "open"
        PROVE  pending'[SessionOf[b]] = b \/ Queued(Answer(b))'
    <3>1. CASE Queued(Answer(b))
      BY <2>1, <3>1
    <3>2. CASE pending[SessionOf[b]] = b /\ SessionOf[b] # s
      BY <1>0, <1>11, <3>2 DEF ApprovalAsked
    <3>3. CASE pending[SessionOf[b]] = b /\ SessionOf[b] = s
      <4>1. b # Nil
        BY NilAssumption
      <4>2. inbox' = Append(inbox, Answer(b))
        BY <1>11, <3>3, <4>1 DEF ApprovalAsked
      <4> QED
        BY <1>0, <4>2, QueuedAppend
    <3> QED
      BY <2>2, <3>1, <3>2, <3>3 DEF ApprovalsAccounted
  <2>3. pending'[s] = a
    BY <1>0, <1>11 DEF ApprovalAsked
  <2>4. \A b \in Approvals : b # a => fate'[b] = fate[b]
    BY <1>0, <1>11 DEF ApprovalAsked
  <2> QED
    BY <2>2, <2>3, <2>4 DEF ApprovalsAccounted
<1>12. ASSUME NEW m \in Supplements, SupplementJoined(m) PROVE ApprovalsAccounted'
  BY <1>12, <1>q, ApprovalsKept DEF SupplementJoined
<1>13. ASSUME NEW m \in Supplements, SupplementAnswered(m) PROVE ApprovalsAccounted'
  BY <1>0, <1>13, <1>p, ApprovalsKept DEF SupplementAnswered
<1>14. ASSUME NEW c \in Cancels, CancelAnswered(c) \/ CancelJoined(c)
       PROVE  ApprovalsAccounted'
  BY <1>14, <1>q, ApprovalsKept DEF CancelAnswered, CancelJoined
<1>15. ASSUME NEW r \in Streams, TaskStep(r) \/ StreamEnds(r) PROVE ApprovalsAccounted'
  BY <1>15, <1>q, ApprovalsKept
  DEF TaskStep, StreamRuns, StreamStillborn, StreamStops, StreamEnds, CleanUp
<1>16. ASSUME NEW s \in Sessions, EvolutionStarts(s) \/ EvolutionEnds(s)
       PROVE  ApprovalsAccounted'
  BY <1>16, <1>q, ApprovalsKept DEF EvolutionStarts, EvolutionEnds
<1>17. CASE UNCHANGED vars
  BY <1>17, <1>q, ApprovalsKept DEF vars
<1> QED
  BY <1>1, <1>2, <1>3, <1>4, <1>5, <1>7, <1>8, <1>9, <1>10, <1>11, <1>12, <1>13,
     <1>14, <1>15, <1>16, <1>17
  DEF Next, LoopTakes, AnswerReturns, CancelStep

\* Until an answer to it is forwarded, an approval is its session's current one
\* or an answer to it is on its way, unless the user has cancelled.
THEOREM ApprovalsKeptTrack == Spec => []ApprovalsAccounted
<1>1. Init => TypeOK /\ AnswersKnown /\ ApprovalsAccounted
  <2>1. ASSUME Init PROVE AnswersKnown /\ ApprovalsAccounted
    BY <2>1, NilAssumption DEF Init, AnswersKnown, ApprovalsAccounted, Messages
  <2> QED
    BY <2>1 DEF Init, TypeOK, StreamState
<1> QED
  BY <1>1, TypeStep, AnswersStep, ApprovalsStep, PTL DEF Spec

------------------------------------------------------------------------------
(* Supplements.                                                             *)

\* A supplement being handled is what the loop is in the middle of.
LoopHandles ==
    \A m \in Supplements : cpc[m] \in {"asking", "joining"} => loop = Supplement(m)

LEMMA LoopHandlesStep == TypeOK /\ LoopHandles /\ [Next]_vars => LoopHandles'
<1> SUFFICES ASSUME TypeOK, LoopHandles, [Next]_vars PROVE LoopHandles'
  OBVIOUS
<1> USE DistinctAssumption, NilAssumption
        DEF LoopHandles, TypeOK, loopVars, streamVars, evolutionVars, cancelVars, Messages
<1>1. CASE UserSends \/ UserAnswers
  BY <1>1 DEF UserSends, UserAnswers
<1>2. ASSUME NEW r \in Streams, StartStream(r) PROVE LoopHandles'
  BY <1>2 DEF StartStream
<1>3. ASSUME NEW a \in Approvals, ForwardAnswer(a) PROVE LoopHandles'
  BY <1>3 DEF ForwardAnswer, Takes
<1>4. ASSUME NEW m \in Supplements, PutAside(m) PROVE LoopHandles'
  BY <1>4 DEF PutAside
<1>5. ASSUME NEW m \in Supplements, BeginSupplement(m) PROVE LoopHandles'
  BY <1>5 DEF BeginSupplement, Takes
<1>6. ASSUME NEW c \in Cancels, LoopCancels(c) \/ CancelBeside(c) PROVE LoopHandles'
  BY <1>6 DEF LoopCancels, CancelBeside, BeginCancel, Takes
<1>7. ASSUME NEW a \in Approvals, AnswerReturns(a) PROVE LoopHandles'
  BY <1>7 DEF AnswerReturns, AnswerResolved, AnswerUnresolved
<1>8. ASSUME NEW a \in Approvals, ApprovalAsked(a) PROVE LoopHandles'
  BY <1>8 DEF ApprovalAsked
<1>9. ASSUME NEW m \in Supplements, SupplementJoined(m) PROVE LoopHandles'
  BY <1>9 DEF SupplementJoined, Joined
<1>10. ASSUME NEW m \in Supplements, SupplementAnswered(m) PROVE LoopHandles'
  BY <1>10 DEF SupplementAnswered
<1>11. ASSUME NEW c \in Cancels, CancelAnswered(c) \/ CancelJoined(c) PROVE LoopHandles'
  BY <1>11 DEF CancelAnswered, CancelJoined
<1>12. ASSUME NEW r \in Streams, TaskStep(r) \/ StreamEnds(r) PROVE LoopHandles'
  BY <1>12 DEF TaskStep, StreamRuns, StreamStillborn, StreamStops, StreamEnds, CleanUp
<1>13. ASSUME NEW s \in Sessions, EvolutionStarts(s) \/ EvolutionEnds(s) PROVE LoopHandles'
  BY <1>13 DEF EvolutionStarts, EvolutionEnds
<1>14. CASE UNCHANGED vars
  BY <1>14 DEF vars
<1> QED
  BY <1>1, <1>2, <1>3, <1>4, <1>5, <1>6, <1>7, <1>8, <1>9, <1>10, <1>11, <1>12, <1>13, <1>14
  DEF Next, LoopTakes, CancelStep

\* Where a supplement that was sent is.
Kept(m) ==
    \/ Queued(Supplement(m)) \/ loop = Supplement(m)
    \/ aside[SessionOf[m]] = m
    \/ Queued(Send(m)) \/ stream[m] # "none"

LEMMA StreamsGoOn ==
    ASSUME TypeOK, NEW rs, NEW r \in Streams, stream[r] # "none", stream' = Interrupted(rs)
    PROVE  stream'[r] # "none"
BY DEF TypeOK, Interrupted

LEMMA KeptStep ==
    ASSUME TypeOK, LoopHandles, [Next]_vars,
           NEW m \in Supplements, Kept(m), m \notin dropped'
    PROVE  Kept(m)'
<1> USE DEF loopVars, streamVars, evolutionVars, cancelVars
<1>0. /\ inbox \in Seq(Messages)
      /\ aside \in [Sessions -> Supplements \cup {Nil}]
      /\ stream \in [Streams -> StreamState]
      /\ SessionOf \in [Inputs -> Sessions]
      /\ \A r \in Streams : Send(r) \in Messages
      /\ \A n \in Supplements : Supplement(n) \in Messages
      /\ \A c \in Cancels : Cancel(c) \in Messages
      /\ \A a \in Approvals : Answer(a) \in Messages
  BY SessionOfAssumption DEF TypeOK, Messages
\* If only the queue changes, and only at its end.
<1>k. ASSUME NEW msg \in Messages, inbox' = Append(inbox, msg),
             UNCHANGED <<loop, aside, stream>>
      PROVE  Kept(m)'
  BY <1>0, <1>k, QueuedAppend DEF Kept
<1>u. ASSUME UNCHANGED <<inbox, loop, aside>>, stream[m] # "none" => stream'[m] # "none"
      PROVE  Kept(m)'
  BY <1>u DEF Kept, Queued
\* Taking a message that is not about the supplement.
<1>t. ASSUME NEW msg \in Messages, Takes(msg), inbox' = Tail(inbox),
             msg # Supplement(m), msg # Send(m), aside[SessionOf[m]] = m => aside'[SessionOf[m]] = m,
             stream[m] # "none" => stream'[m] # "none"
      PROVE  Kept(m)'
  <2>1. \A x \in Messages : x # msg /\ Queued(x) => Queued(x)'
    BY <1>0, <1>t, QueuedTail DEF Takes
  <2>2. loop # Supplement(m)
    BY <1>0, <1>t, NilAssumption DEF Takes
  <2> QED
    BY <1>0, <1>t, <2>1, <2>2 DEF Kept
<1>1. CASE UserSends
  <2>1. \E msg \in Messages : inbox' = Append(inbox, msg)
    BY <1>0, <1>1 DEF UserSends
  <2> QED
    BY <1>1, <2>1, <1>k DEF UserSends
<1>2. CASE UserAnswers
  <2>1. \E msg \in Messages : inbox' = Append(inbox, msg)
    BY <1>0, <1>2 DEF UserAnswers
  <2> QED
    BY <1>2, <2>1, <1>k DEF UserAnswers
<1>3. ASSUME NEW r \in Streams, StartStream(r) PROVE Kept(m)'
  <2>1. CASE r = m
    BY <1>0, <1>3, <2>1 DEF StartStream, Kept
  <2>2. CASE r # m
    BY <1>0, <1>3, <2>2, <1>t DEF StartStream
  <2> QED
    BY <2>1, <2>2
<1>4. ASSUME NEW a \in Approvals, ForwardAnswer(a) PROVE Kept(m)'
  BY <1>0, <1>4, <1>t DEF ForwardAnswer
<1>5. ASSUME NEW n \in Supplements, PutAside(n) PROVE Kept(m)'
  <2>1. CASE n = m
    BY <1>0, <1>5, <2>1 DEF PutAside, Kept
  <2>2. CASE n # m
    <3>1. aside[SessionOf[m]] = m => aside'[SessionOf[m]] = m
      BY <1>0, <1>5, <2>2, NilAssumption DEF PutAside
    <3> QED
      BY <1>0, <1>5, <2>2, <3>1, <1>t DEF PutAside
  <2> QED
    BY <2>1, <2>2
<1>6. ASSUME NEW n \in Supplements, BeginSupplement(n) PROVE Kept(m)'
  <2>1. CASE n = m
    BY <1>6, <2>1 DEF BeginSupplement, Kept
  <2>2. CASE n # m
    <3>1. stream[m] # "none" => stream'[m] # "none"
      BY <1>6, StreamsGoOn DEF BeginSupplement
    <3> QED
      BY <1>0, <1>6, <2>2, <3>1, <1>t DEF BeginSupplement
  <2> QED
    BY <2>1, <2>2
<1>b. ASSUME NEW c \in Cancels, BeginCancel(c)
      PROVE  /\ aside[SessionOf[m]] = m => aside'[SessionOf[m]] = m
             /\ stream' = stream
  BY <1>0, <1>b, NilAssumption DEF BeginCancel
<1>7. ASSUME NEW c \in Cancels, LoopCancels(c) PROVE Kept(m)'
  BY <1>0, <1>7, <1>b, <1>t DEF LoopCancels
<1>8. ASSUME NEW c \in Cancels, CancelBeside(c) PROVE Kept(m)'
  BY <1>8, <1>b DEF CancelBeside, Kept, Queued
<1>9. ASSUME NEW a \in Approvals, AnswerResolved(a) PROVE Kept(m)'
  <2>1. CASE aside[SessionOf[a]] = Nil
    <3>1. inbox' = inbox /\ aside' = aside /\ stream' = stream /\ loop # Supplement(m)
      BY <1>0, <1>9, <2>1 DEF AnswerResolved, Resolve
    <3> QED
      BY <3>1 DEF Kept, Queued
  <2>2. CASE aside[SessionOf[a]] # Nil
    <3>1. PICK n \in Supplements : n = aside[SessionOf[a]]
      BY <1>0, <2>2
    <3>2. /\ inbox' = Append(inbox, Send(n))
          /\ stream' = stream /\ loop # Supplement(m)
          /\ \A s \in Sessions : s # SessionOf[a] => aside'[s] = aside[s]
      BY <1>0, <1>9, <2>2, <3>1 DEF AnswerResolved, Resolve
    <3>3. Queued(Send(n))' /\ \A msg : Queued(msg) => Queued(msg)'
      BY <1>0, <3>2, QueuedAppend
    <3> HIDE DEF Queued
    <3>4. CASE aside[SessionOf[m]] = m
      <4>1. SessionOf[m] = SessionOf[a] => m = n
        BY <3>1, <3>4
      <4>2. SessionOf[m] # SessionOf[a] => aside'[SessionOf[m]] = m
        BY <1>0, <3>2, <3>4
      <4> QED
        BY <3>3, <4>1, <4>2 DEF Kept
    <3>5. CASE aside[SessionOf[m]] # m
      BY <3>2, <3>3, <3>5 DEF Kept
    <3> QED
      BY <3>4, <3>5
  <2> QED
    BY <2>1, <2>2
<1>10. ASSUME NEW a \in Approvals, AnswerUnresolved(a) PROVE Kept(m)'
  BY <1>10 DEF AnswerUnresolved, Kept, Queued
<1>11. ASSUME NEW a \in Approvals, ApprovalAsked(a) PROVE Kept(m)'
  <2>1. CASE pending[SessionOf[a]] = Nil
    BY <1>11, <2>1, <1>u DEF ApprovalAsked
  <2>2. CASE pending[SessionOf[a]] # Nil
    <3>1. Answer(pending[SessionOf[a]]) \in Messages
      BY <1>0, <2>2 DEF TypeOK
    <3> QED
      BY <1>11, <2>2, <3>1, <1>k DEF ApprovalAsked
  <2> QED
    BY <2>1, <2>2
<1>12. ASSUME NEW n \in Supplements, SupplementJoined(n) PROVE Kept(m)'
  BY <1>12, <1>u DEF SupplementJoined
<1>13. ASSUME NEW n \in Supplements, SupplementAnswered(n) PROVE Kept(m)'
  <2>1. Queued(Send(n))' /\ \A msg : Queued(msg) => Queued(msg)'
    BY <1>0, <1>13, QueuedAppend DEF SupplementAnswered
  <2>2. cpc[n] = "asking" /\ loop = Supplement(n)
    BY <1>13 DEF SupplementAnswered, LoopHandles
  <2>3. loop = Supplement(m) => n = m
    BY <2>2
  <2> QED
    BY <1>13, <2>1, <2>3 DEF SupplementAnswered, Kept
<1>14. ASSUME NEW c \in Cancels, CancelAnswered(c) PROVE Kept(m)'
  BY <1>14, <1>u, StreamsGoOn DEF CancelAnswered
<1>15. ASSUME NEW c \in Cancels, CancelJoined(c) PROVE Kept(m)'
  BY <1>15 DEF CancelJoined, Kept, Queued
<1>16. ASSUME NEW r \in Streams, TaskStep(r) \/ StreamEnds(r) PROVE Kept(m)'
  <2>1. UNCHANGED <<inbox, loop, aside>>
    BY <1>16 DEF TaskStep, StreamRuns, StreamStillborn, StreamStops, StreamEnds, CleanUp
  <2>2. stream[m] # "none" => stream'[m] # "none"
    BY <1>0, <1>16 DEF TaskStep, StreamRuns, StreamStillborn, StreamStops, StreamEnds
  <2> QED
    BY <2>1, <2>2, <1>u
<1>17. ASSUME NEW s \in Sessions, EvolutionStarts(s) \/ EvolutionEnds(s) PROVE Kept(m)'
  BY <1>17, <1>u DEF EvolutionStarts, EvolutionEnds
<1>18. CASE UNCHANGED vars
  BY <1>18, <1>u DEF vars
<1> QED
  BY <1>1, <1>2, <1>3, <1>4, <1>5, <1>6, <1>7, <1>8, <1>9, <1>10, <1>11, <1>12, <1>13,
     <1>14, <1>15, <1>16, <1>17, <1>18
  DEF Next, LoopTakes, AnswerReturns, CancelStep

\* What a user stops holding, and what is dropped, by any step.
LEMMA FreshAndDropped ==
    ASSUME TypeOK, [Next]_vars, NEW m \in Supplements
    PROVE  /\ m \in dropped => m \in dropped'
           /\ m \in fresh /\ m \notin fresh' => Queued(Supplement(m))'
<1> USE DEF loopVars, streamVars, evolutionVars, cancelVars
<1>0. inbox \in Seq(Messages) /\ \A n \in Supplements : Supplement(n) \in Messages
  BY DEF TypeOK, Messages
<1>1. CASE UserSends
  <2>1. ASSUME m \in fresh, m \notin fresh' PROVE inbox' = Append(inbox, Supplement(m))
    BY <1>1, <2>1, DistinctAssumption DEF UserSends
  <2> QED
    BY <1>0, <1>1, <2>1, QueuedAppend DEF UserSends
<1>2. CASE UserAnswers
  BY <1>2, DistinctAssumption DEF UserAnswers
<1>3. ASSUME NEW r \in Streams, StartStream(r) \/ TaskStep(r) \/ StreamEnds(r)
      PROVE  fresh' = fresh /\ dropped' = dropped
  BY <1>3
  DEF StartStream, TaskStep, StreamRuns, StreamStillborn, StreamStops, StreamEnds, CleanUp
<1>4. ASSUME NEW a \in Approvals, ForwardAnswer(a) \/ AnswerReturns(a) \/ ApprovalAsked(a)
      PROVE  fresh' = fresh /\ dropped' = dropped
  BY <1>4
  DEF ForwardAnswer, AnswerReturns, AnswerResolved, AnswerUnresolved, Resolve, ApprovalAsked
<1>5. ASSUME NEW n \in Supplements, PutAside(n) \/ BeginSupplement(n)
      PROVE  fresh' = fresh /\ (m \in dropped => m \in dropped')
  BY <1>5 DEF PutAside, BeginSupplement
<1>6. ASSUME NEW c \in Cancels, LoopCancels(c) \/ CancelBeside(c)
      PROVE  (m \in fresh => m \in fresh') /\ (m \in dropped => m \in dropped')
  BY <1>6, DistinctAssumption DEF LoopCancels, CancelBeside, BeginCancel
<1>7. ASSUME NEW c \in Cancellers, CancelStep(c) PROVE fresh' = fresh /\ dropped' = dropped
  BY <1>7
  DEF CancelStep, SupplementJoined, SupplementAnswered, CancelAnswered, CancelJoined
<1>8. ASSUME NEW s \in Sessions, EvolutionStarts(s) \/ EvolutionEnds(s)
      PROVE  fresh' = fresh /\ dropped' = dropped
  BY <1>8 DEF EvolutionStarts, EvolutionEnds
<1>9. CASE UNCHANGED vars
  BY <1>9 DEF vars
<1> QED
  BY <1>1, <1>2, <1>3, <1>4, <1>5, <1>6, <1>7, <1>8, <1>9 DEF Next, LoopTakes

\* No supplement disappears: until it is started it is queued, being handled or
\* put aside, unless a later one has replaced it or the user has cancelled.
THEOREM SupplementsKeptTrack == Spec => []SupplementsAccounted
<1>1. Init => TypeOK /\ LoopHandles /\ SupplementsAccounted
  BY DEF Init, TypeOK, StreamState, LoopHandles, SupplementsAccounted
<1>2. TypeOK /\ LoopHandles /\ SupplementsAccounted /\ [Next]_vars => SupplementsAccounted'
  <2> SUFFICES ASSUME TypeOK, LoopHandles, SupplementsAccounted, [Next]_vars,
                      NEW m \in Supplements, m \notin fresh', m \notin dropped'
               PROVE  Kept(m)'
    BY DEF SupplementsAccounted, Kept
  <2>1. CASE m \in fresh
    BY <2>1, FreshAndDropped DEF Kept
  <2>2. CASE m \notin fresh
    <3>1. Kept(m)
      BY <2>2, FreshAndDropped DEF SupplementsAccounted, Kept
    <3> QED
      BY <3>1, KeptStep
  <2> QED
    BY <2>1, <2>2
<1> QED
  BY <1>1, <1>2, TypeStep, LoopHandlesStep, PTL DEF Spec

------------------------------------------------------------------------------
(* Inputs are given once.                                                   *)

InQueue(r) == \E i \in DOMAIN inbox : inbox[i].of = r
OnceInQueue(r) == \A i, j \in DOMAIN inbox : inbox[i].of = r /\ inbox[j].of = r => i = j

Handled(r) == r \in Supplements /\ loop = Supplement(r)

\* What becomes a stream is in one place at most: with the user, in the queue,
\* in the loop's hands, put aside, or started.
InOnePlace(r) ==
    /\ OnceInQueue(r)
    /\ InQueue(r) =>
           /\ r \notin fresh /\ ~Handled(r)
           /\ aside[SessionOf[r]] # r /\ stream[r] = "none"
    /\ Handled(r) =>
           r \notin fresh /\ aside[SessionOf[r]] # r /\ stream[r] = "none"
    /\ r \in fresh => aside[SessionOf[r]] # r /\ stream[r] = "none"
    /\ \A s \in Sessions : aside[s] = r => s = SessionOf[r] /\ stream[r] = "none"

LEMMA OfTail ==
    ASSUME inbox \in Seq(Messages), inbox # <<>>, inbox' = Tail(inbox),
           NEW r, OnceInQueue(r)
    PROVE  /\ OnceInQueue(r)'
           /\ InQueue(r)' => InQueue(r) /\ Head(inbox).of # r
<1>1. \A i \in DOMAIN inbox' : i # 0 /\ i + 1 \in DOMAIN inbox /\ inbox'[i] = inbox[i + 1]
  BY TailFacts
<1>2. OnceInQueue(r)'
  <2> SUFFICES ASSUME NEW i \in DOMAIN inbox', NEW j \in DOMAIN inbox',
                      inbox'[i].of = r, inbox'[j].of = r
               PROVE  i = j
    BY DEF OnceInQueue
  <2>1. i + 1 = j + 1
    BY <1>1 DEF OnceInQueue
  <2>2. i \in Int /\ j \in Int
    OBVIOUS
  <2> QED
    BY <2>1, <2>2
<1>3. ASSUME InQueue(r)' PROVE InQueue(r) /\ Head(inbox).of # r
  <2>1. PICK i \in DOMAIN inbox' : inbox'[i].of = r
    BY <1>3 DEF InQueue
  <2>2. i + 1 \in DOMAIN inbox /\ inbox[i + 1].of = r /\ i + 1 # 1 /\ 1 \in DOMAIN inbox
    BY <1>1, <2>1, TailFacts
  <2> QED
    BY <2>2, TailFacts DEF InQueue, OnceInQueue
<1> QED
  BY <1>2, <1>3

LEMMA OfAppend ==
    ASSUME inbox \in Seq(Messages), NEW x \in Messages, inbox' = Append(inbox, x),
           NEW r, OnceInQueue(r), x.of = r => ~InQueue(r)
    PROVE  /\ OnceInQueue(r)'
           /\ InQueue(r)' => InQueue(r) \/ x.of = r
<1>1. \A j \in DOMAIN inbox' :
          \/ j \in DOMAIN inbox /\ inbox'[j] = inbox[j]
          \/ j = Len(inbox) + 1 /\ inbox'[j] = x
  BY AppendFacts
<1> QED
  BY <1>1 DEF OnceInQueue, InQueue

LEMMA OfSame == ASSUME inbox' = inbox, NEW r
                PROVE  (OnceInQueue(r)' <=> OnceInQueue(r)) /\ (InQueue(r)' <=> InQueue(r))
BY DEF OnceInQueue, InQueue

LEMMA NoneInterrupted ==
    ASSUME NEW rs, NEW r \in Streams, stream' = Interrupted(rs)
    PROVE  stream[r] = "none" => stream'[r] = "none"
BY DEF Interrupted

LEMMA OnePlaceStep ==
    ASSUME TypeOK, LoopHandles, [Next]_vars, NEW r \in Streams, InOnePlace(r)
    PROVE  InOnePlace(r)'
<1> USE DistinctAssumption, NilAssumption DEF Handled, loopVars, streamVars, evolutionVars, cancelVars
<1>0. /\ inbox \in Seq(Messages)
      /\ aside \in [Sessions -> Supplements \cup {Nil}]
      /\ stream \in [Streams -> StreamState]
      /\ SessionOf \in [Inputs -> Sessions]
      /\ \A q \in Streams : Send(q) \in Messages
      /\ \A n \in Supplements : Supplement(n) \in Messages
      /\ \A c \in Cancels : Cancel(c) \in Messages
      /\ \A a \in Approvals : Answer(a) \in Messages
      /\ \A n \in Supplements : Supplement(n) # Nil
  BY SessionOfAssumption DEF TypeOK, Messages
\* Nothing moves, though a stream that was started may go on.
<1>u. ASSUME UNCHANGED <<fresh, inbox, loop, aside>>, stream[r] = "none" => stream'[r] = "none"
      PROVE  InOnePlace(r)'
  BY <1>u, OfSame DEF InOnePlace
\* A message about something else is queued.
<1>k. ASSUME NEW x \in Messages, inbox' = Append(inbox, x), x.of # r,
             UNCHANGED <<loop, aside, stream>>, r \in fresh' => r \in fresh
      PROVE  InOnePlace(r)'
  BY <1>0, <1>k, OfAppend DEF InOnePlace
\* A message about something else is taken.
<1>t. ASSUME NEW x \in Messages, Takes(x), inbox' = Tail(inbox), x.of # r,
             fresh' = fresh, ~Handled(r)',
             aside' = aside, stream[r] = "none" => stream'[r] = "none"
      PROVE  InOnePlace(r)'
  BY <1>0, <1>t, OfTail DEF InOnePlace, Takes
<1>h. ASSUME NEW x \in Messages, Takes(x), inbox' = Tail(inbox)
      PROVE  /\ OnceInQueue(r)'
             /\ InQueue(r)' => InQueue(r) /\ x.of # r
             /\ x.of = r => InQueue(r)
  BY <1>0, <1>h, OfTail, TailFacts DEF InOnePlace, Takes, InQueue
<1>1. CASE UserSends
  <2>1. PICK m \in fresh \cap (Streams \cup Cancels), x \in Messages :
            /\ fresh' = fresh \ {m}
            /\ inbox' = Append(inbox, x)
            /\ x.of = m
    BY <1>0, <1>1 DEF UserSends
  <2>2. UNCHANGED <<loop, aside, stream>>
    BY <1>1 DEF UserSends
  <2>3. CASE m = r
    <3>1. ~InQueue(r) /\ ~Handled(r) /\ aside[SessionOf[r]] # r /\ stream[r] = "none"
      BY <2>1, <2>3 DEF InOnePlace
    <3>2. OnceInQueue(r)'
      BY <1>0, <2>1, <3>1, OfAppend DEF InOnePlace
    <3> QED
      BY <2>1, <2>2, <2>3, <3>1, <3>2 DEF InOnePlace
  <2>4. CASE m # r
    BY <1>k, <2>1, <2>2, <2>4
  <2> QED
    BY <2>3, <2>4
<1>2. CASE UserAnswers
  <2>1. PICK a \in Approvals : inbox' = Append(inbox, Answer(a)) /\ fresh' = fresh \ {a}
    BY <1>2 DEF UserAnswers
  <2> QED
    BY <1>0, <1>2, <2>1, <1>k DEF UserAnswers
<1>3. ASSUME NEW q \in Streams, StartStream(q) PROVE InOnePlace(r)'
  <2>1. CASE q = r
    <3>1. ~InQueue(r)' /\ OnceInQueue(r)' /\ InQueue(r)
      BY <1>0, <1>3, <1>h, <2>1 DEF StartStream
    <3> QED
      BY <1>0, <1>3, <2>1, <3>1 DEF StartStream, InOnePlace
  <2>2. CASE q # r
    BY <1>0, <1>3, <1>t, <2>2 DEF StartStream, Takes
  <2> QED
    BY <2>1, <2>2
<1>4. ASSUME NEW a \in Approvals, ForwardAnswer(a) PROVE InOnePlace(r)'
  BY <1>0, <1>4, <1>t DEF ForwardAnswer
<1>5. ASSUME NEW n \in Supplements, PutAside(n) PROVE InOnePlace(r)'
  <2>1. OnceInQueue(r)' /\ (InQueue(r)' => InQueue(r) /\ n # r) /\ (n = r => InQueue(r))
    BY <1>0, <1>5, <1>h DEF PutAside
  <2>2. UNCHANGED <<fresh, loop, stream>> /\ aside' = [aside EXCEPT ![SessionOf[n]] = n]
    BY <1>5 DEF PutAside
  <2>3. CASE n = r
    BY <1>0, <2>1, <2>2, <2>3 DEF InOnePlace
  <2>4. CASE n # r
    <3>1. \A s \in Sessions : aside'[s] = r => aside[s] = r
      BY <1>0, <2>2, <2>4
    <3> QED
      BY <1>0, <2>1, <2>2, <2>4, <3>1 DEF InOnePlace
  <2> QED
    BY <2>3, <2>4
<1>6. ASSUME NEW n \in Supplements, BeginSupplement(n) PROVE InOnePlace(r)'
  <2>1. stream[r] = "none" => stream'[r] = "none"
    BY <1>6, NoneInterrupted DEF BeginSupplement
  <2>2. CASE n = r
    <3>1. ~InQueue(r)' /\ OnceInQueue(r)' /\ InQueue(r)
      BY <1>0, <1>6, <1>h, <2>2 DEF BeginSupplement
    <3> QED
      BY <1>6, <2>1, <2>2, <3>1 DEF BeginSupplement, InOnePlace
  <2>3. CASE n # r
    BY <1>0, <1>6, <1>t, <2>1, <2>3 DEF BeginSupplement
  <2> QED
    BY <2>2, <2>3
<1>b. ASSUME NEW c \in Cancels, BeginCancel(c)
      PROVE  stream' = stream /\ \A s \in Sessions : aside'[s] = r => aside[s] = r
  BY <1>0, <1>b DEF BeginCancel
<1>7. ASSUME NEW c \in Cancels, LoopCancels(c) PROVE InOnePlace(r)'
  <2>1. OnceInQueue(r)' /\ (InQueue(r)' => InQueue(r))
    BY <1>0, <1>7, <1>h DEF LoopCancels
  <2>2. ~Handled(r)' /\ fresh' = fresh
    BY <1>7 DEF LoopCancels
  <2> QED
    BY <1>0, <1>7, <1>b, <2>1, <2>2 DEF LoopCancels, InOnePlace
<1>8. ASSUME NEW c \in Cancels, CancelBeside(c) PROVE InOnePlace(r)'
  <2>1. fresh' = fresh \ {c} /\ inbox' = inbox /\ loop' = loop
    BY <1>8 DEF CancelBeside
  <2> QED
    BY <1>0, <1>8, <1>b, <2>1, OfSame DEF CancelBeside, InOnePlace
<1>9. ASSUME NEW a \in Approvals, AnswerResolved(a) PROVE InOnePlace(r)'
  <2> DEFINE s == SessionOf[a]
  <2>1. /\ fresh' = fresh /\ stream' = stream /\ ~Handled(r)'
        /\ aside' = [aside EXCEPT ![s] = Nil] /\ s \in Sessions
        /\ inbox' = IF aside[s] = Nil THEN inbox ELSE Append(inbox, Send(aside[s]))
    BY <1>0, <1>9 DEF AnswerResolved, Resolve, Messages
  <2>2. \A z \in Sessions : aside'[z] = r => aside[z] = r /\ z # s
    BY <1>0, <2>1
  <2> HIDE DEF s
  <2>3. CASE aside[s] = Nil
    BY <1>0, <2>1, <2>2, <2>3, OfSame DEF InOnePlace
  <2>4. CASE aside[s] # Nil
    <3>1. PICK n \in Supplements : n = aside[s]
      BY <1>0, <2>1, <2>4
    <3>2. inbox' = Append(inbox, Send(n)) /\ Send(n).of = n /\ Send(n) \in Messages
      BY <1>0, <2>1, <2>4, <3>1
    <3>3. CASE n = r
      <4>1. s = SessionOf[r] /\ stream[r] = "none" /\ ~InQueue(r) /\ r \notin fresh
        BY <2>1, <3>1, <3>3 DEF InOnePlace
      <4>2. OnceInQueue(r)'
        BY <1>0, <3>2, <4>1, OfAppend DEF InOnePlace
      <4>3. \A z \in Sessions : aside'[z] # r
        BY <2>2, <4>1 DEF InOnePlace
      <4>4. SessionOf[r] \in Sessions
        BY <1>0
      <4> QED
        BY <2>1, <4>1, <4>2, <4>3, <4>4 DEF InOnePlace
    <3>4. CASE n # r
      <4>1. OnceInQueue(r)' /\ (InQueue(r)' => InQueue(r))
        BY <1>0, <3>2, <3>4, OfAppend DEF InOnePlace
      <4> QED
        BY <1>0, <2>1, <2>2, <4>1 DEF InOnePlace
    <3> QED
      BY <3>3, <3>4
  <2> QED
    BY <2>3, <2>4
<1>10. ASSUME NEW a \in Approvals, AnswerUnresolved(a) PROVE InOnePlace(r)'
  <2>1. UNCHANGED <<fresh, inbox, aside, stream>> /\ ~Handled(r)'
    BY <1>10 DEF AnswerUnresolved, Messages
  <2> QED
    BY <2>1, OfSame DEF InOnePlace
<1>11. ASSUME NEW a \in Approvals, ApprovalAsked(a) PROVE InOnePlace(r)'
  <2>1. CASE pending[SessionOf[a]] = Nil
    BY <1>11, <2>1, <1>u DEF ApprovalAsked
  <2>2. CASE pending[SessionOf[a]] # Nil
    <3>1. PICK b \in Approvals : b = pending[SessionOf[a]]
      BY <1>0, <2>2 DEF TypeOK
    <3>2. inbox' = Append(inbox, Answer(b)) /\ Answer(b).of = b
      BY <1>11, <2>2, <3>1 DEF ApprovalAsked
    <3> QED
      BY <1>0, <1>11, <3>2, <1>k DEF ApprovalAsked
  <2> QED
    BY <2>1, <2>2
<1>12. ASSUME NEW n \in Supplements, SupplementJoined(n) PROVE InOnePlace(r)'
  BY <1>12, <1>u DEF SupplementJoined
<1>13. ASSUME NEW n \in Supplements, SupplementAnswered(n) PROVE InOnePlace(r)'
  <2>1. /\ loop = Supplement(n) /\ loop' = Nil /\ inbox' = Append(inbox, Send(n))
        /\ UNCHANGED <<fresh, aside, stream>> /\ Send(n).of = n
    BY <1>13 DEF SupplementAnswered, LoopHandles
  <2>2. CASE n = r
    <3>1. ~InQueue(r) /\ r \notin fresh /\ aside[SessionOf[r]] # r /\ stream[r] = "none"
      BY <2>1, <2>2 DEF InOnePlace
    <3>2. OnceInQueue(r)'
      BY <1>0, <2>1, <3>1, OfAppend DEF InOnePlace
    <3>3. ~Handled(r)'
      BY <1>0, <2>1
    <3> QED
      BY <1>0, <2>1, <3>1, <3>2, <3>3 DEF InOnePlace
  <2>3. CASE n # r
    <3>1. OnceInQueue(r)' /\ (InQueue(r)' => InQueue(r))
      BY <1>0, <2>1, <2>3, OfAppend DEF InOnePlace
    <3>2. ~Handled(r)'
      BY <1>0, <2>1
    <3> QED
      BY <1>0, <2>1, <3>1, <3>2 DEF InOnePlace, Messages
  <2> QED
    BY <2>2, <2>3
<1>14. ASSUME NEW c \in Cancels, CancelAnswered(c) PROVE InOnePlace(r)'
  BY <1>14, <1>u, NoneInterrupted DEF CancelAnswered
<1>15. ASSUME NEW c \in Cancels, CancelJoined(c) PROVE InOnePlace(r)'
  <2>1. UNCHANGED <<fresh, inbox, aside, stream>> /\ (Handled(r)' => Handled(r))
    BY <1>15 DEF CancelJoined, Messages
  <2> QED
    BY <2>1, OfSame DEF InOnePlace
<1>16. ASSUME NEW q \in Streams, TaskStep(q) \/ StreamEnds(q) PROVE InOnePlace(r)'
  <2>1. UNCHANGED <<fresh, inbox, loop, aside>>
    BY <1>16 DEF TaskStep, StreamRuns, StreamStillborn, StreamStops, StreamEnds, CleanUp
  <2>2. stream[r] = "none" => stream'[r] = "none"
    BY <1>0, <1>16 DEF TaskStep, StreamRuns, StreamStillborn, StreamStops, StreamEnds
  <2> QED
    BY <2>1, <2>2, <1>u
<1>17. ASSUME NEW s \in Sessions, EvolutionStarts(s) \/ EvolutionEnds(s) PROVE InOnePlace(r)'
  BY <1>17, <1>u DEF EvolutionStarts, EvolutionEnds
<1>18. CASE UNCHANGED vars
  BY <1>18, <1>u DEF vars
<1> QED
  BY <1>1, <1>2, <1>3, <1>4, <1>5, <1>6, <1>7, <1>8, <1>9, <1>10, <1>11, <1>12, <1>13,
     <1>14, <1>15, <1>16, <1>17, <1>18
  DEF Next, LoopTakes, AnswerReturns, CancelStep

AllInOnePlace == \A r \in Streams : InOnePlace(r)

LEMMA InitInOnePlace == Init => AllInOnePlace
<1> SUFFICES ASSUME Init, NEW r \in Streams PROVE InOnePlace(r)
  BY DEF AllInOnePlace
<1>1. ~InQueue(r) /\ OnceInQueue(r)
  BY DEF Init, InQueue, OnceInQueue
<1>2. ~Handled(r)
  BY NilAssumption DEF Init, Handled, Messages
<1>3. stream[r] = "none" /\ SessionOf[r] \in Sessions /\ r # Nil
  BY SessionOfAssumption, NilAssumption DEF Init
<1> QED
  BY <1>1, <1>2, <1>3 DEF Init, InOnePlace

MHInv == TypeOK /\ LoopHandles /\ AllInOnePlace

LEMMA MHInvStep == MHInv /\ [Next]_vars => MHInv'
BY TypeStep, LoopHandlesStep, OnePlaceStep DEF MHInv, AllInOnePlace

THEOREM MHInvariant == Spec => []MHInv
<1>1. Init => MHInv
  BY InitInOnePlace DEF Init, MHInv, TypeOK, StreamState, LoopHandles
<1> QED
  BY <1>1, MHInvStep, PTL DEF Spec

\* How a step may change the life of a stream.
LEMMA StreamLife ==
    ASSUME MHInv, [Next]_vars, NEW r \in Streams, stream'[r] # stream[r]
    PROVE  /\ stream'[r] = "created" => stream[r] = "none"
           /\ stream[r] # "none" => stream'[r] # "none" /\ (~Live(r) => ~Live(r)')
<1> USE DEF loopVars, streamVars, evolutionVars, cancelVars
<1>0. stream \in [Streams -> StreamState] /\ inbox \in Seq(Messages)
  BY DEF MHInv, TypeOK
<1>1. ASSUME NEW q \in Streams, StartStream(q)
      PROVE  stream[r] = "none"
  <2>1. q = r
    BY <1>0, <1>1 DEF StartStream
  <2>2. InQueue(r)
    BY <1>0, <1>1, <2>1, TailFacts DEF StartStream, Takes, InQueue
  <2> QED
    BY <2>2 DEF MHInv, AllInOnePlace, InOnePlace
<1>2. ASSUME NEW rs, stream' = Interrupted(rs)
      PROVE  stream[r] \in {"created", "running"} /\ stream'[r] \in {"doomed", "stopping"}
  BY <1>2 DEF Interrupted
<1>3. ASSUME NEW q \in Streams, TaskStep(q) \/ StreamEnds(q)
      PROVE  /\ stream[r] \in {"created", "doomed", "running", "stopping"}
             /\ stream'[r] \in {"running", "stillborn", "cancelled", "ended"}
  BY <1>0, <1>3 DEF TaskStep, StreamRuns, StreamStillborn, StreamStops, StreamEnds
<1>4. CASE UserSends \/ UserAnswers
  BY <1>4 DEF UserSends, UserAnswers
<1>5. ASSUME NEW a \in Approvals, ForwardAnswer(a) \/ AnswerReturns(a) \/ ApprovalAsked(a)
      PROVE  FALSE
  BY <1>5 DEF ForwardAnswer, AnswerReturns, AnswerResolved, AnswerUnresolved, ApprovalAsked
<1>6. ASSUME NEW m \in Supplements, PutAside(m) PROVE FALSE
  BY <1>6 DEF PutAside
<1>7. ASSUME NEW m \in Supplements, BeginSupplement(m) PROVE \E rs : stream' = Interrupted(rs)
  BY <1>7 DEF BeginSupplement
<1>8. ASSUME NEW c \in Cancels, LoopCancels(c) \/ CancelBeside(c) PROVE FALSE
  BY <1>8 DEF LoopCancels, CancelBeside, BeginCancel
<1>9. ASSUME NEW c \in Cancellers, CancelStep(c) PROVE \E rs : stream' = Interrupted(rs)
  BY <1>9
  DEF CancelStep, SupplementJoined, SupplementAnswered, CancelAnswered, CancelJoined
<1>10. ASSUME NEW s \in Sessions, EvolutionStarts(s) \/ EvolutionEnds(s) PROVE FALSE
  BY <1>10 DEF EvolutionStarts, EvolutionEnds
<1>11. CASE UNCHANGED vars
  BY <1>11 DEF vars
<1>12. CASE stream[r] = "none"
  BY <1>12
<1>13. CASE \E rs : stream' = Interrupted(rs)
  BY <1>2, <1>13 DEF Live
<1>14. CASE \E q \in Streams : TaskStep(q) \/ StreamEnds(q)
  BY <1>3, <1>14 DEF Live
<1> QED
  BY <1>1, <1>4, <1>5, <1>6, <1>7, <1>8, <1>9, <1>10, <1>11, <1>12, <1>13, <1>14
  DEF Next, LoopTakes

\* No input is given to the agent twice.
THEOREM InputsGivenOnce == Spec => GivenOnce
<1>1. MHInv /\ [Next]_vars =>
          [\A r \in Streams : stream'[r] = "created" => stream[r] \in {"none", "created"}]_vars
  BY StreamLife
<1> QED
  BY <1>1, MHInvariant, PTL DEF Spec, GivenOnce

------------------------------------------------------------------------------
(* Cancellations.                                                           *)

\* A cancellation has seen the streams it found end before it is done; a
\* supplement, before it asks the agent.
HasAwaited(c) == cpc[c] = "done" \/ (cpc[c] = "asking" /\ c \in Supplements)

VictimsKnown ==
    \A c \in Cancellers :
        /\ \A r \in victims[c] : stream[r] # "none"
        /\ HasAwaited(c) => \A r \in victims[c] : ~Live(r)

\* Streams go on so that what is known of a cancellation's victims stays true.
LEMMA VictimsKept ==
    ASSUME MHInv, VictimsKnown, [Next]_vars, NEW c \in Cancellers,
           victims'[c] = victims[c], HasAwaited(c)' => HasAwaited(c) \/ (Joined(c) /\ stream' = stream)
    PROVE  /\ \A r \in victims'[c] : stream'[r] # "none"
           /\ HasAwaited(c)' => \A r \in victims'[c] : ~Live(r)'
<1>1. victims[c] \subseteq Streams
  BY DEF MHInv, TypeOK
<1>2. ASSUME NEW r \in victims[c] PROVE stream'[r] # "none" /\ (~Live(r) => ~Live(r)')
  <2>1. r \in Streams /\ stream[r] # "none"
    BY <1>1 DEF VictimsKnown
  <2>2. CASE stream'[r] = stream[r]
    BY <2>1, <2>2 DEF Live
  <2>3. CASE stream'[r] # stream[r]
    BY <2>1, <2>3, StreamLife
  <2> QED
    BY <2>2, <2>3
<1>3. ASSUME HasAwaited(c)', NEW r \in victims[c] PROVE ~Live(r)
  BY <1>3 DEF VictimsKnown, Joined
<1> QED
  BY <1>2, <1>3

LEMMA VictimsStep == MHInv /\ VictimsKnown /\ [Next]_vars => VictimsKnown'
<1> SUFFICES ASSUME MHInv, VictimsKnown, [Next]_vars, NEW c \in Cancellers
             PROVE  /\ \A r \in victims'[c] : stream'[r] # "none"
                    /\ HasAwaited(c)' => \A r \in victims'[c] : ~Live(r)'
  BY DEF VictimsKnown, HasAwaited, Live
<1> USE DistinctAssumption DEF loopVars, streamVars, evolutionVars, cancelVars
<1>0. /\ cpc \in [Cancellers -> {"new", "asking", "joining", "done"}]
      /\ victims \in [Cancellers -> SUBSET Streams]
      /\ SessionOf \in [Inputs -> Sessions]
  BY SessionOfAssumption DEF MHInv, TypeOK
<1>l. \A s, r : r \in LiveOf(s) => r \in Streams /\ Live(r)
  BY DEF MHInv, TypeOK, LiveOf, Listed
<1>u. CASE UNCHANGED <<cpc, victims>>
  BY <1>u, VictimsKept DEF HasAwaited
<1>1. CASE UserSends \/ UserAnswers
  BY <1>1, <1>u DEF UserSends, UserAnswers
<1>2. ASSUME NEW q \in Streams, StartStream(q) \/ TaskStep(q) \/ StreamEnds(q)
      PROVE  UNCHANGED <<cpc, victims>>
  BY <1>2
  DEF StartStream, TaskStep, StreamRuns, StreamStillborn, StreamStops, StreamEnds, CleanUp
<1>3. ASSUME NEW a \in Approvals, ForwardAnswer(a) \/ AnswerReturns(a) \/ ApprovalAsked(a)
      PROVE  UNCHANGED <<cpc, victims>>
  BY <1>3 DEF ForwardAnswer, AnswerReturns, AnswerResolved, AnswerUnresolved, ApprovalAsked
<1>4. ASSUME NEW m \in Supplements, PutAside(m) PROVE UNCHANGED <<cpc, victims>>
  BY <1>4 DEF PutAside
<1>5. ASSUME NEW m \in Supplements, BeginSupplement(m)
      PROVE  /\ \A r \in victims'[c] : stream'[r] # "none"
             /\ HasAwaited(c)' => \A r \in victims'[c] : ~Live(r)'
  <2>1. CASE c = m
    <3>1. victims'[c] = LiveOf(SessionOf[m])
      BY <1>0, <1>5, <2>1 DEF BeginSupplement
    <3>2. ASSUME NEW r \in LiveOf(SessionOf[m]) PROVE stream'[r] # "none"
      BY <1>5, <1>l DEF BeginSupplement, Interrupted, Live
    <3>3. HasAwaited(c)' => LiveOf(SessionOf[m]) = {}
      BY <1>0, <1>5, <2>1 DEF BeginSupplement, HasAwaited
    <3> QED
      BY <3>1, <3>2, <3>3
  <2>2. CASE c # m
    <3>1. victims'[c] = victims[c] /\ cpc'[c] = cpc[c]
      BY <1>0, <1>5, <2>2 DEF BeginSupplement
    <3> QED
      BY <3>1, VictimsKept DEF HasAwaited
  <2> QED
    BY <2>1, <2>2
<1>6. ASSUME NEW d \in Cancels, LoopCancels(d) \/ CancelBeside(d)
      PROVE  /\ \A r \in victims'[c] : stream'[r] # "none"
             /\ HasAwaited(c)' => \A r \in victims'[c] : ~Live(r)'
  <2>1. BeginCancel(d)
    BY <1>6 DEF LoopCancels, CancelBeside
  <2>2. CASE c = d
    <3>1. victims'[c] = LiveOf(SessionOf[d]) /\ ~HasAwaited(c)' /\ stream' = stream
      BY <1>0, <2>1, <2>2 DEF BeginCancel, HasAwaited
    <3> QED
      BY <3>1, <1>l DEF Live
  <2>3. CASE c # d
    <3>1. victims'[c] = victims[c] /\ cpc'[c] = cpc[c]
      BY <1>0, <2>1, <2>3 DEF BeginCancel
    <3> QED
      BY <3>1, VictimsKept DEF HasAwaited
  <2> QED
    BY <2>2, <2>3
<1>7. ASSUME NEW d \in Cancellers, CancelStep(d)
      PROVE  /\ victims'[c] = victims[c]
             /\ HasAwaited(c)' => HasAwaited(c) \/ (Joined(c) /\ stream' = stream)
  <2>1. CASE c # d
    BY <1>0, <1>7, <2>1
    DEF CancelStep, SupplementJoined, SupplementAnswered, CancelAnswered, CancelJoined, HasAwaited
  <2>2. CASE c = d /\ d \in Supplements
    BY <1>0, <1>7, <2>2 DEF CancelStep, SupplementJoined, SupplementAnswered, HasAwaited
  <2>3. CASE c = d /\ d \notin Supplements
    BY <1>0, <1>7, <2>3 DEF CancelStep, CancelAnswered, CancelJoined, HasAwaited
  <2> QED
    BY <2>1, <2>2, <2>3
<1>8. ASSUME NEW s \in Sessions, EvolutionStarts(s) \/ EvolutionEnds(s)
      PROVE  UNCHANGED <<cpc, victims>>
  BY <1>8 DEF EvolutionStarts, EvolutionEnds
<1>9. CASE UNCHANGED vars
  BY <1>9, <1>u DEF vars
<1>10. CASE \E d \in Cancellers : CancelStep(d)
  BY <1>7, <1>10, VictimsKept
<1> QED
  BY <1>1, <1>2, <1>3, <1>4, <1>5, <1>6, <1>8, <1>9, <1>10, <1>u DEF Next, LoopTakes

\* When a cancellation has ended, no stream it found is live.
THEOREM CancellationsThorough == Spec => []CancelIsThorough
<1>1. Init => VictimsKnown
  BY DEF Init, VictimsKnown, HasAwaited
<1>2. VictimsKnown => CancelIsThorough
  BY DEF VictimsKnown, HasAwaited, CancelIsThorough
<1> QED
  BY <1>1, <1>2, MHInvariant, VictimsStep, PTL DEF Spec

=============================================================================
