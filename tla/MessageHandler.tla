---------------------------- MODULE MessageHandler ----------------------------
(***************************************************************************)
(* The gateway's message handler                                           *)
(* (jiuwenswarm/gateway/message_handler/message_handler.py): one loop      *)
(* forwards the users' messages to the agent server, in order, and runs    *)
(* each chat as a stream in a task of its own.                             *)
(*                                                                         *)
(* A user may interrupt a chat (chat.cancel), or replace it with new input *)
(* (a supplement).  While the agent evolves a skill, or waits for the user *)
(* to approve what it has evolved, a supplement is put aside until the     *)
(* approval is answered.  The loop waits for the agent in the middle of a  *)
(* message; streams, events pushed by the agent and cancellations for a    *)
(* changed session, a changed mode or a lost terminal go on meanwhile.     *)
(***************************************************************************)
EXTENDS Integers, Sequences

CONSTANTS
    Sessions,
    Sends,          \* chat.send requests of users
    Supplements,    \* chat.cancel requests with new_input
    Cancels,        \* cancellations: chat.cancel without new_input, /new_session,
                    \*   /mode, a lost terminal
    Approvals,      \* questions the agent asks about an evolved skill
    SessionOf,      \* the session each of these belongs to
    Nil

Streams == Sends \cup Supplements
Cancellers == Supplements \cup Cancels
Inputs == Sends \cup Cancellers \cup Approvals

ASSUME SessionOfAssumption == SessionOf \in [Inputs -> Sessions]
ASSUME DistinctAssumption ==
    /\ Sends \cap (Cancellers \cup Approvals) = {}
    /\ Supplements \cap (Cancels \cup Approvals) = {}
    /\ Cancels \cap Approvals = {}

VARIABLES
    fresh,          \* what users have not sent yet; approvals they have not answered
    inbox,          \* _user_messages
    loop,           \* the message _forward_loop is in the middle of
    stream,         \* life of the task of a stream
    registered,     \* _stream_tasks, _stream_sessions and the other tables of streams
    evolving,       \* _session_evolution_in_progress
    pending,        \* _pending_evolution_approval
    aside,          \* _queued_supplement_input
    cpc,            \* where a cancellation is
    victims,        \* tasks_to_cancel of a cancellation
    fate,           \* history: what became of an approval
    dropped         \* history: supplements put aside and then replaced or cancelled

loopVars == <<fresh, inbox, loop>>
streamVars == <<stream, registered>>
evolutionVars == <<evolving, pending, aside, fate, dropped>>
cancelVars == <<cpc, victims>>
vars == <<loopVars, streamVars, evolutionVars, cancelVars>>

Send(r) == [kind |-> "send", of |-> r]
Supplement(m) == [kind |-> "supplement", of |-> m]
Cancel(c) == [kind |-> "cancel", of |-> c]
Answer(a) == [kind |-> "answer", of |-> a]

Messages ==
    {Send(r) : r \in Streams} \cup {Supplement(m) : m \in Supplements}
        \cup {Cancel(c) : c \in Cancels} \cup {Answer(a) : a \in Approvals}

ASSUME NilAssumption == Nil \notin Inputs \cup Messages

StreamState == {"none", "created", "doomed", "running", "stopping",
                "stillborn", "cancelled", "ended"}

TypeOK ==
    /\ fresh \subseteq Inputs
    /\ inbox \in Seq(Messages)
    /\ loop \in Messages \cup {Nil}
    /\ stream \in [Streams -> StreamState]
    /\ registered \subseteq Streams
    /\ evolving \subseteq Sessions
    /\ pending \in [Sessions -> Approvals \cup {Nil}]
    /\ aside \in [Sessions -> Supplements \cup {Nil}]
    /\ cpc \in [Cancellers -> {"new", "asking", "joining", "done"}]
    /\ victims \in [Cancellers -> SUBSET Streams]
    /\ fate \in [Approvals -> {"unasked", "open", "sent", "dropped"}]
    /\ dropped \subseteq Supplements

Init ==
    /\ fresh = Inputs
    /\ inbox = <<>>
    /\ loop = Nil
    /\ stream = [r \in Streams |-> "none"]
    /\ registered = {}
    /\ evolving = {}
    /\ pending = [s \in Sessions |-> Nil]
    /\ aside = [s \in Sessions |-> Nil]
    /\ cpc = [c \in Cancellers |-> "new"]
    /\ victims = [c \in Cancellers |-> {}]
    /\ fate = [a \in Approvals |-> "unasked"]
    /\ dropped = {}

Live(r) == stream[r] \in {"created", "doomed", "running", "stopping"}

\* Streams the tables show for a session.
Listed(s) == {r \in registered : SessionOf[r] = s}

------------------------------------------------------------------------------
(* What users send.                                                         *)

\* handle_message: a channel puts a message into the queue.
UserSends ==
    \E m \in fresh \cap (Streams \cup Cancels) :
        /\ fresh' = fresh \ {m}
        /\ inbox' = Append(inbox, CASE m \in Sends -> Send(m)
                                    [] m \in Supplements -> Supplement(m)
                                    [] OTHER -> Cancel(m))
        /\ UNCHANGED <<loop, streamVars, evolutionVars, cancelVars>>

\* A user answers an approval that was shown.
UserAnswers ==
    \E a \in fresh \cap Approvals :
        /\ fate[a] # "unasked"
        /\ fresh' = fresh \ {a}
        /\ inbox' = Append(inbox, Answer(a))
        /\ UNCHANGED <<loop, streamVars, evolutionVars, cancelVars>>

------------------------------------------------------------------------------
(* The forward loop.                                                        *)

\* The loop takes the next message.
Takes(msg) ==
    /\ loop = Nil
    /\ inbox # <<>>
    /\ msg = Head(inbox)

\* A chat becomes a stream: its task is created and entered in the tables.
StartStream(r) ==
    /\ Takes(Send(r))
    /\ inbox' = Tail(inbox)
    /\ stream' = [stream EXCEPT ![r] = "created"]
    /\ registered' = registered \cup {r}
    /\ UNCHANGED <<fresh, loop, evolutionVars, cancelVars>>

\* An answer is forwarded, and the loop waits for the agent's response.
ForwardAnswer(a) ==
    /\ Takes(Answer(a))
    /\ inbox' = Tail(inbox)
    /\ loop' = Answer(a)
    /\ fate' = [fate EXCEPT ![a] = "sent"]
    /\ UNCHANGED <<fresh, streamVars, evolving, pending, aside, dropped, cancelVars>>

\* Faulty: the slot is read and not emptied.

ResolveKeeping(a) ==
    LET s == SessionOf[a] IN
    /\ pending' = [pending EXCEPT ![s] = Nil]
    /\ evolving' = evolving \ {s}
    /\ aside' = aside
    /\ inbox' = IF aside[s] = Nil THEN inbox ELSE Append(inbox, Send(aside[s]))

\* _finish_evolution_approval_if_current, and the supplement put aside is
\* queued as a chat.
Resolve(a) ==
    LET s == SessionOf[a] IN
    /\ pending' = [pending EXCEPT ![s] = Nil]
    /\ evolving' = evolving \ {s}
    /\ aside' = [aside EXCEPT ![s] = Nil]
    /\ inbox' = IF aside[s] = Nil THEN inbox ELSE Append(inbox, Send(aside[s]))

\* The agent has taken the answer and the approval is still the session's
\* current one.
AnswerResolved(a) ==
    /\ loop = Answer(a)
    /\ pending[SessionOf[a]] = a
    /\ loop' = Nil
    /\ Resolve(a)
    /\ UNCHANGED <<fresh, streamVars, fate, dropped, cancelVars>>

\* The request failed, the agent did not know the approval, or a newer one has
\* replaced it.
AnswerUnresolved(a) ==
    /\ loop = Answer(a)
    /\ loop' = Nil
    /\ UNCHANGED <<fresh, inbox, streamVars, evolutionVars, cancelVars>>

\* Faulty: a task that has not run yet is not interrupted.
InterruptedIfRunning(rs) ==
    [r \in Streams |-> IF r \in rs /\ stream[r] = "running" THEN "stopping" ELSE stream[r]]

\* task.cancel() of streams that are not done.  One that has not run yet will
\* never enter process_stream.
Interrupted(rs) ==
    [r \in Streams |->
        CASE r \in rs /\ stream[r] = "created" -> "doomed"
          [] r \in rs /\ stream[r] = "running" -> "stopping"
          [] OTHER -> stream[r]]

LiveOf(s) == {r \in Listed(s) : Live(r)}

\* A supplement comes while the session evolves a skill or waits for an
\* approval: it replaces what was put aside before.
PutAside(m) ==
    LET s == SessionOf[m] IN
    /\ Takes(Supplement(m))
    /\ s \in evolving \/ pending[s] # Nil
    /\ inbox' = Tail(inbox)
    /\ aside' = [aside EXCEPT ![s] = m]
    /\ dropped' = IF aside[s] = Nil THEN dropped ELSE dropped \cup {aside[s]}
    /\ UNCHANGED <<fresh, loop, streamVars, evolving, pending, fate, cancelVars>>

\* Otherwise the session's streams are cancelled, and the loop waits for them.
BeginSupplement(m) ==
    LET s == SessionOf[m] IN
    /\ Takes(Supplement(m))
    /\ s \notin evolving /\ pending[s] = Nil
    /\ inbox' = Tail(inbox)
    /\ loop' = Supplement(m)
    /\ stream' = Interrupted(LiveOf(s))
    /\ victims' = [victims EXCEPT ![m] = LiveOf(s)]
    /\ cpc' = [cpc EXCEPT ![m] = IF LiveOf(s) = {} THEN "asking" ELSE "joining"]
    /\ UNCHANGED <<fresh, registered, evolutionVars>>

\* Faulty: the cancellation does not wait; it waits for the tables.
JoinedAtOnce(c) == cpc[c] = "joining"
JoinedByTables(c) == cpc[c] = "joining" /\ victims[c] \cap registered = {}

\* The tasks awaited are done.
Joined(c) ==
    /\ cpc[c] = "joining"
    /\ \A r \in victims[c] : ~Live(r)

\* Then the agent is told, and the loop waits for its response.
SupplementJoined(m) ==
    /\ Joined(m)
    /\ cpc' = [cpc EXCEPT ![m] = "asking"]
    /\ UNCHANGED <<loopVars, streamVars, evolutionVars, victims>>

\* Whatever the response, the new input is queued as a chat.
SupplementAnswered(m) ==
    /\ cpc[m] = "asking"
    /\ cpc' = [cpc EXCEPT ![m] = "done"]
    /\ loop' = Nil
    /\ inbox' = Append(inbox, Send(m))
    /\ UNCHANGED <<fresh, streamVars, evolutionVars, victims>>

------------------------------------------------------------------------------
(* _cancel_agent_work_for_session, in the loop or beside it.                *)

\* What the session had of evolution is forgotten, its streams are noted, and
\* the agent is told to stop.
BeginCancel(c) ==
    LET s == SessionOf[c] IN
    /\ evolving' = evolving \ {s}
    /\ pending' = [pending EXCEPT ![s] = Nil]
    /\ aside' = [aside EXCEPT ![s] = Nil]
    /\ dropped' = dropped \cup ({aside[s]} \ {Nil})
    /\ fate' = [a \in Approvals |-> IF a = pending[s] THEN "dropped" ELSE fate[a]]
    /\ victims' = [victims EXCEPT ![c] = LiveOf(s)]
    /\ cpc' = [cpc EXCEPT ![c] = "asking"]
    /\ UNCHANGED streamVars

LoopCancels(c) ==
    /\ Takes(Cancel(c))
    /\ inbox' = Tail(inbox)
    /\ loop' = Cancel(c)
    /\ BeginCancel(c)
    /\ UNCHANGED fresh

\* A command that changes the session or mode of a channel creates a task for
\* it; the handler of a lost terminal runs it too.
CancelBeside(c) ==
    /\ c \in fresh
    /\ fresh' = fresh \ {c}
    /\ BeginCancel(c)
    /\ UNCHANGED <<inbox, loop>>

\* The agent has answered, or the request has failed: the streams noted are
\* cancelled and awaited.
CancelAnswered(c) ==
    /\ cpc[c] = "asking"
    /\ stream' = Interrupted({r \in victims[c] : Live(r)})
    /\ cpc' = [cpc EXCEPT ![c] = "joining"]
    /\ UNCHANGED <<loopVars, registered, evolutionVars, victims>>

CancelJoined(c) ==
    /\ Joined(c)
    /\ cpc' = [cpc EXCEPT ![c] = "done"]
    /\ loop' = IF loop = Cancel(c) THEN Nil ELSE loop
    /\ UNCHANGED <<fresh, inbox, streamVars, evolutionVars, victims>>

------------------------------------------------------------------------------
(* Streams.                                                                 *)

StreamRuns(r) ==
    /\ stream[r] = "created"
    /\ stream' = [stream EXCEPT ![r] = "running"]
    /\ UNCHANGED <<loopVars, registered, evolutionVars, cancelVars>>

\* A task that was cancelled before its first step ends without running any of
\* process_stream: its entries stay.
StreamStillborn(r) ==
    /\ stream[r] = "doomed"
    /\ stream' = [stream EXCEPT ![r] = "stillborn"]
    /\ UNCHANGED <<loopVars, registered, evolutionVars, cancelVars>>

Alone(r) == Listed(SessionOf[r]) \subseteq {r}

\* The finally block of process_stream.
CleanUp(r) ==
    /\ registered' = registered \ {r}
    /\ evolving' = IF Alone(r) THEN evolving \ {SessionOf[r]} ELSE evolving
    /\ UNCHANGED <<pending, aside, fate, dropped, loopVars, cancelVars>>

\* The agent ends the stream, or it fails.
StreamEnds(r) ==
    /\ stream[r] = "running"
    /\ stream' = [stream EXCEPT ![r] = "ended"]
    /\ CleanUp(r)

StreamStops(r) ==
    /\ stream[r] = "stopping"
    /\ stream' = [stream EXCEPT ![r] = "cancelled"]
    /\ CleanUp(r)

------------------------------------------------------------------------------
(* Evolution events of the agent, in a stream or pushed.                    *)

EvolutionStarts(s) ==
    /\ evolving' = evolving \cup {s}
    /\ UNCHANGED <<loopVars, streamVars, pending, aside, fate, dropped, cancelVars>>

\* Faulty: what was put aside is forgotten too.
EvolutionEndsForgetting(s) ==
    /\ evolving' = evolving \ {s}
    /\ aside' = [aside EXCEPT ![s] = Nil]
    /\ UNCHANGED <<loopVars, streamVars, pending, fate, dropped, cancelVars>>

EvolutionEnds(s) ==
    /\ evolving' = evolving \ {s}
    /\ UNCHANGED <<loopVars, streamVars, pending, aside, fate, dropped, cancelVars>>

\* Faulty: the approval that was pending is replaced silently.
ApprovalReplaced(a) ==
    /\ fate[a] = "unasked"
    /\ pending' = [pending EXCEPT ![SessionOf[a]] = a]
    /\ fate' = [fate EXCEPT ![a] = "open"]
    /\ UNCHANGED <<loopVars, streamVars, evolving, aside, dropped, cancelVars>>

\* The agent asks for an approval; one that was pending is accepted for the user.
ApprovalAsked(a) ==
    LET s == SessionOf[a] IN
    /\ fate[a] = "unasked"
    /\ inbox' = IF pending[s] = Nil THEN inbox ELSE Append(inbox, Answer(pending[s]))
    /\ pending' = [pending EXCEPT ![s] = a]
    /\ fate' = [fate EXCEPT ![a] = "open"]
    /\ UNCHANGED <<fresh, loop, streamVars, evolving, aside, dropped, cancelVars>>

------------------------------------------------------------------------------

LoopTakes ==
    \/ \E r \in Streams : StartStream(r)
    \/ \E a \in Approvals : ForwardAnswer(a)
    \/ \E m \in Supplements : PutAside(m) \/ BeginSupplement(m)
    \/ \E c \in Cancels : LoopCancels(c)

AnswerReturns(a) == AnswerResolved(a) \/ AnswerUnresolved(a)

CancelStep(c) ==
    IF c \in Supplements
    THEN SupplementJoined(c) \/ SupplementAnswered(c)
    ELSE CancelAnswered(c) \/ CancelJoined(c)

TaskStep(r) == StreamRuns(r) \/ StreamStillborn(r) \/ StreamStops(r)

Next ==
    \/ UserSends \/ UserAnswers
    \/ LoopTakes
    \/ \E a \in Approvals : AnswerReturns(a) \/ ApprovalAsked(a)
    \/ \E c \in Cancels : CancelBeside(c)
    \/ \E c \in Cancellers : CancelStep(c)
    \/ \E r \in Streams : TaskStep(r) \/ StreamEnds(r)
    \/ \E s \in Sessions : EvolutionStarts(s) \/ EvolutionEnds(s)

Spec == Init /\ [][Next]_vars

\* The event loop runs what is ready, and the agent client's requests end:
\* it answers them or times out.  An agent need not end its streams.
Fairness ==
    /\ WF_vars(LoopTakes)
    /\ \A a \in Approvals : WF_vars(AnswerReturns(a))
    /\ \A c \in Cancellers : WF_vars(CancelStep(c))
    /\ \A r \in Streams : WF_vars(TaskStep(r))

FairSpec == Spec /\ Fairness

------------------------------------------------------------------------------
(* Properties.                                                              *)

Queued(msg) == \E i \in DOMAIN inbox : inbox[i] = msg

\* No approval the agent asks for is forgotten: until an answer to it is
\* forwarded it is the session's current one or an answer is on its way,
\* unless the user has cancelled the session's work.
ApprovalsAccounted ==
    \A a \in Approvals :
        fate[a] = "open" => pending[SessionOf[a]] = a \/ Queued(Answer(a))

\* No supplement disappears: it is queued, being handled, put aside, queued as
\* a chat or started, unless a later supplement has replaced it or the user
\* has cancelled the session's work.
SupplementsAccounted ==
    \A m \in Supplements \ (fresh \cup dropped) :
        \/ Queued(Supplement(m)) \/ loop = Supplement(m)
        \/ aside[SessionOf[m]] = m
        \/ Queued(Send(m)) \/ stream[m] # "none"

\* No input is given to the agent twice, whether it was sent, put aside until an
\* approval or queued behind a cancelled stream.
GivenOnce ==
    [][\A r \in Streams : stream'[r] = "created" => stream[r] \in {"none", "created"}]_vars

\* When a cancellation has ended, no stream it found is live, not even one that
\* had not run yet.
CancelIsThorough ==
    \A c \in Cancellers :
        cpc[c] = "done" => \A r \in victims[c] : ~Live(r)

\* Every cancellation ends, though it waits for the agent and for streams that
\* other cancellations may be waiting for too.
CancelsEnd == \A c \in Cancellers : cpc[c] = "asking" ~> cpc[c] = "done"

\* Every chat is started, whatever the loop has to wait for in front of it.
ChatsStart == \A r \in Sends : r \notin fresh ~> stream[r] # "none"

\* Documented: input that was put aside is sent after evolution completes.  So
\* while it waits, something it waits for must be there.
AsideIsReleased ==
    \A s \in Sessions : aside[s] # Nil => s \in evolving \/ pending[s] # Nil

=============================================================================
