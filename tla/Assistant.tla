---- MODULE Assistant ----
(***************************************************************************)
(* The Assistant page: src/internal/ui/assistant.go, over the Ollama       *)
(* client of src/internal/ai/ai.go.                                        *)
(*                                                                         *)
(* While the page is on screen a tick looks whether the server is there    *)
(* and has the model (a probe, one at a time, at most every probeInterval),*)
(* and either a setup card says what is missing or a question can be       *)
(* asked. A turn is a goroutine: it reads the history, streams the reply   *)
(* and ends. Both hand what they learn to the main thread through the idle *)
(* queue, which is first in, first out.                                    *)
(*                                                                         *)
(* A definition marked "mutant" is a mistake the next one might have held. *)
(*                                                                         *)
(* Left out: the snapshot of the machine a question is sent with, the      *)
(* figures of a turn, the saved prompts (each is a question) and the       *)
(* server's address, which is one setting with the model.                  *)
(***************************************************************************)

EXTENDS Naturals, SequencesExt

CONSTANTS
    Models,       \* models Ollama may have
    Questions,    \* what may be asked
    MaxHistory,   \* 8: the messages kept
    MaxTokens     \* bound: pieces a reply comes in

ASSUME HistoryAssumption == MaxHistory \in Nat \ {0}
ASSUME TokensAssumption == MaxTokens \in Nat \ {0}

VARIABLES
    \* Ollama.
    up,          \* it answers
    installed,   \* the models it has
    \* Settings.
    model,       \* as the client has it
    enabled,     \* AIEnabled
    onPage,      \* the page is on screen
    \* The page.
    ready,       \* ready
    probing,     \* probing
    lastProbe,   \* "never", "fresh" or, probeInterval later, "due"
    card,        \* the setup card is shown
    sensitive,   \* the entry, Send and the prompts can be used
    busy,        \* busy
    history,     \* history: of each message the role and what it is about
    answer,      \* what the answer shows: "hint", "stream", "reply", "error"
    \* Goroutines and the callbacks they have queued.
    probe,       \* the model asked for, or NoModel
    turn,        \* how far the turn has come
    idle

ollama == <<up, installed>>
config == <<model, enabled, onPage>>
setup == <<ready, probing, lastProbe, card>>
chat == <<busy, history, answer>>
vars == <<ollama, config, setup, sensitive, chat, probe, turn, idle>>

NoModel == "none"
NoTurn == [at |-> "none"]

Message == [role: {"user", "assistant"}, about: Questions]
Callback ==
    [do: {"onProbe"}, found: {"unreachable", "missing", "installed"}]
        \union [do: {"token"}]
        \union [do: {"finish"}, failed: BOOLEAN, about: Questions]

----------------------------------------------------------------------------
(* Probes.                                                                  *)

StartProbe ==
    /\ probing' = TRUE
    /\ probe' = model

ProbeOnce == ~busy /\ ~probing /\ lastProbe = "never"   \* mutant: never again
\* maybeProbe
ProbeIsDue == ~busy /\ ~probing /\ lastProbe # "fresh"

\* The goroutine asks for the models there are (modelInstalled among them).
Post(callback) == idle' = Append(idle, callback)

\* A server that does not answer in 4 seconds is one that is not up.
AnswerProbe ==
    /\ probe # NoModel
    /\ \E found \in {"unreachable", "missing", "installed"} :
          /\ (found = "unreachable") <=> ~up
          /\ (found = "installed") => probe \in installed
          /\ (found = "missing") => probe \notin installed
          /\ Post([do |-> "onProbe", found |-> found])
    /\ probe' = NoModel
    /\ UNCHANGED <<ollama, config, setup, sensitive, chat, turn>>

CardIsNeeded(found) == found # "installed"

MayUnlock(callback) == enabled /\ ~busy

OnProbe ==
    /\ idle # <<>> /\ Head(idle).do = "onProbe"
    /\ LET found == Head(idle).found
       IN  /\ ready' = (found = "installed")
           /\ card' = CardIsNeeded(found)
    /\ probing' = FALSE
    /\ lastProbe' = "fresh"
    /\ sensitive' = IF MayUnlock(Head(idle)) THEN ready' ELSE sensitive
    /\ idle' = Tail(idle)
    /\ UNCHANGED <<ollama, config, chat, probe, turn>>

----------------------------------------------------------------------------
(* The page.                                                                *)

\* Update, once a second.
Update ==
    /\ onPage
    /\ sensitive' = (enabled /\ ~busy /\ ready)
    /\ card' = (card /\ enabled)
    /\ IF enabled /\ ProbeIsDue
       THEN StartProbe
       ELSE UNCHANGED <<probing, probe>>
    /\ UNCHANGED <<ollama, config, ready, lastProbe, chat, turn, idle>>

\* The button on the setup card.
Recheck ==
    /\ onPage
    /\ card
    /\ ~probing
    /\ StartProbe
    /\ UNCHANGED <<ollama, config, ready, lastProbe, card, sensitive, chat, turn, idle>>

SetBusyLate == busy' = busy                             \* mutant: a turn does not count yet
SetBusy == busy' = TRUE

\* sendText, from the entry, the button or a saved prompt.
SendText(q) ==
    /\ onPage
    /\ sensitive
    /\ ~busy /\ enabled /\ ready
    /\ history' = Append(history, [role |-> "user", about |-> q])
    /\ answer' = "stream"
    /\ SetBusy
    /\ sensitive' = FALSE
    /\ turn' = [at |-> "starting"]
    /\ UNCHANGED <<ollama, config, setup, probe, idle>>

----------------------------------------------------------------------------
(* Turns.                                                                   *)

Finished(failed, q) == [do |-> "finish", failed |-> failed, about |-> q]

NoReply(q) == UNCHANGED idle                            \* mutant: an early return
ReplyWithError(q) == Post(Finished(TRUE, q))

\* The goroutine reads the history and asks the model now set: a server that is
\* down, or has no such model, ends the turn.
BeginChat ==
    /\ turn.at = "starting"
    /\ LET q == Last(history).about
       IN  IF up /\ model \in installed
           THEN /\ turn' = [at |-> "streaming", about |-> q, tokens |-> 0]
                /\ UNCHANGED idle
           ELSE /\ turn' = NoTurn
                /\ ReplyWithError(q)
    /\ UNCHANGED <<ollama, config, setup, sensitive, chat, probe>>

StreamToken ==
    /\ turn.at = "streaming"
    /\ turn.tokens < MaxTokens
    /\ turn' = [turn EXCEPT !.tokens = @ + 1]
    /\ Post([do |-> "token"])
    /\ UNCHANGED <<ollama, config, setup, sensitive, chat, probe>>

PostFirst(callback) == idle' = <<callback>> \o idle     \* mutant of PostLast: ahead of tokens
PostLast(callback) == idle' = Append(idle, callback)

\* Done, an error, the end of the connection, which counts as done, or the
\* timeout.
EndChat ==
    /\ turn.at = "streaming"
    /\ \E failed \in BOOLEAN : PostLast(Finished(failed, turn.about))
    /\ turn' = NoTurn
    /\ UNCHANGED <<ollama, config, setup, sensitive, chat, probe>>

OnToken ==
    /\ idle # <<>> /\ Head(idle).do = "token"
    /\ answer' = "stream"
    /\ idle' = Tail(idle)
    /\ UNCHANGED <<ollama, config, setup, sensitive, busy, history, probe, turn>>

\* The messages kept are the last ones.
Kept(messages) ==
    IF Len(messages) > MaxHistory
    THEN SubSeq(messages, Len(messages) - MaxHistory + 1, Len(messages))
    ELSE messages

Answered(callback) ==
    IF callback.failed THEN history
    ELSE Append(history, [role |-> "assistant", about |-> callback.about])

Finish ==
    /\ idle # <<>> /\ Head(idle).do = "finish"
    /\ answer' = IF Head(idle).failed THEN "error" ELSE "reply"
    /\ history' = Kept(Answered(Head(idle)))
    /\ busy' = FALSE
    /\ sensitive' = TRUE
    /\ idle' = Tail(idle)
    /\ UNCHANGED <<ollama, config, setup, probe, turn>>

----------------------------------------------------------------------------
(* Around it.                                                               *)

\* probeInterval passes.
ProbeAges ==
    /\ lastProbe = "fresh"
    /\ lastProbe' = "due"
    /\ UNCHANGED <<ollama, config, ready, probing, card, sensitive, chat, probe, turn, idle>>

\* Another page, Settings say, comes up.
LeavePage ==
    /\ onPage
    /\ onPage' = FALSE
    /\ UNCHANGED <<ollama, model, enabled, setup, sensitive, chat, probe, turn, idle>>

\* The page's entry in the sidebar is hidden while it is off.
OpenPage ==
    /\ ~onPage
    /\ enabled
    /\ onPage' = TRUE
    /\ UNCHANGED <<ollama, model, enabled, setup, sensitive, chat, probe, turn, idle>>

\* The switch in Settings.
SetEnabled ==
    /\ ~onPage
    /\ enabled' = ~enabled
    /\ UNCHANGED <<ollama, model, onPage, setup, sensitive, chat, probe, turn, idle>>

\* SetConfig. Settings saves what is typed when it is left, so this may come
\* after the page has been opened.
SetModel(m) ==
    /\ m # model
    /\ model' = m
    /\ UNCHANGED <<ollama, enabled, onPage, setup, sensitive, chat, probe, turn, idle>>

OllamaChanges ==
    /\ \/ up' = ~up /\ UNCHANGED installed
       \/ \E m \in Models :
            /\ installed' = IF m \in installed THEN installed \ {m} ELSE installed \union {m}
            /\ UNCHANGED up
    /\ UNCHANGED <<config, setup, sensitive, chat, probe, turn, idle>>

----------------------------------------------------------------------------

Init ==
    /\ up \in BOOLEAN
    /\ installed \in SUBSET Models
    /\ model \in Models
    /\ enabled = TRUE
    /\ onPage = TRUE
    /\ ready = TRUE
    /\ probing = FALSE
    /\ lastProbe = "never"
    /\ card = FALSE
    /\ sensitive = TRUE
    /\ busy = FALSE
    /\ history = <<>>
    /\ answer = "hint"
    /\ probe = NoModel
    /\ turn = NoTurn
    /\ idle = <<>>

User ==
    \/ Recheck
    \/ \E q \in Questions : SendText(q)
    \/ LeavePage
    \/ OpenPage
    \/ SetEnabled
    \/ \E m \in Models : SetModel(m)

Goroutine == AnswerProbe \/ BeginChat \/ StreamToken \/ EndChat

IdleCallback == OnProbe \/ OnToken \/ Finish

Next ==
    \/ User
    \/ Update
    \/ Goroutine
    \/ IdleCallback
    \/ ProbeAges
    \/ OllamaChanges

Spec == Init /\ [][Next]_vars

\* The tick is a timer and the idle queue is served whenever the main thread has
\* nothing else to do; a goroutine goes on, and its timeout ends it; time
\* passes. The user and the server owe nothing.
Fairness ==
    /\ WF_vars(Update)
    /\ WF_vars(IdleCallback)
    /\ WF_vars(AnswerProbe)
    /\ WF_vars(BeginChat)
    /\ WF_vars(EndChat)
    /\ WF_vars(ProbeAges)

FairSpec == Spec /\ Fairness

----------------------------------------------------------------------------
(* Properties.                                                              *)

TypeOK ==
    /\ up \in BOOLEAN
    /\ installed \in SUBSET Models
    /\ model \in Models
    /\ enabled \in BOOLEAN
    /\ onPage \in BOOLEAN
    /\ ready \in BOOLEAN
    /\ probing \in BOOLEAN
    /\ lastProbe \in {"never", "fresh", "due"}
    /\ card \in BOOLEAN
    /\ sensitive \in BOOLEAN
    /\ busy \in BOOLEAN
    /\ history \in Seq(Message) /\ Len(history) <= MaxHistory + (IF busy THEN 1 ELSE 0)
    /\ answer \in {"hint", "stream", "reply", "error"}
    /\ probe \in Models \union {NoModel}
    /\ turn \in {NoTurn, [at |-> "starting"]}
                  \union [at: {"streaming"}, about: Questions, tokens: 0 .. MaxTokens]
    /\ idle \in Seq(Callback)

\* However turns fail and the history is cut, an answer in it stands right after
\* the question it answers: the model is never shown an answer to something
\* else. (The first one kept may have lost its question to the cut.)
AnswersFollowQuestions ==
    \A i \in 2 .. Len(history) :
        history[i].role = "assistant" =>
            history[i - 1] = [role |-> "user", about |-> history[i].about]

\* When a turn is over the whole reply, or the error, is what the page shows:
\* no piece that was still queued takes its place.
ReplyIsWhole == ~busy => answer # "stream"

\* Nothing can be asked while a turn is under way, although the tick, a probe's
\* answer and the end of the turn each decide what can be used.
BusyIsDeaf == busy => ~sensitive

\* Every turn ends, and the entry can be used again.
TurnsEnd == busy ~> ~busy

\* "this panel clears itself once it's ready" (assistant.go:268), and stays
\* away as long as the server and the model do stay.
SetupClears ==
    <>[](onPage /\ enabled /\ up /\ installed = Models) => <>[](ready /\ ~card)
====
