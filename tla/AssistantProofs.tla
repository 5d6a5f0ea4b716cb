-------------------------- MODULE AssistantProofs --------------------------
(***************************************************************************)
(* That a turn has the page to itself until all of its reply is shown, and *)
(* that the history pairs answers with questions, whatever models,         *)
(* questions and bounds there are.                                         *)
(***************************************************************************)
EXTENDS Assistant, TLAPS

IdleType == idle \in Seq(Callback)

\* The question of a turn that starts is in the history.
HasQuestion == turn.at = "starting" => history # <<>>

\* A turn that has not ended holds the page, and its end is not queued yet.
TurnIsBusy ==
    turn.at # "none" =>
        /\ busy
        /\ \A i \in 1 .. Len(idle) : idle[i].do # "finish"

\* What a turn has queued holds the page too.
QueuedIsBusy ==
    \A i \in 1 .. Len(idle) : idle[i].do \in {"token", "finish"} => busy

\* Behind the end of a turn only a probe's answer can be queued.
EndIsLast ==
    \A i, j \in 1 .. Len(idle) :
        i < j /\ idle[i].do = "finish" => idle[j].do = "onProbe"

QueueOrder ==
    /\ TurnIsBusy
    /\ QueuedIsBusy
    /\ EndIsLast

\* While a turn is under way the last message is its question, and neither the
\* goroutine nor the end it has queued is about another.
Asked ==
    /\ busy => history # <<>> /\ Last(history).role = "user"
    /\ turn.at = "streaming" => turn.about = Last(history).about
    /\ \A i \in 1 .. Len(idle) :
            idle[i].do = "finish" => idle[i].about = Last(history).about

Inv ==
    /\ TypeOK
    /\ HasQuestion
    /\ QueueOrder
    /\ Asked
    /\ AnswersFollowQuestions
    /\ ReplyIsWhole
    /\ BusyIsDeaf

\* What is queued stays in front of what is appended.
LEMMA Appended ==
    ASSUME IdleType, NEW c \in Callback, idle' = Append(idle, c)
    PROVE  /\ IdleType'
           /\ Len(idle') = Len(idle) + 1
           /\ \A i \in 1 .. Len(idle) : idle'[i] = idle[i]
           /\ idle'[Len(idle) + 1] = c
  BY DEF IdleType

\* A callback that has run leaves the rest of the queue, moved up by one.
LEMMA Served ==
    ASSUME IdleType, idle # <<>>, idle' = Tail(idle)
    PROVE  /\ IdleType'
           /\ Len(idle) \in Nat \ {0}
           /\ Len(idle') = Len(idle) - 1
           /\ Head(idle) = idle[1]
           /\ \A i \in 1 .. Len(idle') : idle'[i] = idle[i + 1]
  BY DEF IdleType

\* The three kinds of callback differ in what they do.
LEMMA Callbacks ==
    /\ \A f \in {"unreachable", "missing", "installed"} :
            [do |-> "onProbe", found |-> f] \in Callback
    /\ [do |-> "token"] \in Callback
    /\ \A f \in BOOLEAN, q \in Questions : Finished(f, q) \in Callback
    /\ \A f, q : Finished(f, q).do = "finish"
  BY DEF Callback, Finished

\* There is something to ask about when a turn starts.
LEMMA LastAsked ==
    ASSUME TypeOK, HasQuestion, turn.at = "starting"
    PROVE  Last(history).about \in Questions
  <1>1. history \in Seq(Message) /\ history # <<>>
    BY DEF TypeOK, HasQuestion
  <1>2. history[Len(history)] \in Message
    BY <1>1
  <1> QED BY <1>2 DEF Last, Message

\* Every variable keeps its type, and so does the question of a turn.
LEMMA TypeStep ==
    ASSUME TypeOK, HasQuestion, TurnIsBusy, [Next]_vars
    PROVE  TypeOK' /\ HasQuestion'
  <1> USE HistoryAssumption, TokensAssumption DEF TypeOK, HasQuestion, vars, ollama,
        config, setup, chat
  <1>1. CASE Update
    <2>1. sensitive' \in BOOLEAN /\ card' \in BOOLEAN
      BY <1>1 DEF Update
    <2>2. probing' \in BOOLEAN /\ probe' \in Models \union {NoModel}
      BY <1>1 DEF Update, StartProbe
    <2>3. UNCHANGED <<ollama, config, ready, lastProbe, chat, turn, idle>>
      BY <1>1 DEF Update
    <2> QED BY <2>1, <2>2, <2>3
  <1>2. CASE Recheck
    BY <1>2 DEF Recheck, StartProbe
  <1>3. ASSUME NEW q \in Questions, SendText(q) PROVE TypeOK' /\ HasQuestion'
    <2>1. [role |-> "user", about |-> q] \in Message
      BY DEF Message
    <2>2. /\ history' \in Seq(Message)
          /\ Len(history') = Len(history) + 1
          /\ history' # <<>>
      BY <1>3, <2>1 DEF SendText
    <2>3. busy' = TRUE /\ Len(history') <= MaxHistory + 1
      BY <1>3, <2>2 DEF SendText, SetBusy
    <2>4. /\ sensitive' = FALSE
          /\ answer' = "stream"
          /\ turn' = [at |-> "starting"]
          /\ UNCHANGED <<ollama, config, setup, probe, idle>>
      BY <1>3 DEF SendText
    <2> QED BY <2>2, <2>3, <2>4
  <1>4. CASE LeavePage \/ OpenPage \/ SetEnabled \/ (\E m \in Models : SetModel(m))
    <2>1. onPage' \in BOOLEAN /\ enabled' \in BOOLEAN /\ model' \in Models
      BY <1>4 DEF LeavePage, OpenPage, SetEnabled, SetModel
    <2>2. UNCHANGED <<ollama, setup, sensitive, chat, probe, turn, idle>>
      BY <1>4 DEF LeavePage, OpenPage, SetEnabled, SetModel
    <2> QED BY <2>1, <2>2
  <1>5. CASE AnswerProbe
    <2>1. PICK found \in {"unreachable", "missing", "installed"} :
              idle' = Append(idle, [do |-> "onProbe", found |-> found])
      BY <1>5 DEF AnswerProbe, Post
    <2>2. idle' \in Seq(Callback)
      BY <2>1, Callbacks
    <2> QED BY <1>5, <2>2 DEF AnswerProbe
  <1>6. CASE BeginChat
    <2>1. Last(history).about \in Questions
      BY <1>6, LastAsked DEF BeginChat
    <2>2. idle' \in Seq(Callback)
      <3>1. CASE UNCHANGED idle
        BY <3>1
      <3>2. CASE idle' = Append(idle, Finished(TRUE, Last(history).about))
        <4>1. Finished(TRUE, Last(history).about) \in Callback
          BY <2>1, Callbacks
        <4> HIDE DEF TypeOK, HasQuestion, vars, ollama, config, setup, chat
        <4>2. IdleType
          BY DEF IdleType, TypeOK
        <4> QED BY <3>2, <4>1, <4>2, Appended DEF IdleType
      <3> QED BY <1>6, <3>1, <3>2 DEF BeginChat, ReplyWithError, Post
    <2>3. turn' \in {NoTurn} \union [at: {"streaming"}, about: Questions, tokens: 0 .. MaxTokens]
      BY <1>6, <2>1 DEF BeginChat
    <2> QED BY <1>6, <2>2, <2>3 DEF BeginChat, NoTurn
  <1>7. CASE StreamToken
    <2>1. idle' \in Seq(Callback)
      BY <1>7, Callbacks DEF StreamToken, Post
    <2>2. turn \in [at: {"streaming"}, about: Questions, tokens: 0 .. MaxTokens]
      BY <1>7 DEF StreamToken, NoTurn
    <2>3. turn' \in [at: {"streaming"}, about: Questions, tokens: 0 .. MaxTokens]
      BY <1>7, <2>2 DEF StreamToken
    <2> QED BY <1>7, <2>1, <2>3 DEF StreamToken
  <1>8. CASE EndChat
    <2>1. turn.about \in Questions
      BY <1>8 DEF EndChat, NoTurn
    <2>2. idle' \in Seq(Callback)
      BY <1>8, <2>1, Callbacks DEF EndChat, PostLast
    <2> QED BY <1>8, <2>2 DEF EndChat, NoTurn
  <1>9. CASE OnProbe
    <2>1. idle' \in Seq(Callback)
      BY <1>9 DEF OnProbe
    <2> QED BY <1>9, <2>1 DEF OnProbe, MayUnlock, CardIsNeeded
  <1>10. CASE OnToken
    <2>1. idle' \in Seq(Callback)
      BY <1>10 DEF OnToken
    <2> QED BY <1>10, <2>1 DEF OnToken
  <1>11. CASE Finish
    <2>1. idle' \in Seq(Callback)
      BY <1>11 DEF Finish
    <2>2. Head(idle).about \in Questions
      BY <1>11 DEF Finish, Callback
    <2>3. Answered(Head(idle)) \in Seq(Message)
      <3>1. [role |-> "assistant", about |-> Head(idle).about] \in Message
        BY <2>2 DEF Message
      <3> QED BY <3>1 DEF Answered
    <2>4. history' \in Seq(Message) /\ Len(history') <= MaxHistory
      BY <1>11, <2>3 DEF Finish, Kept
    <2>5. turn.at # "starting"
      BY <1>11 DEF Finish, TurnIsBusy
    <2>6. answer' \in {"reply", "error"} /\ busy' = FALSE /\ sensitive' = TRUE
      BY <1>11 DEF Finish
    <2>7. UNCHANGED <<ollama, config, setup, probe, turn>>
      BY <1>11 DEF Finish
    <2>8. HasQuestion'
      BY <2>5, <2>7
    <2>9. history' \in Seq(Message) /\ Len(history') <= MaxHistory + (IF busy' THEN 1 ELSE 0)
      BY <2>4, <2>6
    <2>10. TypeOK'
      BY ONLY TypeOK, <2>1, <2>6, <2>7, <2>9, ZenonT(60) DEF TypeOK, ollama, config, setup
    <2> QED BY ONLY <2>8, <2>10
  <1>12. CASE ProbeAges
    BY <1>12 DEF ProbeAges
  <1>13. CASE OllamaChanges
    <2>1. up' \in BOOLEAN
      BY <1>13 DEF OllamaChanges
    <2>2. installed' \in SUBSET Models
      BY <1>13 DEF OllamaChanges
    <2> QED BY <1>13, <2>1, <2>2 DEF OllamaChanges
  <1>14. CASE UNCHANGED vars
    BY <1>14
  <1> QED
    BY <1>1, <1>2, <1>3, <1>4, <1>5, <1>6, <1>7, <1>8, <1>9, <1>10, <1>11, <1>12, <1>13,
       <1>14 DEF Next, User, Goroutine, IdleCallback

\* The end of a turn is queued behind all of its reply, and nothing of another
\* turn behind it.
LEMMA QueueStep ==
    ASSUME TypeOK, HasQuestion, QueueOrder, [Next]_vars
    PROVE  QueueOrder'
  <1> USE DEF QueueOrder, TurnIsBusy, QueuedIsBusy, EndIsLast
  <1> IdleType
    BY DEF TypeOK, IdleType
  <1>1. CASE UNCHANGED <<idle, turn, busy>>
    BY <1>1
  <1>2. ASSUME NEW q \in Questions, SendText(q) PROVE QueueOrder'
    <2>1. UNCHANGED idle /\ busy' /\ turn.at = "none" /\ ~busy
      BY <1>2 DEF SendText, SetBusy, TypeOK
    <2> QED BY <2>1
  <1>3. CASE AnswerProbe
    <2>1. PICK found \in {"unreachable", "missing", "installed"} :
              idle' = Append(idle, [do |-> "onProbe", found |-> found])
      BY <1>3 DEF AnswerProbe, Post
    <2>2. UNCHANGED <<turn, busy>>
      BY <1>3 DEF AnswerProbe, chat
    <2> QED BY <2>1, <2>2, Appended, Callbacks DEF IdleType
  <1>4. CASE BeginChat
    <2>1. busy /\ UNCHANGED busy
      BY <1>4 DEF BeginChat, chat
    <2>2. CASE turn'.at = "streaming" /\ UNCHANGED idle
      BY <1>4, <2>1, <2>2 DEF BeginChat
    <2>3. CASE /\ turn' = NoTurn
               /\ idle' = Append(idle, Finished(TRUE, Last(history).about))
      <3>1. Last(history).about \in Questions
        BY <1>4, LastAsked DEF BeginChat
      <3>2. \A i \in 1 .. Len(idle) : idle[i].do # "finish"
        BY <1>4 DEF BeginChat
      <3>3. turn'.at = "none"
        BY <2>3 DEF NoTurn
      <3> DEFINE end == Finished(TRUE, Last(history).about)
      <3>4. end \in Callback /\ end.do = "finish" /\ idle' = Append(idle, end)
        BY <2>3, <3>1, Callbacks
      <3> HIDE DEF end
      <3> QED BY <2>1, <3>2, <3>3, <3>4, Appended
    <2>4. CASE up /\ model \in installed
      <3>1. UNCHANGED idle /\ turn' = [at |-> "streaming", about |-> Last(history).about, tokens |-> 0]
        BY <1>4, <2>4 DEF BeginChat
      <3> QED BY <2>2, <3>1
    <2>5. CASE ~(up /\ model \in installed)
      BY <1>4, <2>3, <2>5 DEF BeginChat, ReplyWithError, Post
    <2> QED BY <2>4, <2>5
  <1>5. CASE StreamToken
    <2>1. /\ idle' = Append(idle, [do |-> "token"])
          /\ busy /\ UNCHANGED busy
          /\ turn'.at = turn.at
          /\ \A i \in 1 .. Len(idle) : idle[i].do # "finish"
      <3>1. turn' = [turn EXCEPT !.tokens = turn.tokens + 1] /\ turn.at = "streaming"
        BY <1>5 DEF StreamToken
      <3>2. turn \in [at: {"streaming"}, about: Questions, tokens: 0 .. MaxTokens]
        BY <3>1 DEF TypeOK, NoTurn
      <3> QED BY <1>5, <3>1, <3>2 DEF StreamToken, Post, chat
    <2> QED BY <2>1, Appended, Callbacks DEF IdleType
  <1>6. CASE EndChat
    <2>1. PICK failed \in BOOLEAN : idle' = Append(idle, Finished(failed, turn.about))
      BY <1>6 DEF EndChat, PostLast
    <2>2. turn.about \in Questions
      BY <1>6 DEF EndChat, TypeOK, NoTurn
    <2>3. /\ busy /\ UNCHANGED busy
          /\ turn' = NoTurn
          /\ \A i \in 1 .. Len(idle) : idle[i].do # "finish"
      BY <1>6 DEF EndChat, chat
    <2> QED BY <2>1, <2>2, <2>3, Appended, Callbacks DEF IdleType, NoTurn
  <1>7. CASE OnProbe \/ OnToken
    <2>1. idle # <<>> /\ idle' = Tail(idle) /\ UNCHANGED <<turn, busy>>
      BY <1>7 DEF OnProbe, OnToken, chat
    <2> QED BY <2>1, Served DEF IdleType
  <1>8. CASE Finish
    <2>1. idle # <<>> /\ idle' = Tail(idle) /\ UNCHANGED turn /\ Head(idle).do = "finish"
      BY <1>8 DEF Finish
    <2>2. turn.at = "none"
      BY <2>1, Served DEF IdleType
    <2>3. \A i \in 1 .. Len(idle') : idle'[i].do = "onProbe"
      BY <2>1, Served DEF IdleType
    <2> QED BY <2>1, <2>2, <2>3
  <1> QED
    BY <1>1, <1>2, <1>3, <1>4, <1>5, <1>6, <1>7, <1>8
    DEF Next, User, Goroutine, IdleCallback, Update, Recheck, LeavePage, OpenPage,
        SetEnabled, SetModel, ProbeAges, OllamaChanges, vars, chat

\* The page shows a reply from the first piece to the end of its turn, and
\* nobody can use it meanwhile.
LEMMA PageStep ==
    ASSUME TypeOK, QueueOrder, ReplyIsWhole, BusyIsDeaf, [Next]_vars
    PROVE  ReplyIsWhole' /\ BusyIsDeaf'
  <1> USE DEF TypeOK, ReplyIsWhole, BusyIsDeaf
  <1>1. CASE UNCHANGED <<busy, answer, sensitive>>
    BY <1>1
  <1>2. CASE OnToken
    <2>1. busy
      BY <1>2, Served DEF OnToken, QueueOrder, QueuedIsBusy, IdleType
    <2> QED BY <1>2, <2>1 DEF OnToken
  <1>3. CASE Update \/ OnProbe
    BY <1>3 DEF Update, OnProbe, MayUnlock, chat
  <1>4. ASSUME NEW q \in Questions, SendText(q) PROVE ReplyIsWhole' /\ BusyIsDeaf'
    BY <1>4 DEF SendText, SetBusy
  <1>5. CASE Finish
    BY <1>5 DEF Finish
  <1> QED
    BY <1>1, <1>2, <1>3, <1>4, <1>5
    DEF Next, User, Goroutine, IdleCallback, Recheck, LeavePage, OpenPage, SetEnabled,
        SetModel, ProbeAges, OllamaChanges, AnswerProbe, BeginChat, StreamToken, EndChat,
        vars, chat

\* Dropping the oldest messages leaves every answer, but perhaps the first
\* message, where it was: behind its question.
LEMMA KeptFollow ==
    ASSUME NEW messages \in Seq(Message),
           \A i \in 2 .. Len(messages) :
                messages[i].role = "assistant" =>
                    messages[i - 1] = [role |-> "user", about |-> messages[i].about]
    PROVE  \A i \in 2 .. Len(Kept(messages)) :
                Kept(messages)[i].role = "assistant" =>
                    Kept(messages)[i - 1] = [role |-> "user", about |-> Kept(messages)[i].about]
  <1>1. CASE Len(messages) <= MaxHistory
    BY <1>1, HistoryAssumption DEF Kept
  <1>2. CASE Len(messages) > MaxHistory
    <2> DEFINE d == Len(messages) - MaxHistory
    <2>1. Kept(messages) = SubSeq(messages, d + 1, Len(messages))
      BY <1>2, HistoryAssumption DEF Kept
    <2>2. /\ d \in Nat
          /\ Len(Kept(messages)) = MaxHistory
          /\ \A i \in 1 .. MaxHistory : /\ Kept(messages)[i] = messages[i + d]
                                       /\ i + d \in 1 .. Len(messages)
      <3>1. /\ d \in Nat /\ MaxHistory \in Nat
            /\ Len(messages) = d + MaxHistory
        BY <1>2, HistoryAssumption
      <3> HIDE DEF d
      <3>2. Len(SubSeq(messages, d + 1, d + MaxHistory)) = MaxHistory
        BY <3>1
      <3>3. \A i \in 1 .. MaxHistory :
                /\ SubSeq(messages, d + 1, d + MaxHistory)[i] = messages[i + d]
                /\ i + d \in 1 .. Len(messages)
        BY <3>1
      <3> QED BY <2>1, <3>1, <3>2, <3>3
    <2> HIDE DEF d
    <2>3. SUFFICES ASSUME NEW i \in 2 .. MaxHistory, messages[i + d].role = "assistant"
                   PROVE  messages[(i - 1) + d] =
                            [role |-> "user", about |-> messages[i + d].about]
      BY <2>2, HistoryAssumption
    <2>4. i + d \in 2 .. Len(messages) /\ (i - 1) + d = (i + d) - 1
      BY <2>2, HistoryAssumption
    <2> QED BY <2>3, <2>4
  <1> QED BY <1>1, <1>2, HistoryAssumption

\* What is remembered pairs every answer with its question.
LEMMA HistoryStep ==
    ASSUME TypeOK, HasQuestion, QueueOrder, Asked, AnswersFollowQuestions, [Next]_vars
    PROVE  Asked' /\ AnswersFollowQuestions'
  <1> IdleType
    BY DEF TypeOK, IdleType
  <1>1. CASE UNCHANGED <<idle, turn, busy, history>>
    BY <1>1 DEF Asked, AnswersFollowQuestions
  <1>2. ASSUME NEW q \in Questions, SendText(q) PROVE Asked' /\ AnswersFollowQuestions'
    <2> DEFINE asked == [role |-> "user", about |-> q]
    <2>1. /\ asked \in Message /\ asked.role = "user"
          /\ history \in Seq(Message)
          /\ history' = Append(history, asked)
      BY <1>2 DEF SendText, Message, TypeOK
    <2> HIDE DEF asked
    <2>2. /\ history' \in Seq(Message)
          /\ Len(history') = Len(history) + 1
          /\ history'[Len(history')] = asked
          /\ \A i \in 1 .. Len(history) : history'[i] = history[i]
      BY <2>1
    <2>3. history' # <<>> /\ Last(history').role = "user"
      BY <2>1, <2>2 DEF Last
    <2>4. \A i \in 1 .. Len(idle') : idle'[i].do # "finish"
      BY <1>2 DEF SendText, QueueOrder, QueuedIsBusy
    <2>5. turn'.at = "starting"
      BY <1>2 DEF SendText
    <2>6. AnswersFollowQuestions'
      BY <2>1, <2>2 DEF AnswersFollowQuestions
    <2> QED BY <2>3, <2>4, <2>5, <2>6 DEF Asked
  <1>3. CASE AnswerProbe \/ StreamToken
    <2>1. PICK c \in Callback : c.do # "finish" /\ idle' = Append(idle, c)
      <3>1. CASE AnswerProbe
        <4>1. PICK found \in {"unreachable", "missing", "installed"} :
                  idle' = Append(idle, [do |-> "onProbe", found |-> found])
          BY <3>1 DEF AnswerProbe, Post
        <4> QED BY <4>1, Callbacks
      <3>2. CASE StreamToken
        BY <3>2, Callbacks DEF StreamToken, Post
      <3> QED BY <1>3, <3>1, <3>2
    <2>2. UNCHANGED <<busy, history>>
      BY <1>3 DEF AnswerProbe, StreamToken, chat
    <2>3. turn'.at = turn.at /\ (turn.at = "streaming" => turn'.about = turn.about)
      <3>1. CASE AnswerProbe
        BY <3>1 DEF AnswerProbe
      <3>2. CASE StreamToken
        <4>1. turn' = [turn EXCEPT !.tokens = turn.tokens + 1] /\ turn.at = "streaming"
          BY <3>2 DEF StreamToken
        <4>2. turn \in [at: {"streaming"}, about: Questions, tokens: 0 .. MaxTokens]
          BY <4>1 DEF TypeOK, NoTurn
        <4> QED BY <4>1, <4>2
      <3> QED BY <1>3, <3>1, <3>2
    <2>4. AnswersFollowQuestions'
      BY <2>2 DEF AnswersFollowQuestions
    <2> QED BY <2>1, <2>2, <2>3, <2>4, Appended DEF Asked
  <1>4. CASE BeginChat \/ EndChat
    <2>1. UNCHANGED <<busy, history>>
      BY <1>4 DEF BeginChat, EndChat, chat
    <2>2. AnswersFollowQuestions'
      BY <2>1 DEF AnswersFollowQuestions
    <2>3. CASE /\ UNCHANGED idle
               /\ turn' = [at |-> "streaming", about |-> Last(history).about, tokens |-> 0]
      BY <2>1, <2>2, <2>3 DEF Asked
    <2>4. ASSUME NEW failed \in BOOLEAN,
                 turn' = NoTurn,
                 Last(history).about \in Questions,
                 idle' = Append(idle, Finished(failed, Last(history).about))
          PROVE  Asked' /\ AnswersFollowQuestions'
      <3> DEFINE end == Finished(failed, Last(history).about)
      <3>1. end \in Callback /\ end.about = Last(history).about
        BY <2>4, Callbacks DEF Finished
      <3>2. turn'.at = "none" /\ idle' = Append(idle, end)
        BY <2>4 DEF NoTurn
      <3> HIDE DEF end
      <3> QED BY <2>1, <2>2, <3>1, <3>2, Appended DEF Asked
    <2>5. CASE BeginChat
      <3>1. Last(history).about \in Questions
        BY <2>5, LastAsked DEF BeginChat
      <3>2. CASE up /\ model \in installed
        BY <2>3, <2>5, <3>2 DEF BeginChat
      <3>3. CASE ~(up /\ model \in installed)
        BY <2>4, <2>5, <3>1, <3>3 DEF BeginChat, ReplyWithError, Post
      <3> QED BY <3>2, <3>3
    <2>6. CASE EndChat
      <3>1. turn.about = Last(history).about /\ turn.about \in Questions
        BY <2>6 DEF EndChat, Asked, TypeOK, NoTurn
      <3> QED BY <2>4, <2>6, <3>1 DEF EndChat, PostLast
    <2> QED BY <1>4, <2>5, <2>6
  <1>5. CASE OnProbe \/ OnToken
    <2>1. idle # <<>> /\ idle' = Tail(idle) /\ UNCHANGED <<turn, busy, history>>
      BY <1>5 DEF OnProbe, OnToken, chat
    <2> QED BY <2>1, Served DEF Asked, AnswersFollowQuestions
  <1>6. CASE Finish
    <2>1. idle # <<>> /\ idle' = Tail(idle) /\ UNCHANGED turn /\ Head(idle).do = "finish"
      BY <1>6 DEF Finish
    <2>2. /\ busy
          /\ turn.at = "none"
          /\ Head(idle).about = Last(history).about
          /\ \A i \in 1 .. Len(idle') : idle'[i].do # "finish"
      BY <2>1, Served DEF QueueOrder, TurnIsBusy, QueuedIsBusy, EndIsLast, Asked
    <2>3. Asked'
      BY <1>6, <2>1, <2>2 DEF Finish, Asked
    <2> DEFINE messages == Answered(Head(idle))
               answered == [role |-> "assistant", about |-> Last(history).about]
    <2>4. /\ history \in Seq(Message) /\ history # <<>>
          /\ Last(history) = history[Len(history)]
          /\ Last(history).role = "user"
      BY <2>2 DEF Asked, TypeOK, Last
    <2>5. Last(history) \in Message
      BY <2>4
    <2>6. /\ answered \in Message
          /\ answered.role = "assistant"
          /\ Last(history) = [role |-> "user", about |-> answered.about]
      BY <2>4, <2>5 DEF Message
    <2>7. messages = history \/ messages = Append(history, answered)
      BY <2>2 DEF Answered
    <2> HIDE DEF messages, answered
    <2>8. /\ messages \in Seq(Message)
          /\ \A i \in 2 .. Len(messages) :
                messages[i].role = "assistant" =>
                    messages[i - 1] = [role |-> "user", about |-> messages[i].about]
      <3>1. CASE messages = history
        BY <2>4, <3>1 DEF AnswersFollowQuestions
      <3>2. CASE messages = Append(history, answered)
        <4>1. /\ messages \in Seq(Message)
              /\ Len(messages) = Len(history) + 1
              /\ messages[Len(history) + 1] = answered
              /\ \A i \in 1 .. Len(history) : messages[i] = history[i]
          BY <2>4, <2>6, <3>2
        <4> SUFFICES ASSUME NEW i \in 2 .. Len(messages), messages[i].role = "assistant"
                     PROVE  messages[i - 1] = [role |-> "user", about |-> messages[i].about]
          BY <4>1
        <4>2. Len(history) \in Nat
          BY <2>4
        <4>3. CASE i = Len(history) + 1
          <5>1. Len(history) \in 1 .. Len(history) /\ i - 1 = Len(history)
            BY <2>4, <4>2, <4>3
          <5>2. messages[i] = answered /\ messages[i - 1] = Last(history)
            BY <2>4, <4>1, <4>3, <5>1
          <5> QED BY <2>6, <5>2
        <4>4. CASE i \in 2 .. Len(history)
          <5>1. messages[i] = history[i] /\ messages[i - 1] = history[i - 1]
            BY <4>1, <4>2, <4>4
          <5> QED BY <4>4, <5>1 DEF AnswersFollowQuestions
        <4> QED BY <4>1, <4>2, <4>3, <4>4
      <3> QED BY <2>7, <3>1, <3>2
    <2>9. history' = Kept(messages)
      BY <1>6 DEF Finish, messages
    <2>10. AnswersFollowQuestions'
      BY <2>8, <2>9, KeptFollow DEF AnswersFollowQuestions
    <2> QED BY <2>3, <2>10
  <1> QED
    BY <1>1, <1>2, <1>3, <1>4, <1>5, <1>6
    DEF Next, User, Goroutine, IdleCallback, Update, Recheck, LeavePage, OpenPage,
        SetEnabled, SetModel, ProbeAges, OllamaChanges, vars, chat

\* The parts hold together at the start and through every step.
LEMMA Inductive == Spec => []Inv
  <1>1. Init => Inv
    <2> SUFFICES ASSUME Init PROVE Inv
      OBVIOUS
    <2>1. TypeOK
      <3>1. history \in Seq(Message) /\ Len(history) <= MaxHistory + (IF busy THEN 1 ELSE 0)
        BY HistoryAssumption DEF Init
      <3>2. idle \in Seq(Callback)
        BY DEF Init
      <3> QED BY <3>1, <3>2 DEF Init, TypeOK
    <2>2. HasQuestion /\ QueueOrder
      BY DEF Init, HasQuestion, QueueOrder, TurnIsBusy, QueuedIsBusy, EndIsLast, NoTurn
    <2>3. Asked /\ AnswersFollowQuestions
      BY DEF Init, Asked, AnswersFollowQuestions, NoTurn
    <2>4. ReplyIsWhole /\ BusyIsDeaf
      BY DEF Init, ReplyIsWhole, BusyIsDeaf
    <2> QED BY <2>1, <2>2, <2>3, <2>4 DEF Inv
  <1>2. Inv /\ [Next]_vars => Inv'
    BY TypeStep, QueueStep, HistoryStep, PageStep DEF Inv, QueueOrder
  <1> QED BY <1>1, <1>2, PTL DEF Spec

\* Every variable of the Assistant page keeps its type, and the history its
\* bound: MaxHistory messages, and the question of the turn under way.
THEOREM TypeCorrect == Spec => []TypeOK
  BY Inductive, PTL DEF Inv

\* However turns fail and the history is cut, an answer the model is shown again
\* stands right behind the question it answers (assistant.go:378-388): although the
\* goroutine reads the history after sendText has returned, nothing changes it
\* before the turn's own end has run.
THEOREM AnswersArePaired == Spec => []AnswersFollowQuestions
  BY Inductive, PTL DEF Inv

\* When a turn is over what the page shows is the whole reply, or the error: the
\* callbacks of onToken and finish (assistant.go:359-368) run in the order they
\* were queued, and a turn only begins after the last one's end has run.
THEOREM WholeReply == Spec => []ReplyIsWhole
  BY Inductive, PTL DEF Inv

\* While a turn is under way nothing can be asked, whatever the tick, a probe's
\* answer and the end of the turn decide (assistant.go:149-170, 288, 376-398).
THEOREM DeafWhileBusy == Spec => []BusyIsDeaf
  BY Inductive, PTL DEF Inv
=============================================================================
