-------------------------- MODULE AsyncLoad_proofs --------------------------
(***************************************************************************)
(* Proof that answers to asynchronous loads are bounded and consistent,    *)
(* for any set of requests and any number of cancellations.                *)
(***************************************************************************)
EXTENDS AsyncLoad, FiniteSetTheorems, SequenceTheorems, TLAPS

\* Requests whose load task has not started, or never will.
Unstarted(r) == task[r] = NoTask \/ phase[task[r]] \in {"waiting", "withdrawn"}

\* The load task is inside a request exactly while the executor runs its task.
InLoadTask(r) == loader.at # "idle" /\ loader.request = r

\* Each request submits one task of its own, between "loading" and "submitted".
OwnTask ==
    /\ \A r \in Request : task[r] # NoTask <=> call[r] \in {"submitted", "returned"}
    /\ \A r \in Request : task[r] # NoTask => phase[task[r]] # "unused"
    /\ \A r, s \in Request : task[r] = task[s] /\ task[r] # NoTask => r = s
    /\ \A r \in Request :
          InLoadTask(r) <=> task[r] # NoTask /\ phase[task[r]] = "running"

\* Only a request whose id was returned can be cancelled.
CancelsReturned ==
    /\ \A r \in Request : r \in cancelled <=> cancels[r] > 0
    /\ \A r \in cancelled : call[r] = "returned"
    /\ canceller.at # "idle" => canceller.request \in cancelled

\* What the load task knows of its request at each of its lines.
LoaderKnows ==
    LET r == loader.request IN
    /\ loader.at \in {"test", "loading"} => r \notin cached
    /\ loader.at \in {"storeResult", "storeStatus", "retest", "answer"} =>
          (loader.outcome = "Ok" <=> r \in cached)
    /\ loader.at # "idle" /\ loader.outcome = "Cancelled" => r \in cancelled
    /\ loader.at = "answer" => loader.outcome # "Cancelled"
    /\ loader.at \in {"retest", "answer"} /\ r \notin cancelled =>
          status[r] = FinalStatus(loader.outcome)

\* Before its load task starts a request has no result, and no answer but those
\* of CancelLoad.
UnstartedIsEmpty(r) ==
    Unstarted(r) =>
       /\ r \notin cached /\ result[r] = "null"
       /\ \A i \in Answers(r) :
             sentMain[i].result = "Cancelled" /\ sentMain[i].resource = "null"

\* An answer that is not Cancelled is the load task's, which has ended.
TrueAnswer(r, i) ==
    \/ sentMain[i].result = "Cancelled" /\ r \in cancelled
    \/ /\ task[r] # NoTask /\ phase[task[r]] = "done"
       /\ \/ sentMain[i].result = "Ok" /\ sentMain[i].resource = "resource" /\ r \in cached
          \/ sentMain[i].result = "Error" /\ sentMain[i].resource = "null" /\ r \notin cached
       /\ r \notin cancelled => status[r] = FinalStatus(sentMain[i].result)

TrueAnswers(r) == \A i \in Answers(r) : TrueAnswer(r, i)

\* Who may still answer r: its load task and the CancelLoad in progress.
LoadMayAnswer(r) == task[r] = NoTask \/ phase[task[r]] \in {"waiting", "running"}
CancelMayAnswer(r) == canceller.at # "idle" /\ canceller.request = r

Count(b) == IF b THEN 1 ELSE 0

\* Answers given and answers to come together stay within the bound.
AnswersLeft(r) ==
    Cardinality(Answers(r)) + Count(LoadMayAnswer(r)) + Count(CancelMayAnswer(r))
       <= 1 + cancels[r]

\* The load task gives at most one answer.
OneLoadAnswer(r) ==
    \A i, j \in Answers(r) :
       sentMain[i].result # "Cancelled" /\ sentMain[j].result # "Cancelled" => i = j

Rest == /\ OwnTask
        /\ CancelsReturned
        /\ LoaderKnows
        /\ \A r \in Request :
              UnstartedIsEmpty(r) /\ TrueAnswers(r) /\ OneLoadAnswer(r) /\ AnswersLeft(r)

IInv == TypeOK /\ Rest

-----------------------------------------------------------------------------

\* The executor numbers as many tasks as there are requests.
LEMMA TasksAreNumbers == MaxTasks \in Nat
BY RequestAssumption, FS_CardinalityType DEF MaxTasks

\* Every action keeps the variables in their types.
LEMMA TypePreserved == TypeOK /\ [Next]_vars => TypeOK'
<1> SUFFICES ASSUME TypeOK, [Next]_vars PROVE TypeOK'
  OBVIOUS
<1> USE TasksAreNumbers, RequestAssumption, MaxCancelsAssumption
    DEF TypeOK, NoTask, requestVars, ioVars, poolVars, At, Step,
        Io!TypeOK, Io!TaskId, Io!Phase, Pool!TypeOK, Pool!CallbackThreadType
<1>1. ASSUME NEW r \in Request, Caller(r) PROVE TypeOK'
  <2>1. CASE StoreRequest(r)
    BY <2>1 DEF StoreRequest, LoadStatus
  <2>2. CASE MarkLoading(r)
    BY <2>2 DEF MarkLoading, LoadStatus
  <2>3. CASE SubmitLoadTask(r)
    <3>1. PICK t \in 1 .. MaxTasks : Io!Accept(t, 0) /\ task' = [task EXCEPT ![r] = t]
      BY <2>3 DEF SubmitLoadTask
    <3>2. Io!TypeOK'
      BY <3>1 DEF Io!Accept
    <3>3. task' \in [Request -> 0 .. MaxTasks]
      BY <3>1
    <3> QED
      BY <2>3, <3>2, <3>3 DEF SubmitLoadTask
  <2>4. CASE ReturnId(r)
    BY <2>4 DEF ReturnId
  <2> QED
    BY <1>1, <2>1, <2>2, <2>3, <2>4 DEF Caller
<1>2. ASSUME NEW r \in Request, BeginCancel(r) PROVE TypeOK'
  <2>1. cancels' \in [Request -> 0 .. MaxCancels]
    BY SMTT(30), <1>2 DEF BeginCancel
  <2>2. canceller' \in [at : CancellerState, request : Request]
    BY <1>2 DEF BeginCancel, CancellerState
  <2> QED
    BY <1>2, <2>1, <2>2 DEF BeginCancel
<1>3. CASE Loader
  <2> USE DEF LoaderState, LoadResult
  <2>1. ASSUME NEW r \in Request, StartLoadTask(r) PROVE TypeOK'
    BY <2>1 DEF StartLoadTask, Io!Start
  <2>2. CASE TestCancelled \/ LoadSucceeds \/ LoadFails
    <3>1. /\ [loader EXCEPT !.at = "loading"] \in [at : LoaderState, request : Request, outcome : LoadResult]
          /\ \A o \in LoadResult : [loader EXCEPT !.at = "storeResult", !.outcome = o]
                \in [at : LoaderState, request : Request, outcome : LoadResult]
      OBVIOUS
    <3>2. loader' \in [at : LoaderState, request : Request, outcome : LoadResult]
      BY <2>2, <3>1 DEF TestCancelled, LoadSucceeds, LoadFails
    <3>3. cached' \subseteq Request
      BY <2>2 DEF TestCancelled, LoadSucceeds, LoadFails
    <3> QED
      BY <2>2, <3>2, <3>3 DEF TestCancelled, LoadSucceeds, LoadFails
  <2>3. CASE StoreResult
    BY <2>3 DEF StoreResult, Loaded, Resource
  <2>4. CASE StoreStatus
    BY <2>4 DEF StoreStatus, FinalStatus, LoadStatus
  <2>5. CASE LeaveAnswerToCancel
    BY <2>5 DEF LeaveAnswerToCancel, Io!Finish
  <2>6. CASE GoOnToAnswer
    BY <2>6 DEF GoOnToAnswer
  <2>7. CASE AnswerLoad
    <3> DEFINE a == [request |-> loader.request, resource |-> Loaded, result |-> loader.outcome]
    <3>1. a \in Answer
      BY DEF Answer, Loaded, Resource
    <3>2. Append(sentMain, a) \in Seq(Answer) /\ Append(main_thread_callbacks, a) \in Seq(Answer)
      BY <3>1, AppendProperties
    <3> QED
      BY <2>7, <3>2 DEF AnswerLoad, Io!Finish, Pool!SubmitToMain
  <2> QED
    BY <1>3, <2>1, <2>2, <2>3, <2>4, <2>5, <2>6, <2>7 DEF Loader
<1>4. CASE Canceller
  <2> USE DEF CancellerState
  <2>1. CASE CancelTask
    BY ZenonT(30), <2>1 DEF CancelTask, Io!Withdraw
  <2>2. CASE StoreCancelled
    BY <2>2 DEF StoreCancelled, LoadStatus
  <2>3. CASE AnswerCancel
    <3> DEFINE a == [request |-> canceller.request, resource |-> result[canceller.request],
                     result |-> "Cancelled"]
    <3>1. a \in Answer
      BY DEF Answer, LoadResult
    <3>2. Append(sentMain, a) \in Seq(Answer) /\ Append(main_thread_callbacks, a) \in Seq(Answer)
      BY <3>1, AppendProperties
    <3> QED
      BY <2>3, <3>2 DEF AnswerCancel, Pool!SubmitToMain
  <2> QED
    BY <1>4, <2>1, <2>2, <2>3 DEF Canceller
<1>5. CASE MainLoop
  <2>1. CASE Pool!TakeBatch
    BY <1>5, <2>1 DEF MainLoop, Pool!TakeBatch
  <2>2. CASE Pool!RunBatched
    <3>1. Head(batch) \in Answer /\ Tail(batch) \in Seq(Answer)
      BY <2>2, HeadTailProperties DEF Pool!RunBatched
    <3>2. Append(ranMain, Head(batch)) \in Seq(Answer)
      BY <3>1, AppendProperties
    <3> QED
      BY <1>5, <2>2, <3>1, <3>2 DEF MainLoop, Pool!RunBatched
  <2> QED
    BY <1>5, <2>1, <2>2 DEF MainLoop, Pool!MainLoop
<1>6. CASE UNCHANGED vars
  BY <1>6 DEF vars
<1> QED
  BY <1>1, <1>2, <1>3, <1>4, <1>5, <1>6 DEF Next

-----------------------------------------------------------------------------

\* A request has finitely many answers, at positions of sentMain.
LEMMA AnswersAreCounted ==
  ASSUME TypeOK, NEW r
  PROVE  /\ IsFiniteSet(Answers(r)) /\ Cardinality(Answers(r)) \in Nat
         /\ Answers(r) \subseteq 1 .. Len(sentMain)
<1>1. Answers(r) \subseteq 1 .. Len(sentMain) /\ Len(sentMain) \in Nat
  BY LenProperties DEF Answers, TypeOK, Pool!TypeOK
<1>2. IsFiniteSet(1 .. Len(sentMain))
  BY <1>1, FS_Interval
<1> QED
  BY <1>1, <1>2, FS_Subset, FS_CardinalityType

\* A step that submits nothing leaves the answers where they are.
LEMMA AnswersKept ==
  ASSUME UNCHANGED sentMain
  PROVE  \A r : Answers(r)' = Answers(r)
BY DEF Answers

\* What an answer that is submitted adds.
LEMMA AnswerAdded ==
  ASSUME TypeOK, NEW a \in Answer, sentMain' = Append(sentMain, a)
  PROVE  LET n == Len(sentMain) + 1 IN
         /\ sentMain'[n] = a
         /\ \A i \in 1 .. Len(sentMain) : sentMain'[i] = sentMain[i]
         /\ \A r : n \notin Answers(r)
         /\ \A r : Answers(r)' = IF a.request = r THEN Answers(r) \cup {n} ELSE Answers(r)
         /\ \A r : Cardinality(Answers(r)') = Cardinality(Answers(r)) + Count(a.request = r)
<1> DEFINE n == Len(sentMain) + 1
<1>1. sentMain \in Seq(Answer)
  BY DEF TypeOK, Pool!TypeOK
<1>2. /\ sentMain'[n] = a
      /\ \A i \in 1 .. Len(sentMain) : sentMain'[i] = sentMain[i]
      /\ DOMAIN sentMain' = 1 .. n /\ DOMAIN sentMain = 1 .. Len(sentMain)
      /\ Len(sentMain) \in Nat
  BY <1>1, AppendProperties, LenProperties
<1>3. \A r : n \notin Answers(r)
  BY <1>2 DEF Answers
<1>4. \A r : Answers(r)' = IF a.request = r THEN Answers(r) \cup {n} ELSE Answers(r)
  BY <1>2 DEF Answers
<1>5. ASSUME NEW r
      PROVE  Cardinality(Answers(r)') = Cardinality(Answers(r)) + Count(a.request = r)
  BY <1>3, <1>4, AnswersAreCounted, FS_AddElement DEF Count
<1> QED
  BY <1>2, <1>3, <1>4, <1>5

-----------------------------------------------------------------------------

\* What a step that submits no answer does to request s, as far as the answers
\* to it are concerned.
Quiet(s) ==
    /\ Unstarted(s)' => Unstarted(s) /\ (s \in cached' => s \in cached) /\ result'[s] = result[s]
    /\ s \in cancelled => s \in cancelled'
    /\ task[s] # NoTask /\ phase[task[s]] = "done" =>
          /\ task'[s] = task[s] /\ phase'[task[s]] = "done"
          /\ s \in cached' <=> s \in cached
          /\ s \notin cancelled' => status'[s] = status[s]
    /\ LoadMayAnswer(s)' => LoadMayAnswer(s)
    /\ cancels'[s] \in Nat
    /\ Count(CancelMayAnswer(s)') + cancels[s] <= Count(CancelMayAnswer(s)) + cancels'[s]

\* Such a step keeps what is known of the answers to s.
LEMMA QuietStep ==
  ASSUME TypeOK, Rest, sentMain' = sentMain, NEW s \in Request, Quiet(s)
  PROVE  UnstartedIsEmpty(s)' /\ TrueAnswers(s)' /\ OneLoadAnswer(s)' /\ AnswersLeft(s)'
<1>1. UnstartedIsEmpty(s) /\ TrueAnswers(s) /\ OneLoadAnswer(s) /\ AnswersLeft(s)
  BY DEF Rest
<1>2. Answers(s)' = Answers(s)
  BY AnswersKept
<1>3. UnstartedIsEmpty(s)'
  BY <1>1, <1>2 DEF UnstartedIsEmpty, Quiet
<1>4. ASSUME NEW i \in Answers(s) PROVE TrueAnswer(s, i)'
  <2>1. TrueAnswer(s, i)
    BY <1>1, <1>4 DEF TrueAnswers
  <2> QED
    BY <2>1 DEF TrueAnswer, FinalStatus, Quiet
<1>5. TrueAnswers(s)'
  BY <1>2, <1>4 DEF TrueAnswers
<1>6. OneLoadAnswer(s)'
  BY <1>1, <1>2 DEF OneLoadAnswer
<1>7. AnswersLeft(s)'
  <2>1. Cardinality(Answers(s)) \in Nat /\ cancels[s] \in Nat
    BY AnswersAreCounted, MaxCancelsAssumption DEF TypeOK
  <2> QED
    BY <1>1, <1>2, <2>1 DEF AnswersLeft, Quiet, Count
<1> QED
  BY <1>3, <1>5, <1>6, <1>7

\* Nothing has been requested, loaded or answered yet.
LEMMA RestHoldsInitially == Init => Rest
<1> SUFFICES ASSUME Init PROVE Rest
  OBVIOUS
<1>1. \A r : Answers(r) = {}
  BY DEF Init, Pool!InitQueues, Answers
<1>2. \A r : Cardinality(Answers(r)) = 0
  BY <1>1, FS_EmptySet
<1>3. OwnTask /\ CancelsReturned /\ LoaderKnows
  BY DEF Init, OwnTask, CancelsReturned, LoaderKnows, InLoadTask
<1>4. \A r \in Request : UnstartedIsEmpty(r) /\ TrueAnswers(r) /\ OneLoadAnswer(r)
  BY <1>1 DEF Init, UnstartedIsEmpty, TrueAnswers, OneLoadAnswer, Unstarted
<1>5. \A r \in Request : AnswersLeft(r)
  BY <1>2 DEF Init, AnswersLeft, CancelMayAnswer, LoadMayAnswer, Count, NoTask
<1> QED
  BY <1>3, <1>4, <1>5 DEF Rest

\* Every line of RequestLoadAsync, of the load task and of CancelLoad keeps the
\* invariant, whichever of the three comes next.
LEMMA RestPreserved == TypeOK /\ Rest /\ [Next]_vars => Rest'
<1> SUFFICES ASSUME TypeOK, Rest, [Next]_vars PROVE Rest'
  OBVIOUS
<1> USE TasksAreNumbers DEF requestVars, ioVars, poolVars, At, Step
<1>0. /\ call \in [Request -> {"none", "stored", "loading", "submitted", "returned"}]
      /\ status \in [Request -> LoadStatus] /\ result \in [Request -> Resource]
      /\ task \in [Request -> 0 .. MaxTasks] /\ phase \in [1 .. MaxTasks -> Io!Phase]
      /\ cancels \in [Request -> Nat]
      /\ cancelled \subseteq Request /\ cached \subseteq Request
      /\ loader \in [at : LoaderState, request : Request, outcome : LoadResult]
      /\ canceller \in [at : CancellerState, request : Request]
  BY MaxCancelsAssumption DEF TypeOK, Io!TypeOK, Io!TaskId
<1>1. /\ TypeOK /\ OwnTask /\ CancelsReturned /\ LoaderKnows
      /\ \A s \in Request :
            UnstartedIsEmpty(s) /\ TrueAnswers(s) /\ OneLoadAnswer(s) /\ AnswersLeft(s)
  BY DEF Rest
<1>2. \A r : Cardinality(Answers(r)) \in Nat
  BY AnswersAreCounted
<1>3. ASSUME NEW r \in Request, Caller(r) PROVE Rest'
  <2>1. CASE StoreRequest(r)
    <3>1. OwnTask'
      BY <1>0, <1>1, <2>1 DEF StoreRequest, OwnTask, InLoadTask, NoTask
    <3>2. CancelsReturned'
      BY <1>0, <1>1, <2>1 DEF StoreRequest, CancelsReturned, NoTask
    <3>3. LoaderKnows'
      BY ZenonT(30), <1>0, <1>1, <2>1 DEF StoreRequest, LoaderKnows, NoTask, OwnTask, InLoadTask
    <3>4. \A s \in Request : Quiet(s)
      BY <1>0, <1>1, <2>1 DEF StoreRequest, NoTask, Quiet, Unstarted, LoadMayAnswer, CancelMayAnswer, Count,
             OwnTask, InLoadTask, CancelsReturned, UnstartedIsEmpty
    <3>5. sentMain' = sentMain
      BY <2>1 DEF StoreRequest
    <3> QED
      BY <1>1, <3>1, <3>2, <3>3, <3>4, <3>5, QuietStep DEF Rest
  <2>2. CASE MarkLoading(r)
    <3>1. OwnTask'
      BY <1>0, <1>1, <2>2 DEF MarkLoading, OwnTask, InLoadTask, NoTask
    <3>2. CancelsReturned'
      BY <1>0, <1>1, <2>2 DEF MarkLoading, CancelsReturned, NoTask
    <3>3. LoaderKnows'
      BY ZenonT(30), <1>0, <1>1, <2>2 DEF MarkLoading, LoaderKnows, NoTask, OwnTask, InLoadTask
    <3>4. \A s \in Request : Quiet(s)
      <4>1. task[r] = NoTask
        BY <1>0, <1>1, <2>2 DEF MarkLoading, OwnTask
      <4> QED
        BY <1>0, <1>1, <2>2, <4>1
           DEF MarkLoading, NoTask, Quiet, Unstarted, LoadMayAnswer, CancelMayAnswer, Count
    <3>5. sentMain' = sentMain
      BY <2>2 DEF MarkLoading
    <3> QED
      BY <1>1, <3>1, <3>2, <3>3, <3>4, <3>5, QuietStep DEF Rest
  <2>3. CASE ReturnId(r)
    <3>1. OwnTask'
      BY <1>0, <1>1, <2>3 DEF ReturnId, OwnTask, InLoadTask, NoTask
    <3>2. CancelsReturned'
      BY <1>0, <1>1, <2>3 DEF ReturnId, CancelsReturned, NoTask
    <3>3. LoaderKnows'
      BY <1>0, <1>1, <2>3 DEF ReturnId, LoaderKnows, NoTask, OwnTask, InLoadTask
    <3>4. \A s \in Request : Quiet(s)
      BY <1>0, <1>1, <2>3 DEF ReturnId, NoTask, Quiet, Unstarted, LoadMayAnswer, CancelMayAnswer, Count,
             OwnTask, InLoadTask, CancelsReturned, UnstartedIsEmpty
    <3>5. sentMain' = sentMain
      BY <2>3 DEF ReturnId
    <3> QED
      BY <1>1, <3>1, <3>2, <3>3, <3>4, <3>5, QuietStep DEF Rest
  <2>4. CASE SubmitLoadTask(r)
    <3>1. PICK t \in 1 .. MaxTasks : Io!Accept(t, 0) /\ task' = [task EXCEPT ![r] = t]
      BY <2>4 DEF SubmitLoadTask, Io!TaskId
    <3> QED
      <4>1. OwnTask'
        <5>1. /\ task[r] = NoTask /\ phase[t] = "unused"
              /\ phase' = [phase EXCEPT ![t] = "waiting"]
              /\ call' = [call EXCEPT ![r] = "submitted"] /\ call[r] = "loading"
              /\ UNCHANGED loader
          BY <1>0, <1>1, <2>4, <3>1 DEF SubmitLoadTask, Io!Accept, OwnTask
        <5>2. ASSUME NEW s \in Request PROVE task[s] # t
          <6>1. task[s] # NoTask => phase[task[s]] # "unused"
            BY <1>1 DEF OwnTask
          <6> QED
            BY <5>1, <6>1 DEF NoTask
        <5>3. \A s \in Request \ {r} : task'[s] = task[s] /\ (task[s] # NoTask => phase'[task[s]] = phase[task[s]])
          BY <1>0, <3>1, <5>1, <5>2 DEF NoTask
        <5>4. task'[r] = t /\ phase'[t] = "waiting"
          BY <1>0, <3>1, <5>1
        <5> QED
          <6>1. \A s \in Request : task'[s] # NoTask <=> call'[s] \in {"submitted", "returned"}
            BY <1>0, <1>1, <5>1, <5>3, <5>4 DEF OwnTask, NoTask
          <6>2. \A s \in Request : task'[s] # NoTask => phase'[task'[s]] # "unused"
            BY <1>1, <5>3, <5>4 DEF OwnTask
          <6>3. \A s, u \in Request : task'[s] = task'[u] /\ task'[s] # NoTask => s = u
            BY <1>1, <5>2, <5>3, <5>4 DEF OwnTask
          <6>4. ASSUME NEW s \in Request
                PROVE  InLoadTask(s)' <=> task'[s] # NoTask /\ phase'[task'[s]] = "running"
            BY <1>1, <5>1, <5>3, <5>4 DEF OwnTask, InLoadTask
          <6> QED
            BY <6>1, <6>2, <6>3, <6>4 DEF OwnTask
      <4>2. CancelsReturned'
        BY <1>0, <1>1, <2>4, <3>1 DEF SubmitLoadTask, Io!Accept, CancelsReturned, NoTask
      <4>3. LoaderKnows'
        BY <1>0, <1>1, <2>4, <3>1 DEF SubmitLoadTask, Io!Accept, LoaderKnows, NoTask, OwnTask, InLoadTask
      <4>4. \A s \in Request : Quiet(s)
        BY <1>0, <1>1, <2>4, <3>1 DEF SubmitLoadTask, Io!Accept, NoTask, Quiet, Unstarted, LoadMayAnswer, CancelMayAnswer, Count,
               OwnTask, InLoadTask, CancelsReturned, UnstartedIsEmpty
      <4>5. sentMain' = sentMain
        BY <2>4, <3>1 DEF SubmitLoadTask, Io!Accept
      <4> QED
        BY <1>1, <4>1, <4>2, <4>3, <4>4, <4>5, QuietStep DEF Rest
  <2> QED
    BY <1>3, <2>1, <2>2, <2>3, <2>4 DEF Caller
<1>4. ASSUME NEW r \in Request, BeginCancel(r) PROVE Rest'
  <2>1. OwnTask'
    BY <1>0, <1>1, <1>4, MaxCancelsAssumption DEF BeginCancel, OwnTask, InLoadTask, NoTask
  <2>2. CancelsReturned'
    BY <1>0, <1>1, <1>4, MaxCancelsAssumption DEF BeginCancel, CancelsReturned, NoTask
  <2>3. LoaderKnows'
    BY <1>0, <1>1, <1>4, MaxCancelsAssumption DEF BeginCancel, LoaderKnows, NoTask, OwnTask, InLoadTask
  <2>4. \A s \in Request : Quiet(s)
    BY <1>0, <1>1, <1>4, MaxCancelsAssumption DEF BeginCancel, NoTask, Quiet, Unstarted, LoadMayAnswer, CancelMayAnswer, Count,
           OwnTask, InLoadTask, CancelsReturned, UnstartedIsEmpty
  <2>5. sentMain' = sentMain
    BY <1>4, MaxCancelsAssumption DEF BeginCancel
  <2> QED
    BY <1>1, <2>1, <2>2, <2>3, <2>4, <2>5, QuietStep DEF Rest
<1>5. CASE Loader
  <2>1. ASSUME NEW r \in Request, StartLoadTask(r) PROVE Rest'
    <3>0. /\ phase[task[r]] = "waiting" /\ phase' = [phase EXCEPT ![task[r]] = "running"]
          /\ task[r] \in 1 .. MaxTasks
          /\ \A t \in 1 .. MaxTasks : phase[t] # "running"
          /\ \A s \in Request \ {r} : task[s] # task[r]
          /\ loader' = [at |-> "test", request |-> r, outcome |-> "Error"]
          /\ UNCHANGED <<requestVars, canceller, cancels, sentMain>>
      BY <1>0, <1>1, <2>1
         DEF StartLoadTask, Io!Start, Io!Idle, Io!First, Io!Waiting, Io!TaskId, poolVars, OwnTask, InLoadTask, NoTask
    <3>1. OwnTask'
      BY <1>0, <1>1, <3>0 DEF requestVars, OwnTask, InLoadTask, NoTask
    <3>2. CancelsReturned'
      BY <1>0, <1>1, <3>0 DEF requestVars, CancelsReturned, NoTask
    <3>3. LoaderKnows'
      <4>1. r \notin cached
        BY <1>1, <3>0 DEF UnstartedIsEmpty, Unstarted
      <4> QED
        BY <3>0, <4>1 DEF requestVars, LoaderKnows
    <3>4. \A s \in Request : Quiet(s)
      BY <1>0, <1>1, <3>0 DEF requestVars, NoTask, Quiet, Unstarted, LoadMayAnswer, CancelMayAnswer, Count,
             OwnTask, InLoadTask, CancelsReturned, UnstartedIsEmpty
    <3>5. sentMain' = sentMain
      BY <3>0 DEF requestVars
    <3> QED
      BY <1>1, <3>1, <3>2, <3>3, <3>4, <3>5, QuietStep DEF Rest
  <2>2. CASE TestCancelled
    <3>1. OwnTask'
      BY <1>0, <1>1, <2>2 DEF TestCancelled, OwnTask, InLoadTask, NoTask
    <3>2. CancelsReturned'
      BY <1>0, <1>1, <2>2 DEF TestCancelled, CancelsReturned, NoTask
    <3>3. LoaderKnows'
      BY <1>0, <1>1, <2>2 DEF TestCancelled, LoaderKnows, NoTask, OwnTask, InLoadTask
    <3>4. \A s \in Request : Quiet(s)
      BY <1>0, <1>1, <2>2 DEF TestCancelled, NoTask, Quiet, Unstarted, LoadMayAnswer, CancelMayAnswer, Count,
             OwnTask, InLoadTask, CancelsReturned, UnstartedIsEmpty
    <3>5. sentMain' = sentMain
      BY <2>2 DEF TestCancelled
    <3> QED
      BY <1>1, <3>1, <3>2, <3>3, <3>4, <3>5, QuietStep DEF Rest
  <2>3. CASE LoadSucceeds
    <3>1. OwnTask'
      BY <1>0, <1>1, <2>3 DEF LoadSucceeds, OwnTask, InLoadTask, NoTask
    <3>2. CancelsReturned'
      BY <1>0, <1>1, <2>3 DEF LoadSucceeds, CancelsReturned, NoTask
    <3>3. LoaderKnows'
      BY <1>0, <1>1, <2>3 DEF LoadSucceeds, LoaderKnows, NoTask, OwnTask, InLoadTask
    <3>4. \A s \in Request : Quiet(s)
      BY <1>0, <1>1, <2>3 DEF LoadSucceeds, NoTask, Quiet, Unstarted, LoadMayAnswer, CancelMayAnswer, Count,
             OwnTask, InLoadTask, CancelsReturned, UnstartedIsEmpty
    <3>5. sentMain' = sentMain
      BY <2>3 DEF LoadSucceeds
    <3> QED
      BY <1>1, <3>1, <3>2, <3>3, <3>4, <3>5, QuietStep DEF Rest
  <2>4. CASE LoadFails
    <3>1. OwnTask'
      BY <1>0, <1>1, <2>4 DEF LoadFails, OwnTask, InLoadTask, NoTask
    <3>2. CancelsReturned'
      BY <1>0, <1>1, <2>4 DEF LoadFails, CancelsReturned, NoTask
    <3>3. LoaderKnows'
      BY <1>0, <1>1, <2>4 DEF LoadFails, LoaderKnows, NoTask, OwnTask, InLoadTask
    <3>4. \A s \in Request : Quiet(s)
      BY <1>0, <1>1, <2>4 DEF LoadFails, NoTask, Quiet, Unstarted, LoadMayAnswer, CancelMayAnswer, Count,
             OwnTask, InLoadTask, CancelsReturned, UnstartedIsEmpty
    <3>5. sentMain' = sentMain
      BY <2>4 DEF LoadFails
    <3> QED
      BY <1>1, <3>1, <3>2, <3>3, <3>4, <3>5, QuietStep DEF Rest
  <2>5. CASE StoreResult
    <3>1. OwnTask'
      BY <1>0, <1>1, <2>5 DEF StoreResult, Loaded, OwnTask, InLoadTask, NoTask
    <3>2. CancelsReturned'
      BY <1>0, <1>1, <2>5 DEF StoreResult, Loaded, CancelsReturned, NoTask
    <3>3. LoaderKnows'
      BY <1>0, <1>1, <2>5 DEF StoreResult, Loaded, LoaderKnows, NoTask, OwnTask, InLoadTask
    <3>4. \A s \in Request : Quiet(s)
      BY <1>0, <1>1, <2>5 DEF StoreResult, Loaded, NoTask, Quiet, Unstarted, LoadMayAnswer, CancelMayAnswer, Count,
             OwnTask, InLoadTask, CancelsReturned, UnstartedIsEmpty
    <3>5. sentMain' = sentMain
      BY <2>5 DEF StoreResult, Loaded
    <3> QED
      BY <1>1, <3>1, <3>2, <3>3, <3>4, <3>5, QuietStep DEF Rest
  <2>6. CASE StoreStatus
    <3>1. OwnTask'
      BY <1>0, <1>1, <2>6 DEF StoreStatus, OwnTask, InLoadTask, NoTask
    <3>2. CancelsReturned'
      BY <1>0, <1>1, <2>6 DEF StoreStatus, CancelsReturned, NoTask
    <3>3. LoaderKnows'
      BY <1>0, <1>1, <2>6 DEF StoreStatus, LoaderKnows, NoTask, OwnTask, InLoadTask
    <3>4. \A s \in Request : Quiet(s)
      BY <1>0, <1>1, <2>6 DEF StoreStatus, NoTask, Quiet, Unstarted, LoadMayAnswer, CancelMayAnswer, Count,
             OwnTask, InLoadTask, CancelsReturned, UnstartedIsEmpty
    <3>5. sentMain' = sentMain
      BY <2>6 DEF StoreStatus
    <3> QED
      BY <1>1, <3>1, <3>2, <3>3, <3>4, <3>5, QuietStep DEF Rest
  <2>7. CASE LeaveAnswerToCancel
    <3>1. OwnTask'
      BY <1>0, <1>1, <2>7 DEF LeaveAnswerToCancel, Io!Finish, OwnTask, InLoadTask, NoTask
    <3>2. CancelsReturned'
      BY <1>0, <1>1, <2>7 DEF LeaveAnswerToCancel, Io!Finish, CancelsReturned, NoTask
    <3>3. LoaderKnows'
      BY <1>0, <1>1, <2>7 DEF LeaveAnswerToCancel, Io!Finish, LoaderKnows, NoTask, OwnTask, InLoadTask
    <3>4. \A s \in Request : Quiet(s)
      BY <1>0, <1>1, <2>7 DEF LeaveAnswerToCancel, Io!Finish, NoTask, Quiet, Unstarted, LoadMayAnswer, CancelMayAnswer, Count,
             OwnTask, InLoadTask, CancelsReturned, UnstartedIsEmpty
    <3>5. sentMain' = sentMain
      BY <2>7 DEF LeaveAnswerToCancel, Io!Finish
    <3> QED
      BY <1>1, <3>1, <3>2, <3>3, <3>4, <3>5, QuietStep DEF Rest
  <2>8. CASE GoOnToAnswer
    <3>1. OwnTask'
      BY <1>0, <1>1, <2>8 DEF GoOnToAnswer, OwnTask, InLoadTask, NoTask
    <3>2. CancelsReturned'
      BY <1>0, <1>1, <2>8 DEF GoOnToAnswer, CancelsReturned, NoTask
    <3>3. LoaderKnows'
      BY <1>0, <1>1, <2>8 DEF GoOnToAnswer, LoaderKnows, NoTask, OwnTask, InLoadTask
    <3>4. \A s \in Request : Quiet(s)
      BY <1>0, <1>1, <2>8 DEF GoOnToAnswer, NoTask, Quiet, Unstarted, LoadMayAnswer, CancelMayAnswer, Count,
             OwnTask, InLoadTask, CancelsReturned, UnstartedIsEmpty
    <3>5. sentMain' = sentMain
      BY <2>8 DEF GoOnToAnswer
    <3> QED
      BY <1>1, <3>1, <3>2, <3>3, <3>4, <3>5, QuietStep DEF Rest
  <2>9. CASE AnswerLoad
    <3> DEFINE a == [request |-> loader.request, resource |-> Loaded, result |-> loader.outcome]
    <3>1. a \in Answer
      BY <1>0, <1>1 DEF Answer, Loaded, Resource
    <3>2. sentMain' = Append(sentMain, a)
      BY <2>9 DEF AnswerLoad, Pool!SubmitToMain
    <3>3. /\ UNCHANGED <<requestVars, canceller, cancels>>
          /\ loader' = [loader EXCEPT !.at = "idle"] /\ loader.at = "answer"
          /\ phase' = [phase EXCEPT ![task[loader.request]] = "done"]
          /\ loader.request \in Request
      BY <1>0, <1>1, <2>9 DEF AnswerLoad, Io!Finish
    <3>4. /\ task[loader.request] \in 1 .. MaxTasks /\ phase[task[loader.request]] = "running"
          /\ \A r \in Request \ {loader.request} : task[r] # task[loader.request]
      BY <1>0, <1>1, <3>3 DEF OwnTask, InLoadTask, NoTask
    <3>5. OwnTask' /\ CancelsReturned' /\ LoaderKnows'
      BY <1>0, <1>1, <3>3, <3>4 DEF CancelsReturned, LoaderKnows, OwnTask, InLoadTask, NoTask
    <3>6. \A s \in Request : (Unstarted(s)' => Unstarted(s)) /\ (Unstarted(s) => s # loader.request)
      BY <1>0, <1>1, <3>3, <3>4 DEF Unstarted, NoTask
    <3>7. /\ a.request = loader.request
          /\ a.result \in {"Ok", "Error"}
          /\ a.result = "Ok" => a.resource = "resource" /\ loader.request \in cached
          /\ a.result = "Error" => a.resource = "null" /\ loader.request \notin cached
          /\ loader.request \notin cancelled => status[loader.request] = FinalStatus(a.result)
      BY <1>0, <1>1, <3>3 DEF LoaderKnows, Loaded, LoadResult
    <3> HIDE DEF a
    <3>8. \A r \in Request : \A i \in Answers(r)' :
             \/ i \in Answers(r) /\ sentMain'[i] = sentMain[i]
             \/ i = Len(sentMain) + 1 /\ r = loader.request /\ sentMain'[i] = a
      BY <1>0, <1>1, <3>1, <3>2, <3>7, AnswerAdded, AnswersAreCounted
    <3>9. \A s \in Request : UnstartedIsEmpty(s)'
      BY <1>1, <3>3, <3>6, <3>8 DEF UnstartedIsEmpty
    <3>10. ASSUME NEW s \in Request PROVE TrueAnswers(s)'
      <4>1. ASSUME NEW i \in Answers(s), sentMain'[i] = sentMain[i] PROVE TrueAnswer(s, i)'
        <5>1. TrueAnswer(s, i)
          BY <1>1, <4>1 DEF TrueAnswers
        <5> QED
          BY <1>0, <1>1, <3>3, <3>4, <4>1, <5>1 DEF TrueAnswer, FinalStatus, OwnTask, NoTask
      <4>2. ASSUME NEW i, sentMain'[i] = a, s = loader.request PROVE TrueAnswer(s, i)'
        BY <1>0, <3>3, <3>4, <3>7, <4>2 DEF TrueAnswer, FinalStatus, NoTask
      <4> QED
        BY <3>8, <4>1, <4>2 DEF TrueAnswers
    <3>11. \A s \in Request : OneLoadAnswer(s)'
      <4>1. \A i \in Answers(loader.request) : sentMain[i].result = "Cancelled"
        BY <1>1, <3>3, <3>4 DEF TrueAnswers, TrueAnswer
      <4> QED
        BY <1>1, <3>3, <3>8, <4>1 DEF OneLoadAnswer
    <3>12. ASSUME NEW s \in Request PROVE AnswersLeft(s)'
      <4>1. Cardinality(Answers(s)') = Cardinality(Answers(s)) + Count(loader.request = s)
        BY <1>1, <3>1, <3>2, <3>7, AnswerAdded
      <4> QED
        BY SMTT(30), <1>0, <1>1, <1>2, <3>3, <3>4, <4>1 DEF AnswersLeft, LoadMayAnswer, CancelMayAnswer, Count, NoTask
    <3> QED
      BY <3>5, <3>9, <3>10, <3>11, <3>12 DEF Rest
  <2> QED
    BY <1>5, <2>1, <2>2, <2>3, <2>4, <2>5, <2>6, <2>7, <2>8, <2>9 DEF Loader
<1>6. CASE Canceller
  <2>1. CASE CancelTask
    <3>0. /\ task[canceller.request] \in 1 .. MaxTasks /\ canceller.request \in cancelled
          /\ \/ phase' = phase
             \/ /\ phase[task[canceller.request]] = "waiting"
                /\ phase' = [phase EXCEPT ![task[canceller.request]] = "withdrawn"]
          /\ UNCHANGED <<requestVars, loader, cancels, sentMain>>
          /\ canceller' = [canceller EXCEPT !.at = "storeStatus"] /\ canceller.at = "cancelTask"
      BY <1>0, <1>1, <2>1 DEF CancelTask, Io!Withdraw, CancelsReturned, OwnTask, NoTask
    <3>1. OwnTask'
      <4>1. ASSUME NEW s \in Request, task[s] # NoTask
            PROVE  /\ phase'[task[s]] = "unused" <=> phase[task[s]] = "unused"
                   /\ phase'[task[s]] = "running" <=> phase[task[s]] = "running"
        BY <1>0, <3>0, <4>1 DEF NoTask
      <4>2. UNCHANGED <<task, call, loader>>
        BY <3>0 DEF requestVars
      <4>3. \A s \in Request : InLoadTask(s)' = InLoadTask(s)
        BY <4>2 DEF InLoadTask
      <4> QED
        BY <1>1, <4>1, <4>2, <4>3 DEF OwnTask
    <3>2. CancelsReturned'
      BY <1>0, <1>1, <3>0 DEF requestVars, CancelsReturned, NoTask
    <3>3. LoaderKnows'
      BY <1>0, <1>1, <3>0 DEF requestVars, LoaderKnows, NoTask, OwnTask, InLoadTask
    <3>4. \A s \in Request : Quiet(s)
      BY <1>0, <1>1, <3>0 DEF requestVars, NoTask, Quiet, Unstarted, LoadMayAnswer, CancelMayAnswer, Count,
             OwnTask, InLoadTask, CancelsReturned, UnstartedIsEmpty
    <3>5. sentMain' = sentMain
      BY <3>0 DEF requestVars
    <3> QED
      BY <1>1, <3>1, <3>2, <3>3, <3>4, <3>5, QuietStep DEF Rest
  <2>2. CASE StoreCancelled
    <3>1. OwnTask'
      BY <1>0, <1>1, <2>2 DEF StoreCancelled, OwnTask, InLoadTask, NoTask
    <3>2. CancelsReturned'
      BY <1>0, <1>1, <2>2 DEF StoreCancelled, CancelsReturned, NoTask
    <3>3. LoaderKnows'
      BY <1>0, <1>1, <2>2 DEF StoreCancelled, LoaderKnows, CancelsReturned
    <3>4. \A s \in Request : Quiet(s)
      BY <1>0, <1>1, <2>2 DEF StoreCancelled, NoTask, Quiet, Unstarted, LoadMayAnswer, CancelMayAnswer, Count,
             OwnTask, InLoadTask, CancelsReturned, UnstartedIsEmpty
    <3>5. sentMain' = sentMain
      BY <2>2 DEF StoreCancelled
    <3> QED
      BY <1>1, <3>1, <3>2, <3>3, <3>4, <3>5, QuietStep DEF Rest
  <2>3. CASE AnswerCancel
    <3> DEFINE a == [request |-> canceller.request, resource |-> result[canceller.request],
                     result |-> "Cancelled"]
    <3>1. a \in Answer
      BY <1>0, <1>1 DEF Answer, LoadResult
    <3>2. sentMain' = Append(sentMain, a)
      BY <2>3 DEF AnswerCancel, Pool!SubmitToMain
    <3>3. /\ UNCHANGED <<requestVars, loader, cancels, ioVars>>
          /\ canceller' = [canceller EXCEPT !.at = "idle"] /\ canceller.at = "answer"
          /\ canceller.request \in cancelled
      BY <1>0, <1>1, <2>3 DEF AnswerCancel, CancelsReturned
    <3>4. OwnTask' /\ CancelsReturned' /\ LoaderKnows'
      BY <1>0, <1>1, <3>3 DEF OwnTask, InLoadTask, CancelsReturned, LoaderKnows, NoTask
    <3>5. \A s \in Request : Unstarted(s)' = Unstarted(s)
      BY <3>3 DEF Unstarted
    <3>6. a.request = canceller.request /\ a.result = "Cancelled" /\ a.resource = result[canceller.request]
      OBVIOUS
    <3> HIDE DEF a
    <3>7. \A r \in Request : \A i \in Answers(r)' :
             \/ i \in Answers(r) /\ sentMain'[i] = sentMain[i]
             \/ r = canceller.request /\ sentMain'[i] = a
      BY <1>0, <1>1, <3>1, <3>2, <3>6, AnswerAdded, AnswersAreCounted
    <3>8. \A s \in Request : UnstartedIsEmpty(s)'
      BY <1>1, <3>3, <3>5, <3>6, <3>7 DEF UnstartedIsEmpty
    <3>9. ASSUME NEW s \in Request PROVE TrueAnswers(s)'
      <4>1. ASSUME NEW i \in Answers(s), sentMain'[i] = sentMain[i] PROVE TrueAnswer(s, i)'
        <5>1. TrueAnswer(s, i)
          BY <1>1, <4>1 DEF TrueAnswers
        <5> QED
          BY <3>3, <4>1, <5>1 DEF TrueAnswer, FinalStatus
      <4>2. ASSUME NEW i, sentMain'[i] = a, s = canceller.request PROVE TrueAnswer(s, i)'
        BY <3>3, <3>6, <4>2 DEF TrueAnswer
      <4> QED
        BY <3>7, <4>1, <4>2 DEF TrueAnswers
    <3>10. \A s \in Request : OneLoadAnswer(s)'
      BY <1>1, <3>6, <3>7 DEF OneLoadAnswer
    <3>11. ASSUME NEW s \in Request PROVE AnswersLeft(s)'
      <4>1. Cardinality(Answers(s)') = Cardinality(Answers(s)) + Count(canceller.request = s)
        BY <1>1, <3>1, <3>2, <3>6, AnswerAdded
      <4> QED
        BY <1>0, <1>1, <1>2, <3>3, <4>1 DEF AnswersLeft, LoadMayAnswer, CancelMayAnswer, Count, NoTask
    <3> QED
      BY <3>4, <3>8, <3>9, <3>10, <3>11 DEF Rest
  <2> QED
    BY <1>6, <2>1, <2>2, <2>3 DEF Canceller
<1>7. ASSUME UNCHANGED <<requestVars, loader, canceller, cancels, ioVars, sentMain>>
      PROVE  Rest'
  <2>1. OwnTask'
    BY <1>0, <1>1, <1>7 DEF requestVars, OwnTask, InLoadTask, NoTask
  <2>2. CancelsReturned'
    BY <1>0, <1>1, <1>7 DEF requestVars, CancelsReturned, NoTask
  <2>3. LoaderKnows'
    BY <1>0, <1>1, <1>7 DEF requestVars, LoaderKnows, NoTask, OwnTask, InLoadTask
  <2>4. \A s \in Request : Quiet(s)
    BY <1>0, <1>1, <1>7 DEF requestVars, NoTask, Quiet, Unstarted, LoadMayAnswer, CancelMayAnswer, Count,
           OwnTask, InLoadTask, CancelsReturned, UnstartedIsEmpty
  <2>5. sentMain' = sentMain
    BY <1>7 DEF requestVars
  <2> QED
    BY <1>1, <2>1, <2>2, <2>3, <2>4, <2>5, QuietStep DEF Rest
<1>8. CASE MainLoop
  BY <1>7, <1>8 DEF MainLoop, Pool!MainLoop, Pool!TakeBatch, Pool!RunBatched
<1>9. CASE UNCHANGED vars
  BY <1>7, <1>9 DEF vars
<1> QED
  BY <1>3, <1>4, <1>5, <1>6, <1>8, <1>9 DEF Next

-----------------------------------------------------------------------------

\* The invariant holds in every reachable state.
THEOREM InductiveInvariant == Spec => []IInv
<1>1. Init => TypeOK
  BY TasksAreNumbers, RequestAssumption, MaxCancelsAssumption
     DEF Init, TypeOK, NoTask, LoadStatus, LoadResult, Resource, LoaderState, CancellerState,
         Io!Init, Io!TypeOK, Io!TaskId, Io!Phase, Pool!InitQueues, Pool!TypeOK,
         Pool!CallbackThreadType
<1> QED
  BY <1>1, RestHoldsInitially, TypePreserved, RestPreserved, PTL DEF Spec, IInv

\* A request is answered at most once by its load task and once by each
\* CancelLoad, an answer to a request nobody cancelled agrees with its status and
\* the cache, and a request withdrawn in time loads nothing.
THEOREM RequestsAlwaysSound == Spec => []RequestsSound
<1> SUFFICES ASSUME IInv PROVE RequestsSound
  BY InductiveInvariant, PTL
<1> USE DEF IInv, Rest
<1>1. \A r \in Request : Cardinality(Answers(r)) \in Nat /\ cancels[r] \in Nat
  BY AnswersAreCounted, MaxCancelsAssumption DEF TypeOK
<1>2. \A r \in Request : Cardinality(Answers(r)) <= 1 + cancels[r]
  BY <1>1 DEF AnswersLeft, Count
<1>3. ASSUME NEW r \in Request, NEW i \in DOMAIN sentMain, sentMain[i].request = r
      PROVE  i \in Answers(r)
  BY <1>3 DEF Answers
<1>4. UncancelledConsistent
  BY <1>3 DEF UncancelledConsistent, TrueAnswers, TrueAnswer, FinalStatus
<1>5. WithdrawnLoadsNothing
  BY <1>3 DEF WithdrawnLoadsNothing, UnstartedIsEmpty, Unstarted
<1> QED
  BY <1>2, <1>4, <1>5 DEF RequestsSound, AnswersBounded, OneLoadAnswer

=============================================================================
