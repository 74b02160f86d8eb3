----------------------------- MODULE SessionProofs -----------------------------
(***************************************************************************)
(* Whatever is refused, given up, killed or crashed: what the calls of     *)
(* lccctl mean to the processes that made them, for every set of processes *)
(* and commands.                                                           *)
(***************************************************************************)
EXTENDS Session, SequenceTheorems, TLAPS

(* The queue: a message is in it once, its caller has asked and not been   *)
(* answered, and the daemon is busy with its first.                        *)
Queue ==
  /\ \A i, j \in 1..Len(inbox) : inbox[i] = inbox[j] => i = j
  /\ \A i \in 1..Len(inbox) : answer[inbox[i]] \in {"waiting", "unheard", "IO"}
  /\ daemon \notin {"down", "idle"} => inbox # <<>>
  /\ daemon \in {"credentials", "starttime", "check", "perform"} => Served \in Writes

(* What has been carried out: only writes, only once, only what was asked  *)
(* for, and never what the daemon has still to do.                         *)
Carried ==
  /\ Performed \subseteq Writes
  /\ \A k \in Call : answer[k] = "unasked" => effect[k] = "none"
  /\ \A i \in 1..Len(inbox) : i > 1 \/ daemon # "reply" => effect[inbox[i]] = "none"

(* The answers on their way and the answers received agree with it.        *)
Truthful ==
  /\ daemon = "reply" /\ effect[Served] # "none" =>
       effect[Served] \in Outcome /\ reply = ReplyFor(effect[Served])
  /\ daemon = "reply" /\ effect[Served] = "none" /\ Served \in Writes =>
       reply \in {"Failed", "NotFound", "AccessDenied"}
  /\ \A k \in Writes : answer[k] = "OK" => effect[k] = "OK"

(* A part of a document is asked for after all before it succeeded.        *)
Stepwise ==
  \A j, k \in Call : j[1] = k[1] /\ j[2] < k[2] /\ answer[k] # "unasked" =>
    answer[j] = "OK"

(* What the daemon knows of the sender of a message on the system bus, one *)
(* stage after the other.                                                  *)
Authorized ==
  /\ \A k \in orphaned : k[1] \in gone
  /\ bus = "system" =>
       /\ daemon \in {"starttime", "check", "perform"} => Served \notin orphaned
       /\ daemon = "starttime" /\ Served[1] \in gone => Served \in lapsed
       /\ daemon = "check" =>
            subject # "nobody" /\ (subject = "stranger" => Served \in lapsed)
       /\ daemon = "perform" =>
            /\ granted[Served] # "nobody"
            /\ granted[Served] = "stranger" => Served \in lapsed

(* The queue keeps the order of sending.                                   *)
Ordered ==
  /\ \A k \in Call : turn[k] <= turns
  /\ \A k \in Writes : \A j \in older[k] : answer[j] # "unasked"
  /\ \A k \in Writes, j \in Writes : j \in older[k] =>
       \A i \in 1..Len(inbox) : inbox[i] = j =>
         \E l \in 1..Len(inbox) : l > i /\ inbox[l] = k

(* The newest success is in the machine, and in the cache of a running     *)
(* daemon.                                                                 *)
Recent ==
  /\ \A m \in Readback : /\ machine[m] # Nobody => effect[machine[m]] # "none"
                         /\ shown[m] # Nobody => effect[shown[m]] # "none"
  /\ \A k \in Call : effect[k] = "OK" /\ MethodOf(k) \in Readback =>
       /\ turn[k] <= Rank(machine[MethodOf(k)])
       /\ daemon # "down" => turn[k] <= Rank(shown[MethodOf(k)])

IInv ==
  /\ TypeOK /\ Queue /\ Carried /\ Truthful /\ Stepwise
  /\ Authorized
  /\ NoOvertaking /\ Ordered
  /\ Recent

--------------------------------------------------------------------------------
(* The calls, the names of errors and the queue.                           *)

LEMMA CallsAre ==
  ASSUME NEW k \in Call
  PROVE  k[1] \in Client /\ k[2] \in Nat /\ MethodOf(k) \in Method \cup {"get-state"}
<1>1. PICK c \in Client : k \in {c} \X (1..Len(Commands[c]))
  BY DEF Call
<1>2. k[1] = c /\ k[2] \in 1..Len(Commands[c])
  BY <1>1
<1>3. Commands[c] \in Seq(Method \cup {"get-state"})
  BY ClientAssumption
<1>4. Commands[c][k[2]] \in Method \cup {"get-state"} /\ Len(Commands[c]) \in Nat
  BY <1>2, <1>3
<1>. QED BY <1>2, <1>4 DEF MethodOf

LEMMA WritesAre ==
  ASSUME NEW k \in Call
  PROVE  /\ k \in Writes <=> MethodOf(k) # "get-state"
         /\ MethodOf(k) \in Readback => k \in Writes
BY ClientAssumption DEF Writes

(* A status survives its way over the bus, but for the one that has no     *)
(* name of its own.                                                        *)
LEMMA NamesAre ==
  /\ \A s \in Status : /\ ReplyFor(s) \in DOMAIN StatusNamed
                       /\ StatusNamed[ReplyFor(s)] =
                            IF s = "BUFFER_TOO_SMALL" THEN "IO" ELSE s
  /\ \A n \in DOMAIN StatusNamed : StatusNamed[n] \in Status
  /\ \A n \in {"Failed", "NotFound", "AccessDenied", "NoReply"} :
       n \in DOMAIN StatusNamed /\ StatusNamed[n] \in Failure
  /\ ErrorName["NOT_FOUND"] = "NotFound" /\ StatusNamed["NoReply"] = "IO"
BY DEF Status, Failure, ReplyFor, ErrorName, StatusNamed

LEMMA HeadIs ==
  ASSUME inbox \in Seq(Call), inbox # <<>>
  PROVE  /\ Served \in Call /\ Served = inbox[1] /\ 1 \in 1..Len(inbox)
         /\ Tail(inbox) \in Seq(Call)
         /\ Len(Tail(inbox)) = Len(inbox) - 1
         /\ \A i \in 1..Len(Tail(inbox)) : /\ Tail(inbox)[i] = inbox[i + 1]
                                           /\ i + 1 \in 1..Len(inbox)
BY DEF Served

LEMMA EntriesAreCalls ==
  ASSUME inbox \in Seq(Call), NEW i \in 1..Len(inbox)
  PROVE  inbox[i] \in Call
OBVIOUS

(* A call not asked yet is nowhere in the queue.                           *)
LEMMA UnaskedIsNotQueued ==
  ASSUME IInv, NEW k \in Call, answer[k] = "unasked"
  PROVE  \A i \in 1..Len(inbox) : inbox[i] # k
BY DEF IInv, Queue

LEMMA ForgetsIs ==
  ASSUME TypeOK, NEW S \in SUBSET Call, Forgets(S)
  PROVE  /\ granted' \in [Call -> {"nobody", "sender", "stranger"}]
         /\ orphaned' \subseteq orphaned /\ lapsed' \subseteq lapsed
BY DEF Forgets, TypeOK

LEMMA InitCase == Init => IInv
<1>. SUFFICES ASSUME Init PROVE IInv
  OBVIOUS
<1>1. TypeOK
  <2>1. "Return" \in DOMAIN StatusNamed
    BY DEF StatusNamed
  <2>2. answer \in [Call -> Answer] /\ effect \in [Call -> Outcome \cup {"none", "cut"}]
    BY DEF Init, Answer
  <2>3. turn \in [Call -> Nat] /\ turns \in Nat /\ older \in [Writes -> SUBSET Writes]
    BY DEF Init
  <2>4. inbox \in Seq(Call)
    BY DEF Init
  <2>5. shown \in [Readback -> Call \cup {Nobody}] /\ machine \in [Readback -> Call \cup {Nobody}]
    BY DEF Init
  <2>. QED BY <2>1, <2>2, <2>3, <2>4, <2>5 DEF Init, TypeOK
<1>2. Performed = {}
  BY DEF Performed, Init
<1>3. Queue /\ Carried /\ Truthful
  BY <1>2 DEF Init, Queue, Carried, Truthful, Writes
<1>4. Stepwise /\ Authorized
  BY <1>2 DEF Init, Stepwise, Authorized
<1>5. NoOvertaking /\ Ordered
  BY <1>2 DEF Init, NoOvertaking, Ordered
<1>6. Recent
  BY DEF Init, Recent
<1>. QED BY <1>1, <1>3, <1>4, <1>5, <1>6 DEF IInv

--------------------------------------------------------------------------------
(* The processes.                                                          *)

LEMMA SendCase ==
  ASSUME IInv, NEW k \in Call, Send(k)
  PROVE  IInv'
<1>. USE DEF IInv
<1>1. /\ answer[k] = "unasked"
      /\ \A j \in Call : j[1] = k[1] /\ j[2] < k[2] => answer[j] = "OK"
      /\ answer' = [answer EXCEPT ![k] = "waiting"]
      /\ inbox' = Append(inbox, k)
      /\ older' = [w \in Writes |-> IF w = k THEN {v \in Writes : Waiting(v)} ELSE older[w]]
      /\ UNCHANGED <<bus, gone, daemon, reply, subject, shown, machine, effect,
                     granted, parted, turn, turns>>
  BY DEF Send, Due, Queued
<1>2. /\ inbox' \in Seq(Call) /\ Len(inbox') = Len(inbox) + 1
      /\ Len(inbox) \in Nat
      /\ \A i \in 1..Len(inbox) : inbox'[i] = inbox[i]
      /\ inbox'[Len(inbox) + 1] = k
  BY <1>1 DEF TypeOK
<1>3. \A i \in 1..Len(inbox) : inbox[i] # k
  BY <1>1, UnaskedIsNotQueued
<1>4. inbox # <<>> => Served' = Served
  BY <1>2, HeadIs DEF TypeOK, Served
<1>5. Performed' = Performed /\ effect[k] = "none" /\ k \notin Performed
  BY <1>1 DEF Performed, Carried
<1>6. TypeOK'
  <2>1. answer' \in [Call -> Answer] /\ older' \in [Writes -> SUBSET Writes]
    BY <1>1 DEF TypeOK, Answer
  <2>. QED BY <1>1, <1>2, <2>1 DEF TypeOK, parted
<1>7. Queue'
  <2>1. \A i \in 1..Len(inbox') : i \in 1..Len(inbox) \/ i = Len(inbox) + 1
    BY <1>2
  <2>2. inbox' # <<>>
    BY <1>2
  <2>3. \A i \in 1..Len(inbox') : answer'[inbox'[i]] \in {"waiting", "unheard", "IO"}
    BY <1>1, <1>2, <2>1, EntriesAreCalls DEF Queue, TypeOK
  <2>4. \A i, j \in 1..Len(inbox') : inbox'[i] = inbox'[j] => i = j
    BY <1>2, <1>3, <2>1 DEF Queue
  <2>. QED BY <1>1, <1>4, <2>2, <2>3, <2>4 DEF Queue
<1>8. Carried'
  <2>1. \A j \in Call : answer'[j] = "unasked" => answer[j] = "unasked"
    BY <1>1 DEF TypeOK
  <2>2. \A i \in 1..Len(inbox') : i \in 1..Len(inbox) \/ i = Len(inbox) + 1
    BY <1>2
  <2>. QED BY <1>1, <1>2, <1>5, <2>1, <2>2 DEF Carried
<1>9. Truthful'
  <2>1. daemon = "reply" => Served' = Served
    BY <1>4 DEF Queue
  <2>2. \A j \in Call : answer'[j] = "OK" => answer[j] = "OK"
    BY <1>1 DEF TypeOK
  <2>. QED BY <1>1, <2>1, <2>2 DEF Truthful, Writes
<1>10. Stepwise'
  <2>. SUFFICES ASSUME NEW j \in Call, NEW l \in Call, j[1] = l[1], j[2] < l[2],
                       answer'[l] # "unasked"
                PROVE  answer'[j] = "OK"
    BY DEF Stepwise
  <2>1. answer[j] = "OK"
    BY <1>1 DEF TypeOK, Stepwise
  <2>. QED BY <1>1, <2>1 DEF TypeOK
<1>11. Authorized'
  BY <1>1, <1>4, <1>5 DEF Authorized, Queue, parted
<1>12. NoOvertaking'
  BY <1>1, <1>5, WritesAre DEF NoOvertaking, Carried
<1>13. Ordered'
  <2>1. \A w \in Writes : \A j \in older'[w] : answer'[j] # "unasked" /\ j # k
    <3>. SUFFICES ASSUME NEW w \in Writes, NEW j \in older'[w]
                  PROVE  answer'[j] # "unasked" /\ j # k
      OBVIOUS
    <3>1. j \in Call
      BY <1>6 DEF TypeOK, Writes
    <3>2. CASE w = k
      <4>1. Waiting(j)
        BY <1>1, <3>2
      <4>. QED BY <1>1, <1>3, <3>1, <4>1 DEF Waiting, Queue, TypeOK
    <3>3. CASE w # k
      BY <1>1, <3>1, <3>3 DEF Ordered, TypeOK
    <3>. QED BY <3>2, <3>3
  <2>2. ASSUME NEW w \in Writes, NEW j \in older'[w],
               NEW i \in 1..Len(inbox'), inbox'[i] = j
        PROVE  \E l \in 1..Len(inbox') : l > i /\ inbox'[l] = w
    <3>1. i \in 1..Len(inbox) /\ inbox[i] = j
      BY <1>2, <2>1, <2>2
    <3>2. CASE w = k
      BY <1>2, <3>1, <3>2
    <3>3. CASE w # k
      <4>1. j \in older[w] /\ j \in Writes
        BY <1>1, <1>6, <3>3 DEF TypeOK
      <4>2. PICK l \in 1..Len(inbox) : l > i /\ inbox[l] = w
        BY <3>1, <4>1 DEF Ordered
      <4>. QED BY <1>2, <4>2
    <3>. QED BY <3>2, <3>3
  <2>. QED BY <1>1, <2>1, <2>2 DEF Ordered
<1>14. Recent'
  BY <1>1 DEF Recent, Rank
<1>. QED BY <1>6, <1>7, <1>8, <1>9, <1>10, <1>11, <1>12, <1>13, <1>14

(* What a change of the answers alone must respect.                        *)
LEMMA AnswersCase ==
  ASSUME IInv,
         answer' \in [Call -> Answer],
         UNCHANGED <<bus, gone, inbox, daemon, reply, subject, shown, machine, effect,
                     granted, parted, order>>,
         NEW k \in Call, answer' = [answer EXCEPT ![k] = answer'[k]],
         answer[k] # "OK", answer'[k] \notin {"OK", "unasked"},
         answer[k] = "unasked" \/ answer'[k] = "IO",
         answer[k] = "unasked" =>
           \A j \in Call : j[1] = k[1] /\ j[2] < k[2] => answer[j] = "OK"
  PROVE  IInv'
<1>. USE DEF IInv
<1>1. /\ TypeOK' /\ Performed' = Performed /\ Served' = Served
      /\ \A j \in Call : /\ answer'[j] = "unasked" => answer[j] = "unasked"
                         /\ answer'[j] = "OK" <=> answer[j] = "OK"
  BY DEF TypeOK, Performed, Served, order, parted
<1>2. Queue'
  <2>1. \A i \in 1..Len(inbox) : answer'[inbox[i]] \in {"waiting", "unheard", "IO"}
    <3>. SUFFICES ASSUME NEW i \in 1..Len(inbox)
                  PROVE  answer'[inbox[i]] \in {"waiting", "unheard", "IO"}
      OBVIOUS
    <3>1. inbox[i] \in Call
      BY DEF TypeOK
    <3>. QED BY <3>1, UnaskedIsNotQueued DEF Queue, TypeOK
  <2>. QED BY <1>1, <2>1 DEF Queue
<1>3. Carried' /\ Truthful'
  BY <1>1 DEF Carried, Truthful, Writes
<1>4. Stepwise'
  <2>. SUFFICES ASSUME NEW j \in Call, NEW l \in Call, j[1] = l[1], j[2] < l[2],
                       answer'[l] # "unasked"
                PROVE  answer[j] = "OK"
    BY <1>1 DEF Stepwise
  <2>. QED BY DEF TypeOK, Stepwise
<1>5. Authorized' /\ NoOvertaking'
  BY <1>1 DEF Authorized, NoOvertaking, order, parted
<1>6. Ordered'
  <2>1. \A w \in Writes : \A j \in older[w] : answer'[j] # "unasked"
    BY <1>1 DEF Ordered, TypeOK, Writes
  <2>. QED BY <2>1 DEF Ordered, order, parted
<1>7. Recent'
  BY DEF Recent, Rank, order, parted
<1>. QED BY <1>1, <1>2, <1>3, <1>4, <1>5, <1>6, <1>7

LEMMA NotSentCase ==
  ASSUME IInv, NEW k \in Call, NotSent(k)
  PROVE  IInv'
<1>1. PICK s \in Failure : answer' = [answer EXCEPT ![k] = s]
  BY OutcomeAssumption DEF NotSent
<1>2. answer'[k] = s /\ answer' \in [Call -> Answer] /\ s \notin {"OK", "unasked"}
  BY <1>1 DEF IInv, TypeOK, Answer, Status, Failure
<1>. QED BY <1>1, <1>2, AnswersCase DEF NotSent, Due

LEMMA TimeoutCase ==
  ASSUME IInv, NEW k \in Call, Timeout(k)
  PROVE  IInv'
<1>1. answer' = [answer EXCEPT ![k] = "IO"] /\ answer[k] = "waiting"
  BY NamesAre DEF Timeout
<1>2. answer'[k] = "IO" /\ answer' \in [Call -> Answer]
  BY <1>1 DEF IInv, TypeOK, Answer, Status, Failure
<1>. QED BY <1>1, <1>2, AnswersCase DEF Timeout

LEMMA LeaveCase ==
  ASSUME IInv, NEW c \in Client, Leave(c)
  PROVE  IInv'
<1>. USE DEF IInv
<1>1. /\ gone' = gone \cup {c}
      /\ answer' = [k \in Call |-> IF k[1] = c /\ answer[k] = "waiting"
                                   THEN "unheard" ELSE answer[k]]
      /\ orphaned' = orphaned \cup
           {k \in Call : /\ k[1] = c /\ Waiting(k)
                         /\ bus = "system"
                         /\ daemon \in {"down", "idle", "credentials"} \/ k # Served}
      /\ lapsed' = lapsed \cup
           {k \in Call : k[1] = c /\ Waiting(k) /\ daemon = "starttime" /\ k = Served}
      /\ UNCHANGED <<bus, inbox, daemon, reply, subject, shown, machine, effect,
                     granted, order>>
  BY DEF Leave
<1>2. /\ TypeOK' /\ Performed' = Performed /\ Served' = Served
      /\ \A j \in Call : /\ answer'[j] = "unasked" <=> answer[j] = "unasked"
                         /\ answer'[j] = "OK" <=> answer[j] = "OK"
                         /\ answer[j] \in {"waiting", "unheard", "IO"} =>
                              answer'[j] \in {"waiting", "unheard", "IO"}
  <2>1. answer' \in [Call -> Answer]
    BY <1>1 DEF TypeOK, Answer
  <2>. QED BY <1>1, <2>1 DEF TypeOK, Performed, Served, order, parted
<1>3. Queue'
  BY <1>1, <1>2, EntriesAreCalls DEF Queue, TypeOK
<1>4. Carried' /\ Truthful' /\ Stepwise'
  BY <1>1, <1>2 DEF Carried, Truthful, Stepwise, Writes
<1>5. Authorized'
  <2>1. ASSUME bus = "system", daemon \in {"starttime", "check", "perform"},
               Served \notin orphaned
        PROVE  Served \notin orphaned'
    BY <1>1, <2>1
  <2>2. ASSUME daemon = "starttime", Served[1] \in gone'
        PROVE  Served[1] \in gone \/ Served \in lapsed'
    <3>1. Served \in Call /\ Waiting(Served)
      BY <2>2, HeadIs DEF Queue, TypeOK, Waiting
    <3>. QED BY <1>1, <2>2, <3>1
  <2>. QED BY <1>1, <1>2, <2>1, <2>2 DEF Authorized
<1>6. NoOvertaking' /\ Ordered'
  <2>1. UNCHANGED <<inbox, older, turn, turns>>
    BY <1>1 DEF order
  <2>. QED BY <1>2, <2>1 DEF NoOvertaking, Ordered, TypeOK, Writes
<1>7. Recent'
  BY <1>1 DEF Recent, Rank, order, parted
<1>. QED BY <1>2, <1>3, <1>4, <1>5, <1>6, <1>7

--------------------------------------------------------------------------------
(* The daemon before and after it carries a write out.                     *)

LEMMA TakeUpCase ==
  ASSUME IInv, TakeUp
  PROVE  IInv'
<1>. USE DEF IInv
<1>1. /\ daemon = "idle" /\ inbox # <<>>
      /\ UNCHANGED <<bus, answer, gone, inbox, subject, shown, machine, effect,
                     granted, parted, order>>
      /\ Served' = Served /\ Performed' = Performed
  BY DEF TakeUp, Served, Performed
<1>2. Served \in Call /\ effect[Served] = "none"
  BY <1>1, HeadIs DEF TypeOK, Carried
<1>3. \/ /\ Served \notin Writes /\ daemon' = "reply"
         /\ reply' \in DOMAIN StatusNamed
      \/ /\ Served \in Writes /\ daemon' = FirstStage /\ reply' = reply
  <2>1. CASE MethodOf(Served) = "get-state"
    <3>1. PICK s \in {"OK", "BUFFER_TOO_SMALL"} : Replies(ReplyFor(s))
      BY <2>1 DEF TakeUp
    <3>2. ReplyFor(s) \in DOMAIN StatusNamed
      BY NamesAre DEF Status, Failure
    <3>. QED BY <1>2, <2>1, <3>1, <3>2, WritesAre DEF Replies
  <2>2. CASE MethodOf(Served) # "get-state"
    BY <1>2, <2>2, WritesAre DEF TakeUp
  <2>. QED BY <2>1, <2>2
<1>4. TypeOK'
  BY <1>1, <1>3 DEF TypeOK, FirstStage, order, parted
<1>5. Queue' /\ Carried'
  BY <1>1, <1>3 DEF Queue, Carried, FirstStage
<1>6. Truthful'
  BY <1>1, <1>2, <1>3 DEF Truthful, FirstStage
<1>7. Stepwise' /\ Authorized'
  BY <1>1, <1>3 DEF Stepwise, Authorized, FirstStage, parted
<1>8. NoOvertaking' /\ Ordered' /\ Recent'
  BY <1>1, <1>3 DEF NoOvertaking, Ordered, Recent, Rank, order, parted, FirstStage
<1>. QED BY <1>4, <1>5, <1>6, <1>7, <1>8

LEMMA CredentialsCase ==
  ASSUME IInv, Credentials
  PROVE  IInv'
<1>. USE DEF IInv
<1>1. /\ daemon = "credentials" /\ inbox # <<>>
      /\ UNCHANGED <<bus, answer, gone, inbox, subject, shown, machine, effect,
                     granted, parted, order>>
      /\ Served' = Served /\ Performed' = Performed
  BY DEF Credentials, Served, Performed, Queue
<1>2. Served \in Writes /\ effect[Served] = "none"
  BY <1>1, HeadIs DEF TypeOK, Carried, Queue
<1>3. \/ /\ Served[1] \notin gone /\ daemon' = "starttime" /\ reply' = reply
      \/ daemon' = "reply" /\ reply' = "Failed"
  BY NamesAre DEF Credentials, Replies
<1>4. reply' \in DOMAIN StatusNamed
  BY <1>3, NamesAre DEF TypeOK
<1>5. TypeOK'
  BY <1>1, <1>3, <1>4 DEF TypeOK, order, parted
<1>6. Queue' /\ Carried' /\ Truthful'
  BY <1>1, <1>2, <1>3 DEF Queue, Carried, Truthful
<1>7. Stepwise' /\ Authorized'
  BY <1>1, <1>3 DEF Stepwise, Authorized, parted
<1>8. NoOvertaking' /\ Ordered' /\ Recent'
  BY <1>1, <1>3 DEF NoOvertaking, Ordered, Recent, Rank, order, parted
<1>. QED BY <1>5, <1>6, <1>7, <1>8

LEMMA StartTimeCase ==
  ASSUME IInv, StartTime
  PROVE  IInv'
<1>. USE DEF IInv
<1>1. /\ daemon = "starttime" /\ inbox # <<>>
      /\ UNCHANGED <<bus, answer, gone, inbox, shown, machine, effect,
                     granted, parted, order>>
      /\ Served' = Served /\ Performed' = Performed
  BY DEF StartTime, Served, Performed, Queue
<1>2. Served \in Writes /\ effect[Served] = "none"
  BY <1>1, HeadIs DEF TypeOK, Carried, Queue
<1>3. \/ /\ daemon' = "check" /\ reply' = reply
         /\ subject' \in {"sender", "stranger"}
         /\ subject' = "stranger" => Served[1] \in gone
      \/ /\ daemon' = "reply" /\ reply' \in {"Failed", "NotFound", "AccessDenied"}
         /\ subject' = subject
  BY NamesAre DEF StartTime, Replies
<1>4. reply' \in DOMAIN StatusNamed
  BY <1>3, NamesAre DEF TypeOK
<1>5. TypeOK'
  BY <1>1, <1>3, <1>4 DEF TypeOK, order, parted
<1>6. Queue' /\ Carried' /\ Truthful'
  BY <1>1, <1>2, <1>3 DEF Queue, Carried, Truthful
<1>7. Stepwise'
  BY <1>1 DEF Stepwise
<1>8. Authorized'
  BY <1>1, <1>3 DEF Authorized, parted
<1>9. NoOvertaking' /\ Ordered' /\ Recent'
  BY <1>1, <1>3 DEF NoOvertaking, Ordered, Recent, Rank, order, parted
<1>. QED BY <1>5, <1>6, <1>7, <1>8, <1>9

LEMMA CheckCase ==
  ASSUME IInv, Check
  PROVE  IInv'
<1>. USE DEF IInv
<1>1. /\ daemon = "check" /\ inbox # <<>>
      /\ subject' = "nobody"
      /\ UNCHANGED <<bus, answer, gone, inbox, shown, machine, effect, parted, order>>
      /\ Served' = Served /\ Performed' = Performed
  BY DEF Check, Served, Performed, Queue
<1>2. Served \in Writes /\ Served \in Call /\ effect[Served] = "none"
  BY <1>1, HeadIs DEF TypeOK, Carried, Queue
<1>3. \/ /\ daemon' = "perform" /\ reply' = reply
         /\ granted' = [granted EXCEPT ![Served] = subject]
      \/ daemon' = "reply" /\ granted' = granted /\ reply' \in {"Failed", "AccessDenied"}
  BY DEF Check, Replies
<1>4. reply' \in DOMAIN StatusNamed
  BY <1>3, NamesAre DEF TypeOK
<1>5. TypeOK'
  BY <1>1, <1>2, <1>3, <1>4 DEF TypeOK, order, parted
<1>6. Queue' /\ Carried' /\ Truthful'
  BY <1>1, <1>2, <1>3 DEF Queue, Carried, Truthful
<1>7. Stepwise'
  BY <1>1 DEF Stepwise
<1>8. Authorized'
  <2>1. daemon' = "perform" => granted'[Served] = subject
    BY <1>2, <1>3 DEF TypeOK
  <2>. QED BY <1>1, <1>3, <2>1 DEF Authorized, parted
<1>9. NoOvertaking' /\ Ordered' /\ Recent'
  BY <1>1, <1>3 DEF NoOvertaking, Ordered, Recent, Rank, order, parted
<1>. QED BY <1>5, <1>6, <1>7, <1>8, <1>9

LEMMA ReplyCase ==
  ASSUME IInv, Reply
  PROVE  IInv'
<1>. USE DEF IInv
<1>1. /\ daemon = "reply" /\ daemon' = "idle" /\ inbox # <<>>
      /\ inbox' = Tail(inbox)
      /\ answer' = IF answer[Served] = "waiting"
                   THEN [answer EXCEPT ![Served] = StatusNamed[reply]] ELSE answer
      /\ reply' = "Return"
      /\ Forgets({Served})
      /\ UNCHANGED <<bus, gone, subject, shown, machine, effect, order>>
      /\ Performed' = Performed
  BY DEF Reply, Queue, Performed
<1>2. /\ inbox' \in Seq(Call) /\ Len(inbox') = Len(inbox) - 1 /\ Len(inbox) \in Nat
      /\ \A i \in 1..Len(inbox') : /\ inbox'[i] = inbox[i + 1]
                                   /\ i + 1 \in 1..Len(inbox)
      /\ Served \in Call /\ Served = inbox[1] /\ 1 \in 1..Len(inbox)
  BY <1>1, HeadIs DEF TypeOK
<1>3. StatusNamed[reply] \in Status
  BY NamesAre DEF TypeOK
<1>4. \A i \in 1..Len(inbox') : inbox'[i] # Served
  BY <1>2 DEF Queue
<1>5. \A k \in Call : k # Served => answer'[k] = answer[k]
  BY <1>1 DEF TypeOK
<1>6. \A k \in Call : answer'[k] = "unasked" <=> answer[k] = "unasked"
  <2>1. StatusNamed[reply] # "unasked"
    BY <1>3 DEF Status, Failure
  <2>. QED BY <1>1, <1>5, <2>1 DEF TypeOK
<1>7. TypeOK'
  <2>1. answer' \in [Call -> Answer]
    BY <1>1, <1>2, <1>3 DEF TypeOK, Answer
  <2>2. "Return" \in DOMAIN StatusNamed
    BY DEF StatusNamed
  <2>. QED BY <1>1, <1>2, <2>1, <2>2, ForgetsIs DEF TypeOK, order
<1>8. Queue'
  <2>1. \A i \in 1..Len(inbox') : answer'[inbox'[i]] \in {"waiting", "unheard", "IO"}
    <3>. SUFFICES ASSUME NEW i \in 1..Len(inbox')
                  PROVE  answer'[inbox'[i]] \in {"waiting", "unheard", "IO"}
      OBVIOUS
    <3>1. inbox'[i] \in Call /\ inbox'[i] = inbox[i + 1] /\ i + 1 \in 1..Len(inbox)
      BY <1>2
    <3>. QED BY <1>4, <1>5, <3>1 DEF Queue
  <2>2. \A i, j \in 1..Len(inbox') : inbox'[i] = inbox'[j] => i = j
    <3>. SUFFICES ASSUME NEW i \in 1..Len(inbox'), NEW j \in 1..Len(inbox'),
                         inbox'[i] = inbox'[j]
                  PROVE  i = j
      OBVIOUS
    <3>1. i + 1 = j + 1
      BY <1>2 DEF Queue
    <3>. QED BY <1>2, <3>1
  <2>. QED BY <1>1, <2>1, <2>2 DEF Queue
<1>9. Carried'
  <2>1. \A i \in 1..Len(inbox') : effect[inbox'[i]] = "none"
    <3>. SUFFICES ASSUME NEW i \in 1..Len(inbox')
                  PROVE  effect[inbox'[i]] = "none"
      OBVIOUS
    <3>1. inbox'[i] = inbox[i + 1] /\ i + 1 \in 1..Len(inbox) /\ i + 1 > 1
      BY <1>2
    <3>. QED BY <3>1 DEF Carried
  <2>. QED BY <1>1, <1>6, <2>1 DEF Carried
<1>10. Truthful'
  <2>1. ASSUME Served \in Writes, StatusNamed[reply] = "OK"
        PROVE  effect[Served] = "OK"
    <3>1. CASE effect[Served] = "none"
      <4>1. StatusNamed[reply] \in Failure
        BY <1>1, <2>1, <3>1, NamesAre DEF Truthful
      <4>. QED BY <2>1, <4>1 DEF Failure
    <3>2. CASE effect[Served] # "none"
      <4>1. effect[Served] \in Status /\ reply = ReplyFor(effect[Served])
        BY <1>1, <3>2, OutcomeAssumption DEF Truthful
      <4>. QED BY <2>1, <4>1, NamesAre
    <3>. QED BY <3>1, <3>2
  <2>2. \A k \in Writes : answer'[k] = "OK" => effect[k] = "OK"
    <3>. SUFFICES ASSUME NEW k \in Writes, answer'[k] = "OK" PROVE effect[k] = "OK"
      OBVIOUS
    <3>1. k \in Call
      BY DEF Writes
    <3>2. CASE answer[k] = "OK"
      BY <3>2 DEF Truthful
    <3>3. CASE answer[k] # "OK"
      <4>1. k = Served /\ StatusNamed[reply] = "OK"
        BY <1>1, <1>5, <3>1, <3>3 DEF TypeOK
      <4>. QED BY <2>1, <4>1
    <3>. QED BY <3>2, <3>3
  <2>. QED BY <1>1, <2>2 DEF Truthful
<1>11. Stepwise'
  <2>. SUFFICES ASSUME NEW j \in Call, NEW l \in Call, j[1] = l[1], j[2] < l[2],
                       answer'[l] # "unasked"
                PROVE  answer'[j] = "OK"
    BY DEF Stepwise
  <2>1. answer[j] = "OK"
    BY <1>6 DEF Stepwise
  <2>. QED BY <1>1, <1>5, <2>1
<1>12. Authorized' /\ NoOvertaking'
  <2>1. orphaned' \subseteq orphaned
    BY <1>1, <1>2, ForgetsIs
  <2>. QED BY <1>1, <2>1 DEF Authorized, NoOvertaking, order
<1>13. Ordered'
  <2>1. \A w \in Writes : \A j \in older[w] : answer'[j] # "unasked"
    BY <1>6 DEF Ordered, TypeOK, Writes
  <2>2. ASSUME NEW w \in Writes, NEW j \in Writes, j \in older[w],
               NEW i \in 1..Len(inbox'), inbox'[i] = j
        PROVE  \E l \in 1..Len(inbox') : l > i /\ inbox'[l] = w
    <3>1. inbox[i + 1] = j /\ i + 1 \in 1..Len(inbox)
      BY <1>2, <2>2
    <3>2. PICK l \in 1..Len(inbox) : l > i + 1 /\ inbox[l] = w
      BY <2>2, <3>1 DEF Ordered
    <3>3. l - 1 \in 1..Len(inbox') /\ l - 1 > i /\ (l - 1) + 1 = l
      BY <1>2, <3>2
    <3>4. inbox'[l - 1] = w
      BY <1>2, <3>2, <3>3
    <3>. QED BY <3>3, <3>4
  <2>. QED BY <1>1, <2>1, <2>2 DEF Ordered, order, parted
<1>14. Recent'
  BY <1>1 DEF Recent, Rank, order, parted
<1>. QED BY <1>7, <1>8, <1>9, <1>10, <1>11, <1>12, <1>13, <1>14

--------------------------------------------------------------------------------
(* Carrying out a call, or dying in it.                                    *)

(* What a call that has just been counted does to the ghosts' story.       *)
LEMMA CountedCase ==
  ASSUME IInv, inbox # <<>>, daemon = "perform",
         NEW s \in Outcome \cup {"cut"},
         effect' = [effect EXCEPT ![Served] = s],
         Counted(Served)
  PROVE  /\ Served \in Writes /\ Served \in Call /\ effect[Served] = "none"
         /\ Performed' = Performed \cup {Served}
         /\ NoOvertaking'
         /\ \A k \in Call : turn'[k] <= turns'
         /\ turn' \in [Call -> Nat] /\ turns' \in Nat /\ older' = older
         /\ effect' \in [Call -> Outcome \cup {"none", "cut"}]
<1>. USE DEF IInv
<1>1. /\ Served \in Call /\ Served \in Writes /\ Served = inbox[1] /\ 1 \in 1..Len(inbox)
      /\ effect[Served] = "none"
  BY HeadIs DEF TypeOK, Queue, Carried
<1>2. s # "none"
  BY OutcomeAssumption DEF Status, Failure
<1>3. Performed' = Performed \cup {Served} /\ effect' \in [Call -> Outcome \cup {"none", "cut"}]
  BY <1>1, <1>2 DEF Performed, TypeOK
<1>4. /\ older' = older /\ turns' = turns + 1
      /\ turn' \in [Call -> Nat] /\ turn'[Served] = turns + 1
      /\ \A k \in Call : k # Served => turn'[k] = turn[k]
      /\ turns \in Nat
  BY <1>1 DEF Counted, TypeOK
<1>5. \A k \in Call : turn[k] \in Nat /\ turn[k] <= turns
  BY DEF TypeOK, Ordered
<1>6. NoOvertaking'
  <2>. SUFFICES ASSUME NEW j \in Performed', NEW k \in Performed', j \in older[k]
                PROVE  turn'[j] < turn'[k]
    BY <1>4 DEF NoOvertaking
  <2>1. j \in Call /\ k \in Call /\ j \in Writes /\ k \in Writes
    BY <1>1, <1>3 DEF Performed, Carried
  <2>2. CASE j = Served
    <3>1. PICK l \in 1..Len(inbox) : l > 1 /\ inbox[l] = k
      BY <1>1, <2>1, <2>2 DEF Ordered
    <3>2. effect[k] = "none" /\ k # Served
      BY <1>1, <3>1 DEF Carried, Queue
    <3>. QED BY <1>3, <3>2 DEF Performed
  <2>3. CASE j # Served /\ k = Served
    BY <1>4, <1>5, <2>1, <2>3
  <2>4. CASE j # Served /\ k # Served
    BY <1>3, <1>4, <2>1, <2>4 DEF NoOvertaking
  <2>. QED BY <2>2, <2>3, <2>4
<1>7. \A k \in Call : turn'[k] <= turns'
  BY <1>4, <1>5
<1>. QED BY <1>1, <1>3, <1>4, <1>6, <1>7

(* The machine holds the newest success, whether this call landed or not.  *)
LEMMA LandsCase ==
  ASSUME IInv, inbox # <<>>, daemon = "perform",
         NEW s \in Outcome \cup {"cut"},
         effect' = [effect EXCEPT ![Served] = s],
         Counted(Served),
         Lands(Served) \/ (s # "OK" /\ UNCHANGED machine)
  PROVE  /\ machine' \in [Readback -> Call \cup {Nobody}]
         /\ \A m \in Readback : machine'[m] # Nobody => effect'[machine'[m]] # "none"
         /\ \A m \in Readback : shown[m] # Nobody => effect'[shown[m]] # "none"
         /\ \A k \in Call : effect'[k] = "OK" /\ MethodOf(k) \in Readback =>
              turn'[k] <= Rank(machine[MethodOf(k)])' 
         /\ s # "OK" => \A k \in Call : effect'[k] = "OK" /\ MethodOf(k) \in Readback =>
              turn'[k] <= Rank(shown[MethodOf(k)])
         /\ \A m \in Readback : shown[m] # Nobody => turn'[shown[m]] = turn[shown[m]]
<1>. USE DEF IInv
<1>1. /\ Served \in Writes /\ Served \in Call /\ effect[Served] = "none"
      /\ turn' \in [Call -> Nat] /\ turns' \in Nat
      /\ \A k \in Call : turn'[k] <= turns'
      /\ effect' \in [Call -> Outcome \cup {"none", "cut"}]
  BY CountedCase
<1>2. s # "none" /\ effect'[Served] = s /\ \A k \in Call : k # Served => effect'[k] = effect[k]
  BY <1>1, OutcomeAssumption DEF Status, Failure, TypeOK
<1>3. turn'[Served] = turns' /\ \A k \in Call : k # Served => turn'[k] = turn[k]
  BY <1>1 DEF Counted, TypeOK
<1>4. machine' \in [Readback -> Call \cup {Nobody}]
  <2>1. CASE Lands(Served)
    BY <1>1, <2>1 DEF Lands, TypeOK
  <2>2. CASE UNCHANGED machine
    BY <2>2 DEF TypeOK
  <2>. QED BY <2>1, <2>2
<1>5. \A m \in Readback : \/ machine'[m] = machine[m]
                          \/ machine'[m] = Served
  <2>1. CASE Lands(Served)
    BY <2>1 DEF Lands
  <2>. QED BY <2>1
<1>6. \A m \in Readback : /\ machine[m] # Nobody => machine[m] \in Call /\ machine[m] # Served
                          /\ shown[m] # Nobody => shown[m] \in Call /\ shown[m] # Served
  BY <1>1 DEF Recent, TypeOK
<1>7. \A m \in Readback : machine'[m] # Nobody => effect'[machine'[m]] # "none"
  BY <1>2, <1>5, <1>6 DEF Recent
<1>8. \A m \in Readback : shown[m] # Nobody => effect'[shown[m]] # "none"
  BY <1>2, <1>6 DEF Recent
<1>9. ASSUME NEW m \in Readback, shown[m] # Nobody
      PROVE  turn'[shown[m]] = turn[shown[m]]
  <2>1. shown[m] \in Call /\ shown[m] # Served
    BY <1>6, <1>9
  <2>. QED BY <1>3, <2>1
<1>10. ASSUME NEW k \in Call, effect'[k] = "OK", MethodOf(k) \in Readback
       PROVE  turn'[k] <= Rank(machine[MethodOf(k)])'
  <2>. DEFINE m == MethodOf(k)
  <2>1. MethodOf(k)' = m
    BY DEF MethodOf
  <2>2. Nobody # Served
    BY <1>1, NobodyAssumption
  <2>3. CASE machine'[m] = Served
    BY <1>1, <1>3, <2>1, <2>2, <2>3 DEF Rank
  <2>4. CASE machine'[m] # Served
    <3>1. machine'[m] = machine[m]
      BY <1>5, <1>10, <2>4
    <3>2. k # Served
      <4>1. CASE Lands(Served)
        <5>1. machine'[m] = IF m = MethodOf(Served) THEN Served ELSE machine[m]
          BY <1>10, <4>1 DEF Lands
        <5>. QED BY <2>4, <5>1
      <4>2. CASE s # "OK" /\ UNCHANGED machine
        BY <1>2, <1>10, <4>2
      <4>. QED BY <4>1, <4>2
    <3>3. effect[k] = "OK" /\ turn'[k] = turn[k]
      BY <1>2, <1>3, <1>10, <3>2
    <3>4. turn[k] <= Rank(machine[m])
      BY <1>10, <3>3 DEF Recent
    <3>5. Rank(machine[m])' = Rank(machine[m])
      <4>1. machine[m] # Nobody => turn'[machine[m]] = turn[machine[m]]
        <5>. SUFFICES ASSUME machine[m] # Nobody PROVE turn'[machine[m]] = turn[machine[m]]
          OBVIOUS
        <5>1. machine[m] \in Call /\ machine[m] # Served
          BY <1>6, <1>10
        <5>. QED BY <1>3, <5>1
      <4>. QED BY <3>1, <4>1 DEF Rank
    <3>. QED BY <2>1, <3>3, <3>4, <3>5
  <2>. QED BY <2>3, <2>4
<1>11. ASSUME s # "OK", NEW k \in Call, effect'[k] = "OK", MethodOf(k) \in Readback
       PROVE  turn'[k] <= Rank(shown[MethodOf(k)])
  <2>1. effect[k] = "OK" /\ turn'[k] = turn[k]
    BY <1>2, <1>3, <1>11
  <2>. QED BY <1>11, <2>1 DEF Recent
<1>. QED BY <1>4, <1>7, <1>8, <1>9, <1>10, <1>11

LEMMA PerformCase ==
  ASSUME IInv, Perform
  PROVE  IInv'
<1>. USE DEF IInv
<1>1. PICK s \in Outcome :
        /\ effect' = [effect EXCEPT ![Served] = s]
        /\ Replies(ReplyFor(s))
        /\ Lands(Served) \/ (s # "OK" /\ UNCHANGED machine)
        /\ shown' = machine' \/ (s # "OK" /\ UNCHANGED shown)
  BY DEF Perform, Refreshed
<1>2. /\ daemon = "perform" /\ inbox # <<>> /\ daemon' = "reply" /\ reply' = ReplyFor(s)
      /\ Counted(Served)
      /\ UNCHANGED <<bus, answer, gone, inbox, subject, granted, parted>>
      /\ Served' = Served
  BY <1>1 DEF Perform, Queue, Replies, Served
<1>3. /\ Served \in Writes /\ Served \in Call /\ effect[Served] = "none"
      /\ Performed' = Performed \cup {Served}
      /\ NoOvertaking'
      /\ \A k \in Call : turn'[k] <= turns'
      /\ turn' \in [Call -> Nat] /\ turns' \in Nat /\ older' = older
      /\ effect' \in [Call -> Outcome \cup {"none", "cut"}]
  BY <1>1, <1>2, CountedCase
<1>4. /\ machine' \in [Readback -> Call \cup {Nobody}]
      /\ \A m \in Readback : machine'[m] # Nobody => effect'[machine'[m]] # "none"
      /\ \A m \in Readback : shown[m] # Nobody => effect'[shown[m]] # "none"
      /\ \A k \in Call : effect'[k] = "OK" /\ MethodOf(k) \in Readback =>
           turn'[k] <= Rank(machine[MethodOf(k)])'
      /\ s # "OK" => \A k \in Call : effect'[k] = "OK" /\ MethodOf(k) \in Readback =>
           turn'[k] <= Rank(shown[MethodOf(k)])
      /\ \A m \in Readback : shown[m] # Nobody => turn'[shown[m]] = turn[shown[m]]
  BY <1>1, <1>2, LandsCase
<1>5. TypeOK'
  <2>1. reply' \in DOMAIN StatusNamed
    BY <1>2, NamesAre, OutcomeAssumption
  <2>2. shown' \in [Readback -> Call \cup {Nobody}]
    BY <1>1, <1>4 DEF TypeOK
  <2>. QED BY <1>2, <1>3, <1>4, <2>1, <2>2 DEF TypeOK, parted
<1>6. s # "none" /\ effect'[Served] = s /\ \A k \in Call : k # Served => effect'[k] = effect[k]
  BY <1>1, <1>3, OutcomeAssumption DEF TypeOK, Status, Failure
<1>7. Queue'
  BY <1>2 DEF Queue
<1>8. Carried'
  <2>1. answer[Served] # "unasked" /\ Served = inbox[1] /\ 1 \in 1..Len(inbox)
    BY <1>2, HeadIs DEF Queue, TypeOK
  <2>2. \A k \in Call : answer[k] = "unasked" => effect'[k] = "none"
    BY <1>6, <2>1 DEF Carried
  <2>3. ASSUME NEW i \in 1..Len(inbox), i > 1 PROVE effect'[inbox[i]] = "none"
    <3>1. inbox[i] # Served /\ inbox[i] \in Call
      BY <2>1, <2>3, EntriesAreCalls DEF Queue, TypeOK
    <3>. QED BY <1>2, <1>6, <2>3, <3>1 DEF Carried
  <2>. QED BY <1>2, <1>3, <2>2, <2>3 DEF Carried
<1>9. Truthful'
  <2>1. \A k \in Writes : answer[k] = "OK" => k # Served
    BY <1>3, OutcomeAssumption DEF Truthful
  <2>. QED BY <1>2, <1>6, <2>1 DEF Truthful, Writes
<1>10. Stepwise' /\ Authorized'
  BY <1>2 DEF Stepwise, Authorized, parted
<1>11. Ordered'
  BY <1>2, <1>3 DEF Ordered
<1>12. Recent'
  <2>1. \A m \in Readback : shown'[m] # Nobody => effect'[shown'[m]] # "none"
    BY <1>1, <1>4
  <2>2. ASSUME NEW k \in Call, effect'[k] = "OK", MethodOf(k) \in Readback
        PROVE  turn'[k] <= Rank(shown[MethodOf(k)])'
    <3>1. CASE shown' = machine'
      BY <1>4, <2>2, <3>1 DEF Rank, MethodOf
    <3>2. CASE s # "OK" /\ UNCHANGED shown
      <4>1. turn'[k] <= Rank(shown[MethodOf(k)])
        BY <1>4, <2>2, <3>2
      <4>2. Rank(shown[MethodOf(k)])' = Rank(shown[MethodOf(k)])
        BY <1>4, <2>2, <3>2 DEF Rank, MethodOf
      <4>. QED BY <4>1, <4>2
    <3>. QED BY <1>1, <3>1, <3>2
  <2>3. \A k \in Call : effect'[k] = "OK" /\ MethodOf(k) \in Readback =>
          /\ turn'[k] <= Rank(machine[MethodOf(k)])'
          /\ turn'[k] <= Rank(shown[MethodOf(k)])'
    BY <1>4, <2>2
  <2>4. \A m \in Readback : /\ machine'[m] # Nobody => effect'[machine'[m]] # "none"
                            /\ shown'[m] # Nobody => effect'[shown'[m]] # "none"
    BY <1>4, <2>1
  <2>. QED BY <2>3, <2>4 DEF Recent, MethodOf
<1>. QED BY <1>3, <1>5, <1>7, <1>8, <1>9, <1>10, <1>11, <1>12

(* Who is told that no reply will come.                                    *)
LEMMA NoReplyIs ==
  ASSUME IInv, answer' = NoReply
  PROVE  /\ answer' \in [Call -> Answer]
         /\ \A k \in Call : /\ answer'[k] = "unasked" <=> answer[k] = "unasked"
                            /\ answer'[k] = "OK" <=> answer[k] = "OK"
<1>1. \A k \in Call : answer'[k] = IF Waiting(k) /\ answer[k] = "waiting"
                                  THEN "IO" ELSE answer[k]
  BY NamesAre DEF NoReply
<1>2. answer' \in [Call -> Answer]
  BY NamesAre DEF NoReply, IInv, TypeOK, Answer, Status
<1>. QED BY <1>1, <1>2

LEMMA EmptyQueueIsFine ==
  ASSUME inbox' = <<>>, daemon' \in {"down", "idle"}, Carried,
         \A k \in Call : answer'[k] = "unasked" => effect'[k] = "none",
         Performed' \subseteq Writes
  PROVE  Queue' /\ Carried'
BY DEF Queue, Carried

LEMMA CrashCase ==
  ASSUME IInv, Crash
  PROVE  IInv'
<1>. USE DEF IInv
<1>1. /\ daemon # "down" /\ daemon' = "down" /\ inbox' = <<>>
      /\ answer' = NoReply /\ reply' = "Return"
      /\ shown' = [m \in Readback |-> Nobody]
      /\ subject' = "nobody" /\ Forgets(Call)
      /\ UNCHANGED <<bus, gone>>
  BY DEF Crash
<1>2. /\ answer' \in [Call -> Answer]
      /\ \A k \in Call : /\ answer'[k] = "unasked" <=> answer[k] = "unasked"
                         /\ answer'[k] = "OK" <=> answer[k] = "OK"
  BY <1>1, NoReplyIs
<1>3. /\ inbox' \in Seq(Call) /\ shown' \in [Readback -> Call \cup {Nobody}]
      /\ reply' \in DOMAIN StatusNamed
      /\ granted' \in [Call -> {"nobody", "sender", "stranger"}]
      /\ orphaned' \subseteq orphaned /\ lapsed' \subseteq lapsed
  BY <1>1, ForgetsIs DEF StatusNamed
<1>4. Stepwise' /\ Authorized'
  BY <1>1, <1>2, <1>3 DEF Stepwise, Authorized
<1>5. CASE UNCHANGED <<effect, machine, order>>
  <2>1. TypeOK' /\ Performed' = Performed
    BY <1>1, <1>2, <1>3, <1>5 DEF TypeOK, order, parted, Performed
  <2>2. Queue' /\ Carried'
    BY <1>1, <1>2, <1>5, <2>1, EmptyQueueIsFine DEF Carried
  <2>3. Truthful'
    BY <1>1, <1>2, <1>5, <2>1 DEF Truthful, Writes
  <2>4. NoOvertaking' /\ Ordered'
    BY <1>1, <1>2, <1>5, <2>1 DEF NoOvertaking, Ordered, order, TypeOK, Writes
  <2>5. Recent'
    BY <1>1, <1>5 DEF Recent, Rank, MethodOf, order, parted
  <2>. QED BY <1>4, <2>1, <2>2, <2>3, <2>4, <2>5
<1>6. CASE /\ daemon = "perform"
           /\ effect' = [effect EXCEPT ![Served] = "cut"]
           /\ Lands(Served) \/ UNCHANGED machine
           /\ Counted(Served)
  <2>1. inbox # <<>> /\ "cut" # "OK"
    BY <1>6 DEF Queue
  <2>2. /\ Served \in Writes /\ Served \in Call /\ effect[Served] = "none"
        /\ Performed' = Performed \cup {Served}
        /\ NoOvertaking'
        /\ \A k \in Call : turn'[k] <= turns'
        /\ turn' \in [Call -> Nat] /\ turns' \in Nat /\ older' = older
        /\ effect' \in [Call -> Outcome \cup {"none", "cut"}]
    BY <1>1, <1>6, <2>1, CountedCase
  <2>3. /\ machine' \in [Readback -> Call \cup {Nobody}]
        /\ \A m \in Readback : machine'[m] # Nobody => effect'[machine'[m]] # "none"
        /\ \A k \in Call : effect'[k] = "OK" /\ MethodOf(k) \in Readback =>
             turn'[k] <= Rank(machine[MethodOf(k)])'
    BY <1>1, <1>6, <2>1, LandsCase
  <2>4. TypeOK'
    BY <1>1, <1>2, <1>3, <2>2, <2>3 DEF TypeOK, parted
  <2>5. effect'[Served] = "cut" /\ \A k \in Call : k # Served => effect'[k] = effect[k]
    BY <1>6, <2>2 DEF TypeOK
  <2>6. answer[Served] \notin {"unasked", "OK"}
    BY <2>1, HeadIs DEF Queue, TypeOK
  <2>7. Queue' /\ Carried'
    <3>1. \A k \in Call : answer'[k] = "unasked" => effect'[k] = "none"
      BY <1>2, <2>5, <2>6 DEF Carried
    <3>. QED BY <1>1, <2>2, <3>1, EmptyQueueIsFine DEF Carried
  <2>8. Truthful'
    BY <1>1, <1>2, <2>5, <2>6 DEF Truthful, Writes
  <2>9. Ordered'
    BY <1>1, <1>2, <2>2 DEF Ordered, TypeOK, Writes
  <2>10. Recent'
    BY <1>1, <2>3 DEF Recent, MethodOf
  <2>. QED BY <1>4, <2>2, <2>4, <2>7, <2>8, <2>9, <2>10
<1>. QED BY <1>5, <1>6 DEF Crash

LEMMA StartCase ==
  ASSUME IInv, Start
  PROVE  IInv'
<1>. USE DEF IInv
<1>1. /\ daemon = "down" /\ daemon' = "idle" /\ shown' = machine
      /\ UNCHANGED <<bus, answer, gone, inbox, reply, subject, machine, effect,
                     granted, parted, order>>
      /\ Served' = Served /\ Performed' = Performed
  BY DEF Start, Served, Performed
<1>2. TypeOK'
  BY <1>1 DEF TypeOK, order, parted
<1>3. Queue' /\ Carried' /\ Truthful'
  BY <1>1 DEF Queue, Carried, Truthful
<1>4. Stepwise' /\ Authorized'
  BY <1>1 DEF Stepwise, Authorized, parted
<1>5. NoOvertaking' /\ Ordered'
  BY <1>1 DEF NoOvertaking, Ordered, order, parted
<1>6. Recent'
  BY <1>1 DEF Recent, Rank, MethodOf, order, parted
<1>. QED BY <1>2, <1>3, <1>4, <1>5, <1>6

LEMMA NotActivatedCase ==
  ASSUME IInv, NotActivated
  PROVE  IInv'
<1>. USE DEF IInv
<1>1. /\ daemon = "down" /\ inbox' = <<>> /\ answer' = NoReply
      /\ Forgets(Call)
      /\ UNCHANGED <<bus, gone, daemon, reply, subject, shown, machine, effect, order>>
      /\ Performed' = Performed
  BY DEF NotActivated, Performed
<1>2. /\ answer' \in [Call -> Answer]
      /\ \A k \in Call : /\ answer'[k] = "unasked" <=> answer[k] = "unasked"
                         /\ answer'[k] = "OK" <=> answer[k] = "OK"
  BY <1>1, NoReplyIs
<1>3. TypeOK' /\ orphaned' \subseteq orphaned
  BY <1>1, <1>2, ForgetsIs DEF TypeOK, order
<1>4. Queue' /\ Carried'
  BY <1>1, <1>2, EmptyQueueIsFine DEF Carried
<1>5. Truthful' /\ Stepwise' /\ Authorized'
  BY <1>1, <1>2, <1>3 DEF Truthful, Stepwise, Authorized, Writes, parted
<1>6. NoOvertaking' /\ Ordered'
  BY <1>1, <1>2 DEF NoOvertaking, Ordered, order, TypeOK, Writes
<1>7. Recent'
  BY <1>1 DEF Recent, Rank, order, parted
<1>. QED BY <1>3, <1>4, <1>5, <1>6, <1>7

LEMMA Inductive == IInv /\ [Next]_vars => IInv'
<1>. SUFFICES ASSUME IInv, [Next]_vars PROVE IInv'
  OBVIOUS
<1>1. CASE UNCHANGED vars
  BY <1>1 DEF vars, order, parted, IInv, TypeOK, Queue, Carried, Truthful, Stepwise,
     Authorized, NoOvertaking, Ordered, Recent, Performed, Served, Rank
<1>2. CASE Next
  BY <1>2, SendCase, NotSentCase, TimeoutCase, LeaveCase, TakeUpCase, CredentialsCase,
     StartTimeCase, PerformCase, ReplyCase, CheckCase, CrashCase, StartCase, NotActivatedCase
     DEF Next, Thread
<1>. QED BY <1>1, <1>2

(* Only what the daemon is busy with, at the end of its stages, begins to  *)
(* have an effect.                                                         *)
LEMMA BeginsWithServed ==
  ASSUME IInv, [Next]_vars, NEW k \in Performed' \ Performed
  PROVE  daemon = "perform" /\ k = Served
<1>. USE DEF IInv
<1>1. effect' # effect /\ k \in Call
  BY DEF Performed
<1>2. Perform \/ (Crash /\ daemon = "perform" /\ effect' = [effect EXCEPT ![Served] = "cut"])
  BY <1>1 DEF Next, Thread, vars, Send, NotSent, Timeout, Leave, TakeUp, Credentials,
     StartTime, Check, Reply, Crash, Start, NotActivated
<1>3. daemon = "perform" /\ \E s : effect' = [effect EXCEPT ![Served] = s]
  BY <1>2 DEF Perform
<1>4. effect'[k] # effect[k]
  BY DEF Performed
<1>. QED BY <1>1, <1>3, <1>4 DEF TypeOK

LEMMA GrantingStep ==
  ASSUME IInv, [Next]_vars, bus = "system", NEW k \in Performed' \ Performed
  PROVE  /\ granted[k] # "nobody"
         /\ k \notin orphaned
         /\ granted[k] = "stranger" => k \in lapsed
BY BeginsWithServed DEF IInv, Authorized

LEMMA Invariance == Spec => []IInv
BY InitCase, Inductive, PTL DEF Spec

--------------------------------------------------------------------------------
(* What the calls mean: every step is one of RemoteCall's.                 *)

Answers == [k \in Writes |-> answer[k]]
Effects == [k \in Writes |-> Effect[k]]

AbsOutcome == (Outcome \ {"BUFFER_TOO_SMALL"}) \cup {"IO"}

LEMMA NothingStep ==
  ASSUME UNCHANGED <<answer, effect>>
  PROVE  [Calls!Next]_(Calls!vars)
BY DEF Calls!vars, Effect

LEMMA AskStep ==
  ASSUME TypeOK, NEW k \in Call, answer[k] = "unasked",
         answer' = [answer EXCEPT ![k] = "waiting"], effect' = effect
  PROVE  [Calls!Next]_(Calls!vars)
<1>1. Effects' = Effects
  BY DEF Effects, Effect
<1>2. CASE k \in Writes
  <2>1. /\ Answers[k] = "unasked"
        /\ Answers' = [Answers EXCEPT ![k] = "waiting"]
    BY <1>2 DEF Answers, TypeOK, Writes
  <2>2. Calls!Ask(k)
    BY <1>1, <2>1 DEF Calls!Ask, Answers, Effects
  <2>. QED BY <1>2, <2>2 DEF Calls!Next
<1>3. CASE k \notin Writes
  <2>1. Answers' = Answers
    BY <1>3 DEF Answers, TypeOK, Writes
  <2>. QED BY <1>1, <2>1 DEF Calls!vars, Answers, Effects
<1>. QED BY <1>2, <1>3

(* The caller gets a status: one that settles nothing, a refusal, or what  *)
(* became of the call.                                                     *)
LEMMA TellStep ==
  ASSUME TypeOK, NEW k \in Call, NEW s \in Status,
         answer[k] \in {"unasked", "waiting"},
         answer' = [answer EXCEPT ![k] = s], effect' = effect,
         k \in Writes => \/ s = "IO"
                         \/ effect[k] = "none" /\ s \in Failure
                         \/ effect[k] \in Outcome /\ s = Effect[k]
  PROVE  [Calls!Next]_(Calls!vars)
<1>1. Effects' = Effects
  BY DEF Effects, Effect
<1>2. CASE k \notin Writes
  <2>1. Answers' = Answers
    BY <1>2 DEF Answers, TypeOK, Writes
  <2>. QED BY <1>1, <2>1 DEF Calls!vars, Answers, Effects
<1>3. CASE k \in Writes
  <2>1. Calls!Tell(k, s)
    <3>1. /\ Answers[k] \in {"unasked", "waiting"}
          /\ Answers' = [Answers EXCEPT ![k] = s]
      BY <1>3 DEF Answers, TypeOK, Writes
    <3>. QED BY <1>1, <3>1 DEF Calls!Tell, Answers, Effects
  <2>2. CASE s = "IO"
    <3>1. /\ \A j \in {k} : Answers[j] \in {"unasked", "waiting"}
          /\ Answers' = [j \in Writes |-> IF j \in {k} THEN s ELSE Answers[j]]
      BY <1>3 DEF Answers, TypeOK, Writes
    <3>2. Calls!Lose({k}, "IO")
      BY <2>2, <3>1 DEF Calls!Lose, Answers
    <3>3. Calls!Break
      BY <1>1, <1>3, <3>2 DEF Calls!Break, Effects
    <3>. QED BY <3>3 DEF Calls!Next
  <2>3. CASE s # "IO" /\ effect[k] = "none" /\ s \in Failure
    <3>1. Effects[k] = "none"
      BY <1>3, <2>3 DEF Effects, Effect
    <3>2. Calls!Refuse(k, s)
      BY <2>1, <2>3, <3>1 DEF Calls!Refuse, Effects
    <3>. QED BY <1>3, <2>3, <3>2 DEF Calls!Next
  <2>4. CASE effect[k] \in Outcome /\ s = Effect[k]
    <3>1. s \in AbsOutcome /\ Effects[k] = s
      BY <1>3, <2>4 DEF Effects, Effect, AbsOutcome
    <3>2. Calls!Inform(k, s)
      BY <2>1, <3>1 DEF Calls!Inform, Effects
    <3>. QED BY <1>3, <3>1, <3>2 DEF Calls!Next, AbsOutcome
  <2>. QED BY <1>3, <2>2, <2>3, <2>4
<1>. QED BY <1>2, <1>3

(* Callers that give up, or are told that no reply will come.              *)
LEMMA LoseStep ==
  ASSUME TypeOK, NEW S \in SUBSET Call, \A k \in S : answer[k] = "waiting",
         NEW s \in {"unheard", "IO"},
         answer' = [k \in Call |-> IF k \in S THEN s ELSE answer[k]], effect' = effect
  PROVE  [Calls!Next]_(Calls!vars)
<1>1. Effects' = Effects
  BY DEF Effects, Effect
<1>2. /\ S \cap Writes \in SUBSET Writes
      /\ \A k \in S \cap Writes : Answers[k] \in {"unasked", "waiting"}
      /\ Answers' = [k \in Writes |-> IF k \in S \cap Writes THEN s ELSE Answers[k]]
  BY DEF Answers, Writes
<1>3. Calls!Lose(S \cap Writes, s)
  BY <1>2 DEF Calls!Lose, Answers
<1>4. CASE s = "IO"
  <2>1. Calls!Break
    BY <1>1, <1>2, <1>3, <1>4 DEF Calls!Break, Effects
  <2>. QED BY <2>1 DEF Calls!Next
<1>5. CASE s = "unheard"
  BY <1>1, <1>2, <1>3, <1>5 DEF Calls!Next, Effects
<1>. QED BY <1>4, <1>5

LEMMA PerformStep ==
  ASSUME TypeOK, NEW k \in Writes, NEW s \in Outcome,
         answer[k] \in {"waiting", "unheard", "IO"}, effect[k] = "none",
         answer' = answer, effect' = [effect EXCEPT ![k] = s]
  PROVE  [Calls!Next]_(Calls!vars)
<1>. DEFINE e == IF s = "BUFFER_TOO_SMALL" THEN "IO" ELSE s
<1>1. /\ e \in AbsOutcome /\ k \in Call
      /\ Answers' = Answers /\ Answers[k] \in {"waiting", "unheard", "IO"}
  BY DEF AbsOutcome, Answers, Writes
<1>2. /\ Effects[k] = "none"
      /\ Effects' = [Effects EXCEPT ![k] = e]
  BY <1>1 DEF Effects, Effect, TypeOK, Writes
<1>3. Calls!Perform(k, e)
  BY <1>1, <1>2 DEF Calls!Perform, Answers, Effects
<1>. QED BY <1>1, <1>3 DEF Calls!Next, AbsOutcome

LEMMA CutStep ==
  ASSUME TypeOK, NEW S \in SUBSET Call, \A j \in S : answer[j] = "waiting",
         answer' = [j \in Call |-> IF j \in S THEN "IO" ELSE answer[j]],
         NEW k \in Writes,
         answer[k] \in {"waiting", "unheard", "IO"}, effect[k] = "none",
         effect' = [effect EXCEPT ![k] = "cut"]
  PROVE  [Calls!Next]_(Calls!vars)
<1>1. /\ S \cap Writes \in SUBSET Writes
      /\ \A j \in S \cap Writes : Answers[j] \in {"unasked", "waiting"}
      /\ Answers' = [j \in Writes |-> IF j \in S \cap Writes THEN "IO" ELSE Answers[j]]
  BY DEF Answers, Writes
<1>2. Calls!Lose(S \cap Writes, "IO")
  BY <1>1 DEF Calls!Lose, Answers
<1>3. /\ Effects[k] = "none" /\ Answers[k] \in {"waiting", "unheard", "IO"}
      /\ Effects' = [Effects EXCEPT ![k] = "cut"]
  BY DEF Effects, Effect, Answers, TypeOK, Writes
<1>4. Calls!Break
  BY <1>1, <1>2, <1>3 DEF Calls!Break, Effects, Answers
<1>. QED BY <1>4 DEF Calls!Next

LEMMA Steps == IInv /\ [Next]_vars => [Calls!Next]_(Calls!vars)
<1>. SUFFICES ASSUME IInv, [Next]_vars PROVE [Calls!Next]_(Calls!vars)
  OBVIOUS
<1>. USE DEF IInv
<1>1. ASSUME NEW k \in Call, Send(k)
      PROVE  [Calls!Next]_(Calls!vars)
  BY <1>1, AskStep DEF Send, Due
<1>2. ASSUME NEW k \in Call, NotSent(k)
      PROVE  [Calls!Next]_(Calls!vars)
  <2>1. PICK s \in Failure : answer' = [answer EXCEPT ![k] = s]
    BY <1>2, OutcomeAssumption DEF NotSent
  <2>2. answer[k] = "unasked" /\ effect[k] = "none" /\ effect' = effect /\ s \in Status
    BY <1>2 DEF NotSent, Due, Carried, Status
  <2>. QED BY <2>1, <2>2, TellStep
<1>3. ASSUME NEW k \in Call, Timeout(k)
      PROVE  [Calls!Next]_(Calls!vars)
  <2>1. /\ answer[k] = "waiting" /\ answer' = [answer EXCEPT ![k] = "IO"]
        /\ effect' = effect /\ "IO" \in Status
    BY <1>3, NamesAre DEF Timeout, Status, Failure
  <2>. QED BY <2>1, TellStep
<1>4. ASSUME NEW c \in Client, Leave(c)
      PROVE  [Calls!Next]_(Calls!vars)
  <2>. DEFINE S == {k \in Call : k[1] = c /\ answer[k] = "waiting"}
  <2>1. /\ S \in SUBSET Call /\ \A k \in S : answer[k] = "waiting"
        /\ answer' = [k \in Call |-> IF k \in S THEN "unheard" ELSE answer[k]]
        /\ effect' = effect
    BY <1>4 DEF Leave
  <2>. QED BY <2>1, LoseStep
<1>5. CASE TakeUp \/ Credentials \/ StartTime \/ Check \/ Start
  BY <1>5, NothingStep DEF TakeUp, Credentials, StartTime, Check, Start
<1>6. CASE Perform
  <2>1. PICK s \in Outcome : effect' = [effect EXCEPT ![Served] = s]
    BY <1>6 DEF Perform
  <2>2. /\ Served \in Writes /\ effect[Served] = "none" /\ answer' = answer
        /\ answer[Served] \in {"waiting", "unheard", "IO"}
    BY <1>6, HeadIs DEF Perform, Queue, Carried, TypeOK
  <2>. QED BY <2>1, <2>2, PerformStep
<1>7. CASE Reply
  <2>1. inbox # <<>> /\ Served \in Call /\ effect' = effect /\ daemon = "reply"
    BY <1>7, HeadIs DEF Reply, Queue, TypeOK
  <2>2. CASE answer[Served] # "waiting"
    BY <1>7, <2>1, <2>2, NothingStep DEF Reply
  <2>3. CASE answer[Served] = "waiting"
    <3>. DEFINE s == StatusNamed[reply]
    <3>1. answer' = [answer EXCEPT ![Served] = s] /\ s \in Status
      BY <1>7, <2>3, NamesAre DEF Reply, TypeOK
    <3>2. CASE effect[Served] = "none"
      <4>1. Served \in Writes => s \in Failure
        BY <2>1, <3>2, NamesAre DEF Truthful
      <4>. HIDE DEF s
      <4>. QED BY <2>1, <2>3, <3>1, <3>2, <4>1, TellStep
    <3>3. CASE effect[Served] # "none"
      <4>1. effect[Served] \in Outcome /\ s = Effect[Served]
        BY <2>1, <3>3, NamesAre, OutcomeAssumption DEF Truthful, Effect
      <4>. HIDE DEF s
      <4>. QED BY <2>1, <2>3, <3>1, <4>1, TellStep
    <3>. QED BY <3>2, <3>3
  <2>. QED BY <2>2, <2>3
<1>8. CASE Crash
  <2>. DEFINE S == {k \in Call : Waiting(k) /\ answer[k] = "waiting"}
  <2>1. /\ S \in SUBSET Call /\ \A k \in S : answer[k] = "waiting"
        /\ answer' = [k \in Call |-> IF k \in S THEN "IO" ELSE answer[k]]
    BY <1>8, NamesAre DEF Crash, NoReply
  <2>2. CASE effect' = effect
    BY <2>1, <2>2, LoseStep
  <2>3. CASE daemon = "perform" /\ effect' = [effect EXCEPT ![Served] = "cut"]
    <3>1. /\ Served \in Writes /\ effect[Served] = "none"
          /\ answer[Served] \in {"waiting", "unheard", "IO"}
      BY <2>3, HeadIs DEF Queue, Carried, TypeOK
    <3>. QED BY <2>1, <2>3, <3>1, CutStep
  <2>. QED BY <1>8, <2>2, <2>3 DEF Crash
<1>9. CASE NotActivated
  <2>. DEFINE S == {k \in Call : Waiting(k) /\ answer[k] = "waiting"}
  <2>1. /\ S \in SUBSET Call /\ \A k \in S : answer[k] = "waiting"
        /\ answer' = [k \in Call |-> IF k \in S THEN "IO" ELSE answer[k]]
        /\ effect' = effect
    BY <1>9, NamesAre DEF NotActivated, NoReply
  <2>. QED BY <2>1, LoseStep
<1>10. CASE UNCHANGED vars
  BY <1>10, NothingStep DEF vars
<1>. QED
  BY <1>1, <1>2, <1>3, <1>4, <1>5, <1>6, <1>7, <1>8, <1>9, <1>10 DEF Next, Thread

--------------------------------------------------------------------------------
(* The theorems.                                                           *)

(* dbus_client.c, server.c, policy.c: the variables keep their types; every*)
(* reply has a name the client knows or takes for IO.                      *)
THEOREM SessionTypes == Spec => []TypeOK
<1>1. IInv => TypeOK
  BY DEF IInv
<1>. QED BY <1>1, Invariance, PTL

(* cmd-profile.c: what profile apply leaves behind is a prefix of the      *)
(* document, whatever went wrong.                                          *)
THEOREM PrefixApplied == Spec => []AppliedInOrder
<1>1. IInv => AppliedInOrder
  <2>. SUFFICES ASSUME IInv, NEW j \in Call, NEW k \in Call,
                       j[1] = k[1], j[2] < k[2], k \in Performed
                PROVE  effect[j] = IF MethodOf(j) = "get-state" THEN "none" ELSE "OK"
    BY DEF AppliedInOrder
  <2>1. answer[j] = "OK"
    BY DEF IInv, Performed, Carried, Stepwise
  <2>2. CASE j \in Writes
    BY <2>1, <2>2, WritesAre DEF IInv, Truthful
  <2>3. CASE j \notin Writes
    <3>1. effect[j] = "none"
      BY <2>3 DEF IInv, Carried, Performed
    <3>. QED BY <2>3, <3>1, WritesAre
  <2>. QED BY <2>2, <2>3
<1>. QED BY <1>1, Invariance, PTL

(* policy.c: nothing is carried out on the system bus that polkit did not  *)
(* allow, or whose process had left when its pid was asked for; and polkit *)
(* was asked about another process only where the sender left between that *)
(* and the look into /proc.                                                *)
THEOREM GrantsHold == Spec => OnlyGranted
<1>1. ASSUME IInv, [Next]_vars
      PROVE  [bus = "system" => \A k \in Performed' \ Performed :
                /\ granted[k] # "nobody"
                /\ k \notin orphaned
                /\ granted[k] = "stranger" => k \in lapsed]_vars
  BY <1>1, GrantingStep
<1>. QED BY <1>1, Invariance, PTL DEF Spec, OnlyGranted

(* server.c: late calls overtake nobody.                                   *)
THEOREM OrderKept == Spec => []NoOvertaking
<1>1. IInv => NoOvertaking
  BY DEF IInv
<1>. QED BY <1>1, Invariance, PTL

(* server.c and state_reader.c: the cache is never older than a success    *)
(* somebody was told of.                                                   *)
THEOREM RecencyKept == Spec => []CacheIsRecent
<1>1. IInv => CacheIsRecent
  BY WritesAre DEF IInv, CacheIsRecent, Recent, Truthful
<1>. QED BY <1>1, Invariance, PTL

(* The session between lccctl and lccd implements RemoteCall: a call is    *)
(* carried out at most once, and OK and every error but IO settle it.      *)
THEOREM CallsRefined == Spec => ImplementsCalls
<1>1. Init => Calls!Init
  BY DEF Init, Calls!Init, Effect, Writes
<1>. QED BY <1>1, Steps, Invariance, PTL DEF Spec, ImplementsCalls, Calls!Spec
================================================================================
