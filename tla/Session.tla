-------------------------------- MODULE Session --------------------------------
(***************************************************************************)
(* lccctl processes, the bus and the single-threaded lccd between them.    *)
(* A process makes the calls of its command one after the other and stops  *)
(* at the first error; the daemon takes the messages in the order they     *)
(* arrived, asks polkit before a write on the system bus, carries it out   *)
(* and replies.  A caller may stop waiting or die, the daemon may die and  *)
(* be started again, and a message is never delivered twice.               *)
(***************************************************************************)
EXTENDS Naturals, Sequences

CONSTANTS
  Client,    \* lccctl processes
  Commands,  \* the methods each process calls, in order
  Method,    \* the mutating methods, one per setting
  Outcome,   \* the statuses a setter of the manager can end with
  Local,     \* the statuses a process can end with before its first call
  Unsent,    \* the statuses of a call that cannot be sent
  Readback,  \* the settings a refresh reads from the machine
  Nobody     \* no call

Failure == {"INVALID_ARGUMENT", "NOT_FOUND", "IO", "PERMISSION", "PARSE", "RANGE",
            "NOT_SUPPORTED", "BUFFER_TOO_SMALL", "UNIMPLEMENTED"}
Status == Failure \cup {"OK"}

ASSUME ClientAssumption ==
  /\ Commands \in [Client -> Seq(Method \cup {"get-state"})]
  /\ "get-state" \notin Method
  /\ Readback \subseteq Method

ASSUME OutcomeAssumption ==
  Outcome \subseteq Status /\ Local \subseteq Failure /\ Unsent \subseteq Failure

Call == UNION {{c} \X (1..Len(Commands[c])) : c \in Client}
MethodOf(k) == Commands[k[1]][k[2]]

ASSUME NobodyAssumption == Nobody \notin Call

VARIABLES
  bus,      \* the bus in use, "system" or "user"
  answer,   \* per call: "unasked", "waiting", "unheard" or the caller's status
  gone,     \* the processes that have exited
  inbox,    \* the messages the daemon has not replied to
  daemon,   \* what the thread does with the oldest of them; "down", "idle"
  reply,    \* the D-Bus name of the reply being sent; otherwise "Return"
  subject,  \* whom the pid polkit is asked about stands for; "nobody" yet
  shown,    \* per readable setting: the call whose value the cache holds
  machine,  \* per readable setting: the call whose value the machine holds
  effect,   \* ghost, per call: "none", how it ended, "cut" by a crash
  granted,  \* ghost, per message: whom polkit allowed it to, or "nobody"
  orphaned, \* ghost: messages whose process left before its pid was asked for
  lapsed,   \* ghost: messages whose process left right after that
  older,    \* ghost, per write: the writes in the inbox when it was sent
  turn,     \* ghost, per call: when it was carried out
  turns     \* ghost: how many have been

order == <<older, turn, turns>>
parted == <<orphaned, lapsed>>
vars == <<bus, answer, gone, inbox, daemon, reply, subject, shown, machine, effect,
          granted, parted, order>>

(* lcc_dbus_error_set: two statuses share a name.                          *)
ErrorName ==
  [INVALID_ARGUMENT |-> "InvalidArgument", NOT_FOUND |-> "NotFound",
   PERMISSION |-> "PermissionDenied", PARSE |-> "Parse", RANGE |-> "Range",
   NOT_SUPPORTED |-> "NotSupported", UNIMPLEMENTED |-> "Unimplemented",
   IO |-> "IO", BUFFER_TOO_SMALL |-> "IO"]

ReplyFor(s) == IF s = "OK" THEN "Return" ELSE ErrorName[s]

(* dbus_error_to_status; names it does not know end in its default, IO.    *)
StatusNamed ==
  [Return |-> "OK", InvalidArgument |-> "INVALID_ARGUMENT", NotFound |-> "NOT_FOUND",
   PermissionDenied |-> "PERMISSION", Parse |-> "PARSE", Range |-> "RANGE",
   NotSupported |-> "NOT_SUPPORTED", Unimplemented |-> "UNIMPLEMENTED",
   IO |-> "IO", Failed |-> "IO", AccessDenied |-> "PERMISSION",
   ServiceUnknown |-> "NOT_FOUND", NoReply |-> "IO"]

Writes == {k \in Call : MethodOf(k) # "get-state"}

(* The message the daemon turns to next, or is busy with.                  *)
Served == Head(inbox)
Waiting(k) == \E i \in 1..Len(inbox) : inbox[i] = k

Rank(k) == IF k = Nobody THEN 0 ELSE turn[k]

(* What is known of a message is forgotten with it.                        *)
Forgets(S) ==
  /\ granted' = [k \in Call |-> IF k \in S THEN "nobody" ELSE granted[k]]
  /\ orphaned' = orphaned \ S
  /\ lapsed' = lapsed \ S

Init ==
  /\ bus \in {"system", "user"}
  /\ answer = [k \in Call |-> "unasked"]
  /\ gone = {}
  /\ inbox = <<>>
  /\ daemon = "down"
  /\ reply = "Return"
  /\ shown = [m \in Readback |-> Nobody]
  /\ machine = [m \in Readback |-> Nobody]
  /\ effect = [k \in Call |-> "none"]
  /\ subject = "nobody"
  /\ granted = [k \in Call |-> "nobody"]
  /\ orphaned = {} /\ lapsed = {}
  /\ older = [k \in Writes |-> {}]
  /\ turn = [k \in Call |-> 0]
  /\ turns = 0

--------------------------------------------------------------------------------
(* The processes.                                                          *)

(* A document is applied part by part, each only after the one before it.  *)
Due_Regardless(k) ==
  /\ k[1] \notin gone
  /\ answer[k] = "unasked"
  /\ \A j \in Call : j[1] = k[1] /\ j[2] < k[2] => answer[j] \notin {"unasked", "waiting"}
Due(k) ==
  /\ k[1] \notin gone
  /\ answer[k] = "unasked"
  /\ \A j \in Call : j[1] = k[1] /\ j[2] < k[2] => answer[j] = "OK"

(* Messages are taken in the order they arrive.                            *)
Queued_NewestNext(k) ==
  IF inbox = <<>> THEN <<k>> ELSE <<Served, k>> \o Tail(inbox)
Queued(k) == Append(inbox, k)

(* On the system bus a message to a daemon that is down waits for its      *)
(* activation.                                                             *)
Send(k) ==
  /\ Due(k)
  /\ daemon # "down" \/ bus = "system"
  /\ answer' = [answer EXCEPT ![k] = "waiting"]
  /\ inbox' = Queued(k)
  /\ older' = [w \in Writes |-> IF w = k THEN {v \in Writes : Waiting(v)} ELSE older[w]]
  /\ UNCHANGED <<bus, gone, daemon, reply, subject, shown, machine, effect, granted,
                 parted, turn, turns>>

(* The command line or the document is refused before the first call, the  *)
(* bus cannot be reached, or the name has no owner on the user bus.        *)
NotSent(k) ==
  /\ Due(k)
  /\ \E s \in Unsent \cup (IF k[2] = 1 THEN Local ELSE {}) :
       answer' = [answer EXCEPT ![k] = s]
  /\ UNCHANGED <<bus, gone, inbox, daemon, reply, subject, shown, machine, effect,
                 granted, parted, order>>

(* sd_bus_call gives up after its default time; the message stays where it *)
(* is.                                                                     *)
Timeout(k) ==
  /\ answer[k] = "waiting"
  /\ answer' = [answer EXCEPT ![k] = StatusNamed["NoReply"]]
  /\ UNCHANGED <<bus, gone, inbox, daemon, reply, subject, shown, machine, effect,
                 granted, parted, order>>

(* A process exits, having its status, or is killed while it waits; the    *)
(* bus notices it at once.  Only the end of one whose message the daemon   *)
(* still has makes a difference.                                           *)
Leave(c) ==
  /\ c \notin gone
  /\ \E k \in Call : k[1] = c /\ Waiting(k)
  /\ gone' = gone \cup {c}
  /\ answer' = [k \in Call |-> IF k[1] = c /\ answer[k] = "waiting"
                               THEN "unheard" ELSE answer[k]]
  /\ orphaned' = orphaned \cup
       {k \in Call : /\ k[1] = c /\ Waiting(k)
                     /\ bus = "system"
                     /\ daemon \in {"down", "idle", "credentials"} \/ k # Served}
  /\ lapsed' = lapsed \cup
       {k \in Call : k[1] = c /\ Waiting(k) /\ daemon = "starttime" /\ k = Served}
  /\ UNCHANGED <<bus, inbox, daemon, reply, subject, shown, machine, effect, granted,
                 order>>

--------------------------------------------------------------------------------
(* The daemon.                                                             *)

Replies(name) ==
  /\ daemon' = "reply"
  /\ reply' = name

(* authorize_write: the user bus needs no authorization.                   *)
FirstStage_AlwaysAsks == "credentials"
FirstStage == IF bus = "system" THEN "credentials" ELSE "perform"

(* A method is taken up: reads are answered at once from the cache (whose  *)
(* rendering may not fit), writes on the system bus need an authorization. *)
TakeUp ==
  /\ daemon = "idle"
  /\ inbox # <<>>
  /\ IF MethodOf(Served) = "get-state"
     THEN \E s \in {"OK", "BUFFER_TOO_SMALL"} : Replies(ReplyFor(s))
     ELSE /\ daemon' = FirstStage
          /\ UNCHANGED reply
  /\ UNCHANGED <<bus, answer, gone, inbox, subject, shown, machine, effect, granted,
                 parted, order>>

(* The bus is asked for the pid and the user of the sender: it knows them  *)
(* for as long as the sender is connected.                                 *)
Credentials_AnyPid ==
  /\ daemon = "credentials"
  /\ daemon' = "starttime"
  /\ UNCHANGED <<bus, answer, gone, inbox, reply, subject, shown, machine, effect,
                 granted, parted, order>>
Credentials ==
  /\ daemon = "credentials"
  /\ \/ /\ Served[1] \notin gone
        /\ daemon' = "starttime"
        /\ UNCHANGED reply
     \/ Replies("Failed")
  /\ UNCHANGED <<bus, answer, gone, inbox, subject, shown, machine, effect, granted,
                 parted, order>>

(* /proc/<pid>/stat is read: the sender's, if it is still there or not yet *)
(* reaped; otherwise nobody's, or that of a process that got its number.   *)
StartTime ==
  /\ daemon = "starttime"
  /\ \/ /\ subject' \in {"sender"} \cup (IF Served[1] \in gone THEN {"stranger"} ELSE {})
        /\ daemon' = "check"
        /\ UNCHANGED reply
     \/ /\ Replies("Failed") \/ Replies("AccessDenied")
        /\ UNCHANGED subject
     \/ /\ Served[1] \in gone
        /\ Replies(ErrorName["NOT_FOUND"])
        /\ UNCHANGED subject
  /\ UNCHANGED <<bus, answer, gone, inbox, shown, machine, effect, granted, parted,
                 order>>

(* polkit is reached, whatever has become of the sender, and answers about *)
(* the subject, whoever that is, after asking the user for as long as it   *)
(* takes; the thread waits.                                                *)
Check ==
  /\ daemon = "check"
  /\ \/ /\ daemon' = "perform"
        /\ granted' = [granted EXCEPT ![Served] = subject]
        /\ UNCHANGED reply
     \/ /\ Replies("AccessDenied") \/ Replies("Failed")
        /\ UNCHANGED granted
  /\ subject' = "nobody"
  /\ UNCHANGED <<bus, answer, gone, inbox, shown, machine, effect, parted, order>>

(* The machine now has this call's value, where it can be read back.       *)
Lands(k) ==
  machine' = [m \in Readback |-> IF m = MethodOf(k) THEN k ELSE machine[m]]

Counted(k) ==
  /\ turns' = turns + 1
  /\ turn' = [turn EXCEPT ![k] = turns + 1]
  /\ UNCHANGED older

(* The manager's setter, from preflight to the refresh: a failing one may  *)
(* have programmed the machine and may have refreshed the cache or not.    *)
Refreshed_OnlyFailures(s) == s # "OK"
Refreshed(s) == s = "OK"
Perform ==
  /\ daemon = "perform"
  /\ \E s \in Outcome :
       /\ effect' = [effect EXCEPT ![Served] = s]
       /\ Replies(ReplyFor(s))
       /\ \/ Lands(Served)
          \/ s # "OK" /\ UNCHANGED machine
       /\ \/ shown' = machine'
          \/ ~Refreshed(s) /\ UNCHANGED shown
  /\ Counted(Served)
  /\ UNCHANGED <<bus, answer, gone, inbox, subject, granted, parted>>

(* The reply goes to a process that may no longer wait for it.             *)
Reply ==
  /\ daemon = "reply"
  /\ daemon' = "idle"
  /\ inbox' = Tail(inbox)
  /\ answer' = IF answer[Served] = "waiting"
               THEN [answer EXCEPT ![Served] = StatusNamed[reply]] ELSE answer
  /\ reply' = "Return"
  /\ Forgets({Served})
  /\ UNCHANGED <<bus, gone, subject, shown, machine, effect, order>>

(* The daemon dies, with a write half done or not: the bus tells every     *)
(* process that waits, and the messages are lost with the connection.      *)
NoReply == [k \in Call |-> IF Waiting(k) /\ answer[k] = "waiting"
                           THEN StatusNamed["NoReply"] ELSE answer[k]]
Crash_KeepsInbox ==
  /\ daemon # "down"
  /\ daemon' = "down"
  /\ shown' = [m \in Readback |-> Nobody]
  /\ UNCHANGED <<bus, answer, gone, inbox, reply, subject, machine, effect, granted,
                 parted, order>>
Crash ==
  /\ daemon # "down"
  /\ daemon' = "down"
  /\ inbox' = <<>>
  /\ answer' = NoReply
  /\ reply' = "Return"
  /\ subject' = "nobody"
  /\ shown' = [m \in Readback |-> Nobody]
  /\ \/ /\ daemon = "perform"
        /\ effect' = [effect EXCEPT ![Served] = "cut"]
        /\ Lands(Served) \/ UNCHANGED machine
        /\ Counted(Served)
     \/ UNCHANGED <<effect, machine, order>>
  /\ Forgets(Call)
  /\ UNCHANGED <<bus, gone>>

(* The daemon is started, by systemd after a failure, by the bus for a     *)
(* message that waits, or by hand: its first refresh reads the machine, or *)
(* it exits again.                                                         *)
Start ==
  /\ daemon = "down"
  /\ daemon' = "idle"
  /\ shown' = machine
  /\ UNCHANGED <<bus, answer, gone, inbox, reply, subject, machine, effect, granted,
                 parted, order>>

(* The bus could not have it started.                                      *)
NotActivated ==
  /\ daemon = "down"
  /\ inbox # <<>>
  /\ inbox' = <<>>
  /\ answer' = NoReply
  /\ Forgets(Call)
  /\ UNCHANGED <<bus, gone, daemon, reply, subject, shown, machine, effect, order>>

Thread == TakeUp \/ Credentials \/ StartTime \/ Perform \/ Reply

Next ==
  \/ \E k \in Call : Send(k) \/ NotSent(k) \/ Timeout(k)
  \/ \E c \in Client : Leave(c)
  \/ Thread \/ Check
  \/ Crash \/ Start \/ NotActivated

(* The daemon's thread runs whenever it can; nobody has to answer polkit's *)
(* question, and nobody has to start the daemon.                           *)
Spec == Init /\ [][Next]_vars /\ WF_vars(Thread)

--------------------------------------------------------------------------------
(* Properties.                                                             *)

Answer == {"unasked", "waiting", "unheard"} \cup Status

TypeOK ==
  /\ bus \in {"system", "user"}
  /\ answer \in [Call -> Answer]
  /\ gone \subseteq Client
  /\ inbox \in Seq(Call)
  /\ daemon \in {"down", "idle", "credentials", "starttime", "check", "perform", "reply"}
  /\ reply \in DOMAIN StatusNamed
  /\ subject \in {"nobody", "sender", "stranger"}
  /\ shown \in [Readback -> Call \cup {Nobody}]
  /\ machine \in [Readback -> Call \cup {Nobody}]
  /\ effect \in [Call -> Outcome \cup {"none", "cut"}]
  /\ granted \in [Call -> {"nobody", "sender", "stranger"}]
  /\ orphaned \subseteq Call /\ lapsed \subseteq Call
  /\ older \in [Writes -> SUBSET Writes]
  /\ turn \in [Call -> Nat] /\ turns \in Nat

Performed == {k \in Call : effect[k] # "none"}

(* profile apply (cmd-profile.c) makes three calls without a transaction   *)
(* around them.  What it leaves behind, whatever timed out, crashed or was *)
(* killed, is a prefix of the document, of which only the last part may    *)
(* have ended badly; and a part the process was told is in place is.       *)
AppliedInOrder ==
  \A j, k \in Call : j[1] = k[1] /\ j[2] < k[2] /\ k \in Performed =>
    effect[j] = IF MethodOf(j) = "get-state" THEN "none" ELSE "OK"

(* authorize_method and polkit_check_authorization: on the system bus the  *)
(* daemon carries out only what polkit allowed for that very message, and  *)
(* nothing for a process that had left when its pid was asked for, as one  *)
(* that gave up during someone else's password prompt has.  The pid is     *)
(* looked up in /proc later: polkit's answer can be about a process that   *)
(* has got the sender's number, but only where the sender left between the *)
(* two.                                                                    *)
OnlyGranted ==
  [][bus = "system" => \A k \in Performed' \ Performed :
       /\ granted[k] # "nobody"
       /\ k \notin orphaned
       /\ granted[k] = "stranger" => k \in lapsed]_vars

(* One thread, one queue: a call that was given up and is carried out late *)
(* never overtakes, and never undoes, one that was made after it.          *)
NoOvertaking ==
  \A j, k \in Performed : j \in older[k] => turn[j] < turn[k]

(* What GetState would show of a setting is the value of the newest call a *)
(* process was told had succeeded, or of a later one, restarts included.   *)
CacheIsRecent ==
  daemon # "down" =>
    \A k \in Call : answer[k] = "OK" /\ MethodOf(k) \in Readback =>
      turn[k] <= Rank(shown[MethodOf(k)])

(* The messages that reached the daemon all leave its queue on the user    *)
(* bus, where no question is asked: no path through the daemon hangs.  On  *)
(* the system bus an unanswered prompt stops the queue.                    *)
UserBusServed ==
  bus = "user" /\ inbox # <<>> ~> inbox = <<>>

(* The errors a process can rely on are all but IO, which stands for every *)
(* failure of the bus, too.  A read has no effect to agree with.           *)
Effect == [k \in Call |-> IF effect[k] = "BUFFER_TOO_SMALL" THEN "IO" ELSE effect[k]]

Calls == INSTANCE RemoteCall WITH
  Call     <- Writes,
  Outcome  <- (Outcome \ {"BUFFER_TOO_SMALL"}) \cup {"IO"},
  Definite <- Failure \ {"IO"},
  answer   <- [k \in Writes |-> answer[k]],
  effect   <- [k \in Writes |-> Effect[k]]

(* Every call means to its process what RemoteCall says: carried out at    *)
(* most once, and settled by OK and by every error but IO.                 *)
ImplementsCalls == Calls!Spec

================================================================================
