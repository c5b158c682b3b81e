------------------------------- MODULE Commands -------------------------------
(***************************************************************************)
(* How the measurement application carries out commands.  The callback of  *)
(* an incoming message starts a detached thread with a pointer to its own  *)
(* local copy of the command.  The thread runs the command, publishes the  *)
(* exit status, reads the results from the database and publishes them.    *)
(* The parameters of every publish are one global variable, msg, whose     *)
(* payload points to a buffer of the thread that assigned it last.         *)
(*                                                                         *)
(* The MQTT client, the shell and the database server are external.        *)
(***************************************************************************)
EXTENDS Naturals, Sequences, FiniteSets

CONSTANTS
  Command,       \* commands; the thread started for a command has its name
  Main,          \* the thread that yields
  ShadowRun,     \* the shadow thread
  Nothing

ASSUME CommandAssumption == 
  {Main, ShadowRun, Nothing} \cap Command = {} /\ Nothing \notin {Main, ShadowRun}

VARIABLES
  worker,        \* where the thread of a command is
  settings,      \* receivedSettings in the last callback frame of a thread
  from,          \* the thread whose callback started the thread
  job,           \* the command a thread has read from its settings
  payload,       \* cPayload of a thread: the text in it
  msg,           \* msg.payload: whose buffer; msg.payloadLen: of which text
  published,     \* what a thread has sent
  alone,         \* no other thread has used msg at the same time
  crashed        \* the process has ended

commandVars == <<worker, settings, from, job, payload, msg, published, alone, crashed>>

Threads == Command \cup {Main, ShadowRun}

\* Between the assignment of msg and the last publish.
Busy(c) == worker[c] \in {"running", "exitstatus", "query", "select", "data"}

\* A thread in a publish; messages may be delivered to it there.
Publishing(t) == t \in Command /\ worker[t] \in {"exitstatus", "data"}

\* The results of a failed query are an empty list, which is published too.
Text(kind, c) == [kind |-> kind, job |-> c]

At(c, place) == ~crashed /\ worker[c] = place
Goto(c, place) == worker' = [worker EXCEPT ![c] = place]

\* iot_subscribe_callback_handler, in a yield of the main thread, while a
\* worker waits in a publish, or the shadow thread in a request of its own.
SubscribeCallback(c, t) ==
  /\ At(c, "none")
  /\ t \in {Main, ShadowRun} \/ Publishing(t)
  /\ settings' = [settings EXCEPT ![t] = c]
  /\ from' = [from EXCEPT ![c] = t]
  /\ Goto(c, "started")
  /\ UNCHANGED <<job, payload, msg, published, alone, crashed>>

\* The callback has returned and its frame is used for something else.
FrameReused(t) ==
  /\ ~crashed
  /\ settings[t] # Nothing
  /\ settings' = [settings EXCEPT ![t] = Nothing]
  /\ UNCHANGED <<worker, from, job, payload, msg, published, alone, crashed>>

\* The start of runCommand: the settings are read through the pointer and
\* parsed, and msg is assigned.  What is not there any more does not parse;
\* the exception of the missing key ends the process.
ReadSettings(c) ==
  /\ At(c, "started")
  /\ \/ /\ settings[from[c]] # Nothing
        /\ job' = [job EXCEPT ![c] = settings[from[c]]]
        /\ msg' = [msg EXCEPT !.buffer = c]
        /\ alone' = [d \in Command |-> alone[d] /\ (d = c => \A e \in Command : ~Busy(e))
                                                /\ ~Busy(d)]
        /\ Goto(c, "running")
        /\ UNCHANGED crashed
     \/ /\ settings[from[c]] = Nothing
        /\ crashed' = TRUE
        /\ UNCHANGED <<worker, job, msg, alone>>
  /\ UNCHANGED <<settings, from, payload, published>>

\* Write a text and its length for the next publish.
Prepare(c, text) ==
  /\ payload' = [payload EXCEPT ![c] = text]
  /\ msg' = [msg EXCEPT !.length = text]

\* system(command) returns.
CommandReturns(c) ==
  /\ At(c, "running")
  /\ Prepare(c, Text("exitstatus", job[c]))
  /\ Goto(c, "exitstatus")
  /\ UNCHANGED <<settings, from, job, published, alone, crashed>>

\* What c sends on a topic: own when it is its text for the topic, complete.
Message(c, topic) ==
  [topic |-> topic,
   own   |-> payload[msg.buffer] = Text(topic, job[c]) /\ msg.length = Text(topic, job[c])]

\* Mutant: the result of a repeated publish is not assigned.
PublishRepeats(c, rc) ==
  /\ ~crashed /\ Publishing(c)
  /\ published' = [published EXCEPT ![c] = @ \cup {Message(c, worker[c])}]
  /\ IF rc = "SUCCESS" /\ \A m \in published[c] : m.topic # worker[c]
     THEN Goto(c, IF worker[c] = "data" THEN "done" ELSE "query")
     ELSE UNCHANGED worker
  /\ UNCHANGED <<settings, payload, from, job, msg, alone, crashed>>

\* aws_iot_mqtt_publish: the message that msg describes now is sent, and
\* acknowledged in time or not.  A publish that fails is repeated.  (One that
\* fails before anything is sent changes nothing.)
PublishReturns(c, rc) ==
  /\ ~crashed /\ Publishing(c)
  /\ published' = [published EXCEPT ![c] = @ \cup {Message(c, worker[c])}]
  /\ \/ /\ rc = "SUCCESS" /\ worker[c] = "exitstatus"
        /\ Goto(c, "query")
        /\ UNCHANGED <<settings, payload>>
     \/ /\ rc = "SUCCESS" /\ worker[c] = "data"
        /\ Goto(c, "done")      \* its stack is gone
        /\ settings' = [settings EXCEPT ![c] = Nothing]
        /\ payload' = [payload EXCEPT ![c] = Nothing]
     \/ /\ rc # "SUCCESS"
        /\ UNCHANGED <<worker, settings, payload>>
  /\ UNCHANGED <<from, job, msg, alone, crashed>>

\* Mutant: the length of the first publish is used for the second.
SelectReturnsNoLength(c) ==
  /\ At(c, "select")
  /\ payload' = [payload EXCEPT ![c] = Text("data", job[c])]
  /\ Goto(c, "data")
  /\ UNCHANGED <<settings, from, job, msg, published, alone, crashed>>

\* What happens when c uses the database handler while another thread is at
\* one of the places: the process may end.
MayCollide(c, places) ==
  \/ UNCHANGED crashed
  \/ (\E d \in Command \ {c} : worker[d] \in places) /\ crashed' = TRUE

\* getInstance, setDBParameters, and select up to its connection.  The
\* parameters are strings of the one handler, which every thread assigns.
Select(c) ==
  /\ At(c, "query")
  /\ Goto(c, "select")
  /\ MayCollide(c, {"query", "select"})
  /\ UNCHANGED <<settings, from, job, payload, msg, published, alone>>

\* select returns the rows.  Its end unloads the MySQL library, which other
\* threads may be using.
SelectReturns(c) ==
  /\ At(c, "select")
  /\ Prepare(c, Text("data", job[c]))
  /\ Goto(c, "data")
  /\ MayCollide(c, {"select"})
  /\ UNCHANGED <<settings, from, job, published, alone>>

CommandInit ==
  /\ worker = [c \in Command |-> "none"]
  /\ settings = [t \in Threads |-> Nothing]
  /\ from = [c \in Command |-> Nothing]
  /\ job = [c \in Command |-> Nothing]
  /\ payload = [c \in Command |-> Nothing]
  /\ msg = [buffer |-> Nothing, length |-> Nothing]
  /\ published = [c \in Command |-> {}]
  /\ alone = [c \in Command |-> TRUE]
  /\ crashed = FALSE

WorkerStep(c) ==
  \/ ReadSettings(c) \/ CommandReturns(c) \/ Select(c) \/ SelectReturns(c)
  \/ \E rc \in {"SUCCESS", "FAILURE"} : PublishReturns(c, rc)

-----------------------------------------------------------------------------
(* Properties.                                                             *)

\* A thread that ran while no other used msg has sent its own exit status and
\* its own results, each on its topic, when it ends, and nothing else before.
AloneReportsOwn ==
  \A c \in Command : alone[c] /\ job[c] # Nothing =>
    /\ \A m \in published[c] : m.own
    /\ worker[c] = "done" => {m.topic : m \in published[c]} = {"exitstatus", "data"}

\* Every command that was received is carried out to its end: again and again
\* there is a moment when none is under way, unless the process has ended.
EveryCommandEnds == []<>(crashed \/ \A c \in Command : worker[c] \in {"none", "done"})
=============================================================================
