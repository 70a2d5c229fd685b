---------------------------- MODULE ServerProofs ----------------------------
(***************************************************************************)
(* The invariant of the web server, and with it that its answers are       *)
(* right, that the linear server leaks nothing and that both stay up.      *)
(*                                                                         *)
(* A step of the model is first brought into one of the forms below        *)
(* (StepKinds): the many ways in which the process that runs handle() can  *)
(* end are one, Death, with its reasons.  Then there is a lemma for each   *)
(* part of the invariant, in the order in which the parts need each other. *)
(***************************************************************************)
EXTENDS ServerInvariant, FiniteSetTheorems, TLAPS

-----------------------------------------------------------------------------
(***************************************************************************)
(* What a step does, as far as the invariant is concerned                  *)
(***************************************************************************)

\* Only the client in hand changes, and only as one who is being read from.
ReadOn == client' = [client EXCEPT ![conn].read = @ + 1, ![conn].ready = FALSE]
ReadEnd == client' = [client EXCEPT ![conn].eof = TRUE, ![conn].ready = FALSE]

\* The process that runs handle() ends, for one of these reasons.
WholeRequest == job.lines # <<>> /\ job.lines[1].words = 3
ReadsOdd ==
  LET me == client[conn] IN
  /\ Handling /\ job.step = "read" /\ ~me.eof /\ me.read < Len(me.script)
  /\ me.script[me.read + 1].odd
Reason ==
  \/ job.step = "read" /\ conn = NoClient
  \/ ReadsOdd
  \/ job.step = "parse" /\ (~WholeRequest \/ BareHeaders # {})
  \/ job.step = "lookup" /\ (Free(Handler) < 3 \/ faults' = faults + 1)
  \/ job.step \in {"send", "list"} /\ client[conn].at = "gone"
  \/ job.step \in {"send", "list", "finish"} /\ job.stray
  \/ job.step = "list" /\ ~CanList(Revised(job.path))
  \/ damaged
Death ==
  /\ Dies /\ Active /\ Reason
  /\ UNCHANGED <<setup, conn, queue>> /\ faults' \in {faults, faults + 1} \cap 0..MaxFaults
  /\ client' = client \/ (ReadsOdd /\ ReadOn)

\* A line is kept or ends the request: a whole one, or what there was of one.
GetsWhole ==
  LET me == client[conn] IN
  /\ Handling /\ job.step = "read" /\ ~me.eof /\ me.read < Len(me.script)
  /\ ~me.script[me.read + 1].odd
  /\ ReadOn /\ Gets(me.script[me.read + 1])
  /\ UNCHANGED <<setup, conn, faults, queue>>
GetsEnd ==
  /\ Handling /\ job.step = "read" /\ client[conn].at # "here"
  /\ ReadEnd /\ \E l \in Lines : Gets(l)
  /\ UNCHANGED <<setup, conn, faults, queue>>

Parses ==
  /\ job.step = "parse"
  /\ \E keyOnly \in SUBSET BareHeaders : ParseHeaders(keyOnly)
  /\ \E path \in Seq(Names) :
       /\ WholeRequest => path = Target(job.lines[1].path)
       /\ job' = [job EXCEPT !.step = "lookup", !.path = path, !.stray = ~WholeRequest]
  /\ UNCHANGED <<setup, loop, conn, held, faults, queue, client>>

LooksUp ==
  LET kind == KindOf(Revised(job.path)) IN
  /\ job.step = "lookup"
  /\ \/ /\ kind \in {"text", "image"}
        /\ Goes("send", "document", {"content_type", "message_body"})
     \/ /\ kind \in {"text", "image"} => Free(Handler) <= 0
        /\ kind # "directory"
        /\ Goes("send", "not found", {"revised_path", "content_type", "message_body"})
     \/ /\ kind \in {"directory", "missing"}
        /\ Goes("list", "listing", {"revised_path"})
  /\ UNCHANGED <<setup, conn, faults, queue, client>>

\* An answer is sent and the blocks that it needed are freed.
Answers(freed) ==
  /\ job' = [job EXCEPT !.step = "finish"] /\ heap' = heap \ Mine(freed)
  /\ damaged' = (damaged \/ ~(Mine(freed) \subseteq heap))
  /\ \/ client' = client
     \/ \E complete \in Complete(job.answer) :
          client' = [client EXCEPT ![conn].got = Append(@,
              [answer |-> job.answer, file |-> Revised(job.path), complete |-> complete])]
  /\ UNCHANGED <<setup, loop, conn, held, faults, queue>>
Sends == job.step = "send" /\ Answers({"content_type", "message_body"})
Lists ==
  /\ job.step = "list" /\ CanList(Revised(job.path)) /\ Answers({"revised_path"})

Finishes ==
  /\ job.step = "finish"
  /\ \E null \in SUBSET (IF job.stray THEN RequestBlocks(3) \ heap ELSE {}) :
       damaged' = (damaged \/ ~(OwnBlocks \ null \subseteq heap))
  /\ heap' = heap \ OwnBlocks
  /\ held' = [held EXCEPT ![Handler] = IF setup.mode = "linear" THEN @ \ {conn} ELSE {}]
  /\ job' = IF setup.mode = "linear" THEN Idle ELSE [Idle EXCEPT !.step = "over"]
  /\ loop' = IF setup.mode = "linear" THEN "accept" ELSE loop
  /\ UNCHANGED <<setup, conn, faults, queue, client>>

ClientStep == \E c \in Clients : Connect(c) \/ SendLine(c) \/ Receive(c) \/ Stop(c)

Step ==
  \/ Start \/ Accept \/ Fork \/ Reap \/ GetsWhole \/ GetsEnd \/ Parses \/ LooksUp
  \/ Sends \/ Lists \/ Finishes \/ Death \/ Interrupt \/ ClientStep

USE ServerAssumption

\* A one-element sequence.
LEMMA Single == ASSUME NEW S, NEW x \in S PROVE <<x>> \in Seq(S)
OBVIOUS

\* A sequence with an element before it.
LEMMA Prefixed == ASSUME NEW S, NEW x \in S, NEW s \in Seq(S) PROVE <<x>> \o s \in Seq(S)
OBVIOUS

\* Lines, by their fields.
LEMMA LineTypes ==
  /\ EmptyLine \in Lines
  /\ \A l \in Lines : l.words \in 0..3 /\ l.odd \in BOOLEAN
       /\ l.path \in {NoPath} \cup Seq(Names) /\ (l.words = 3 => l.path \in Seq(Names))
BY DEF Lines, EmptyLine, Line

\* What is left of a line is a line.
LEMMA CutTypes == \A l \in Lines : CutLines(l) \subseteq Lines
<1> SUFFICES ASSUME NEW l \in Lines, NEW n \in 1..l.words
             PROVE  Line(n, IF n = 3 THEN l.path ELSE IF n = 2 THEN <<"stub">> ELSE NoPath)
                      \in Lines
  BY LineTypes DEF CutLines
<1>1. n \in 1..3 /\ (n = 3 => l.words = 3)
  BY LineTypes
<1>2. l.path \in {NoPath} \cup Seq(Names) /\ (n = 3 => l.path \in Seq(Names))
  BY <1>1, LineTypes DEF Lines
<1>3. CASE n = 3
  BY <1>1, <1>2, <1>3 DEF Lines, Line
<1>4. CASE n = 1
  BY <1>4 DEF Lines, Line
<1>5. CASE n = 2
  <2>1. <<"stub">> \in Seq(Names)
    BY Single DEF Names
  <2> QED
    BY <1>5, <2>1 DEF Lines, Line
<1> QED
  BY <1>1, <1>3, <1>4, <1>5

\* The paths of the scripts are paths: a NoPath among them is taken out.
LEMMA PathTypes == Paths \subseteq Seq(Names)
<1>1. ASSUME NEW c \in Clients, NEW s \in Scripts[c], NEW i \in DOMAIN s,
             s[i].path # NoPath
      PROVE  s[i].path \in Seq(Names)
  <2>1. s \in Seq(Lines)
    BY ScriptsAssumption
  <2> QED
    BY <1>1, <2>1, LineTypes
<1>2. ASSUME NEW p \in Paths
      PROVE  \E c \in Clients : \E s \in Scripts[c] : \E i \in DOMAIN s :
               p = s[i].path /\ p # NoPath
  <2>1. p # NoPath
    BY Zenon DEF Paths
  <2>2. PICK s \in UNION {Scripts[c] : c \in Clients} : p \in {s[i].path : i \in DOMAIN s}
    BY Zenon DEF Paths
  <2>3. PICK c \in Clients : s \in Scripts[c]
    BY <2>2
  <2>4. PICK i \in DOMAIN s : p = s[i].path
    BY <2>2
  <2> QED
    BY <2>1, <2>3, <2>4
<1> QED
  BY <1>1, <1>2

\* The target of a path is a path.
LEMMA TargetType == \A p \in Seq(Names) : Target(p) \in Seq(Names)
BY Single DEF Target, Names

\* The revised path is a path.
LEMMA RevisedType == \A p \in Seq(Names) : Revised(p) \in Seq(Names)
<1> SUFFICES ASSUME NEW p \in Seq(Names) PROVE Revised(p) \in Seq(Names)
  OBVIOUS
<1>1. "http-root-dir" \in Names /\ "htdocs" \in Names
  BY DEF Names
<1>2. CASE p # <<>> /\ p[1] \in {"icons", "htdocs"}
  BY <1>1, <1>2, Prefixed DEF Revised
<1>3. CASE ~(p # <<>> /\ p[1] \in {"icons", "htdocs"})
  <2>1. <<"htdocs">> \o p \in Seq(Names)
    BY <1>1, Prefixed
  <2> QED
    BY <1>1, <1>3, <2>1, Prefixed DEF Revised
<1> QED
  BY <1>2, <1>3

\* There is a next element while there is one left to read.
LEMMA NextLine ==
  ASSUME NEW S, NEW s \in Seq(S), NEW n \in Nat, n < Len(s)
  PROVE  s[n + 1] \in S
<1>1. n + 1 \in 1..Len(s)
  OBVIOUS
<1> QED
  BY <1>1

\* A process holds a number of descriptors.
LEMMA HandlerName == Types => Handler \in {"server", "child"}
BY DEF Handler

\* Descriptors are counted: a process holds at most one for each client.
LEMMA FreeNumber ==
  ASSUME Types, NEW process \in {"server", "child"}
  PROVE  /\ Cardinality(held[process]) \in Nat
         /\ Cardinality(held[process]) <= Cardinality(Clients)
         /\ setup.limit \in Nat /\ Cardinality(Clients) \in Nat
         /\ Free(process) \in Int
         /\ Free(process) = setup.limit - Cardinality(held[process])
<1>1. held[process] \subseteq Clients /\ setup.limit \in Nat
  BY DEF Types
<1>2. IsFiniteSet(held[process]) /\ Cardinality(held[process]) <= Cardinality(Clients)
  BY <1>1, FS_Subset
<1>3. Cardinality(held[process]) \in Nat /\ Cardinality(Clients) \in Nat
  BY <1>2, FS_CardinalityType
<1> QED
  BY <1>1, <1>2, <1>3 DEF Free

-----------------------------------------------------------------------------
(***************************************************************************)
(* Every action is one of these steps                                      *)
(***************************************************************************)

\* Past the reading of a request there is a connection.
LEMMA HandlingNow ==
  ASSUME Types, Places, job.step \in Steps \ {"read"}
  PROVE  Handling /\ conn \in Clients
BY DEF Types, Places, Handling, Active, Steps

\* A read keeps or ends a line, or ends the process.
LEMMA ReadKinds ==
  ASSUME Types, Places, ReadLine
  PROVE  GetsWhole \/ GetsEnd \/ Death
<1> DEFINE me == client[conn]
           more == ~me.eof /\ me.read < Len(me.script)
           next == me.script[me.read + 1]
<1>1. job.step = "read" /\ conn # NoClient /\ conn \in Clients /\ Active /\ Handling
  BY DEF ReadLine, Types, Active, Handling, Steps
<1>2. me \in ClientType
  BY <1>1 DEF Types
<1>3. more => next \in Lines
  BY <1>2, NextLine DEF ClientType
<1>4. UNCHANGED <<setup, conn, faults, queue>>
  BY DEF ReadLine
<1>5. CASE more /\ ReadOn /\ (IF next.odd THEN Dies ELSE Gets(next))
  <2>1. CASE next.odd
    BY <1>1, <1>4, <1>5, <2>1 DEF Death, ReadsOdd, Reason, Types
  <2>2. CASE ~next.odd
    BY <1>1, <1>4, <1>5, <2>2 DEF GetsWhole
  <2> QED
    BY <2>1, <2>2
<1>6. CASE /\ me.at # "here" /\ ReadEnd
           /\ \E l \in IF more THEN CutLines(next) ELSE {EmptyLine} : Gets(l)
  <2>1. (IF more THEN CutLines(next) ELSE {EmptyLine}) \subseteq Lines
    BY <1>3, CutTypes, LineTypes
  <2> HIDE DEF more, next
  <2>2. \E l \in Lines : Gets(l)
    BY <1>6, <2>1
  <2> QED
    BY <1>1, <1>4, <1>6, <2>2 DEF GetsEnd
<1> QED
  BY <1>5, <1>6 DEF ReadLine, ReadOn, ReadEnd

\* Parsing gives a request or ends the process.
LEMMA ParseKinds ==
  ASSUME Types, Places, Parse
  PROVE  Parses \/ Death
<1>1. job.step = "parse" /\ Handling /\ Active
  BY HandlingNow DEF Parse, Steps, Handling
<1>2. UNCHANGED <<setup, conn, faults, queue, client>>
  BY DEF Parse
<1>3. CASE (~WholeRequest \/ BareHeaders # {}) /\ Dies
  BY <1>1, <1>2, <1>3 DEF Death, Reason, Types
<1>4. ASSUME NEW keyOnly \in SUBSET BareHeaders, ParseHeaders(keyOnly),
             NEW path \in IF WholeRequest THEN {job.lines[1].path} ELSE Paths,
             job' = [job EXCEPT !.step = "lookup", !.path = Target(path), !.stray = ~WholeRequest],
             UNCHANGED <<held, loop>>
      PROVE  Parses
  <2>1. job.lines \in Seq(Lines)
    BY DEF Types, JobType
  <2>2. WholeRequest => job.lines[1] \in Lines /\ job.lines[1].words = 3
    BY <2>1 DEF WholeRequest
  <2>3. path \in Seq(Names) /\ (WholeRequest => path = job.lines[1].path)
    BY <2>2, LineTypes, PathTypes
  <2>4. Target(path) \in Seq(Names) /\ (WholeRequest => Target(path) = Target(job.lines[1].path))
    BY <2>3, TargetType
  <2> QED
    BY <1>1, <1>2, <1>4, <2>4 DEF Parses
<1> QED
  BY <1>3, <1>4, Zenon DEF Parse, WholeRequest

\* Looking a document up decides on an answer or ends the process.
LEMMA LookupKinds ==
  ASSUME Types, Places, Lookup
  PROVE  LooksUp \/ Death
<1>1. job.step = "lookup" /\ Handling /\ Active
  BY HandlingNow DEF Lookup, Steps, Handling
<1>2. UNCHANGED <<setup, conn, queue, client>>
  BY DEF Lookup
<1>3. faults \in 0..MaxFaults
  BY DEF Types
<1>4. CASE Dies /\ ContentTypeFails
  BY <1>1, <1>2, <1>3, <1>4 DEF Death, Reason, ContentTypeFails, Fails
<1>5. Free(Handler) \in Int
  BY HandlerName, FreeNumber
<1> DEFINE kind == KindOf(Revised(job.path))
           opened == kind \in {"text", "image"} /\ Free(Handler) > 0
<1>6. CASE UNCHANGED faults /\ kind \in {"text", "image"} /\
           Goes("send", "document", {"content_type", "message_body"})
  BY <1>1, <1>2, <1>6 DEF LooksUp
<1>7. CASE UNCHANGED faults /\ ~opened /\ kind # "directory" /\
           Goes("send", "not found", {"revised_path", "content_type", "message_body"})
  <2>1. kind \in {"text", "image"} => Free(Handler) <= 0
    <3>1. ~(kind \in {"text", "image"} /\ Free(Handler) > 0)
      BY <1>7, Zenon
    <3> HIDE DEF kind
    <3>2. ~(Free(Handler) > 0) => Free(Handler) <= 0
      BY <1>5
    <3> QED
      BY <3>1, <3>2
  <2> QED
    BY <1>1, <1>2, <1>7, <2>1, Zenon DEF LooksUp
<1>8. CASE UNCHANGED faults /\ kind \in {"directory", "missing"} /\
           Goes("list", "listing", {"revised_path"})
  BY <1>1, <1>2, <1>8 DEF LooksUp
<1> HIDE DEF kind
<1> QED
  BY <1>4, <1>6, <1>7, <1>8 DEF Lookup, kind

\* An answer is sent and its blocks freed, or the process ends.
LEMMA AnswerKinds ==
  ASSUME Types, Places, NEW freed, Active, job.step \in {"send", "list"},
         Delivers("finish", freed),
         UNCHANGED <<setup, conn, faults, queue>>
  PROVE  Answers(freed) \/ Death
<1>1. CASE (client[conn].at = "gone" \/ job.stray) /\ Dies /\ UNCHANGED client
  BY <1>1 DEF Death, Reason, Types
<1>2. CASE ~((client[conn].at = "gone" \/ job.stray) /\ Dies /\ UNCHANGED client)
  BY <1>2 DEF Delivers, Answers
<1> QED
  BY <1>1, <1>2

\* handle() frees what it owns, or ends the process with a pointer that was never set.
LEMMA FinishKinds ==
  ASSUME Types, Places, Finish
  PROVE  Finishes \/ Death
<1>1. job.step = "finish" /\ Active
  BY DEF Finish, Active, Steps
<1>2. UNCHANGED <<setup, conn, faults, queue, client>>
  BY DEF Finish
<1>3. CASE job.stray /\ Dies
  BY <1>1, <1>2, <1>3 DEF Death, Reason, Types, Finish
<1>4. CASE ~(job.stray /\ Dies)
  BY <1>1, <1>2, <1>4 DEF Finish, Finishes
<1> QED
  BY <1>3, <1>4

\* Every step is one of these, of which one is a process that ends.
LEMMA StepKinds == Types /\ Places /\ Next => Step
<1> SUFFICES ASSUME Types, Places, Next PROVE Step
  OBVIOUS
<1>1. CASE Start \/ Accept \/ Fork \/ Reap \/ Interrupt
  BY <1>1 DEF Step
<1>2. CASE ReadLine
  BY <1>2, ReadKinds DEF Step
<1>3. CASE ReadNothing
  BY <1>3 DEF ReadNothing, Death, Reason, Step, Active, Steps, Types
<1>4. CASE Parse
  BY <1>4, ParseKinds DEF Step
<1>5. CASE Lookup
  BY <1>5, LookupKinds DEF Step
<1>6. CASE Send
  <2>1. Active /\ UNCHANGED <<setup, conn, faults, queue>> /\ job.step = "send"
        /\ Delivers("finish", {"content_type", "message_body"})
    BY <1>6 DEF Send, Active, Steps
  <2> QED
    BY <2>1, AnswerKinds DEF Step, Sends
<1>7. CASE List
  <2>1. Active /\ UNCHANGED <<setup, conn, faults, queue>> /\ job.step = "list"
    BY <1>7 DEF List, Active, Steps
  <2>2. CASE CanList(Revised(job.path)) /\ Delivers("finish", {"revised_path"})
    BY <2>1, <2>2, AnswerKinds DEF Step, Lists
  <2>3. CASE ~CanList(Revised(job.path)) /\ Dies /\ UNCHANGED client
    BY <2>1, <2>3 DEF Death, Reason, Step, Types
  <2> QED
    BY <1>7, <2>2, <2>3 DEF List, AfterListing
<1>8. CASE Finish
  BY <1>8, FinishKinds DEF Step
<1>9. CASE Aborts
  BY <1>9 DEF Aborts, Death, Reason, Step, Active, Steps, Types, JobType
<1>10. CASE \E c \in Clients : Connect(c) \/ SendLine(c) \/ Receive(c) \/ Stop(c)
  BY <1>10 DEF ClientStep, Step
<1> QED
  BY <1>1, <1>2, <1>3, <1>4, <1>5, <1>6, <1>7, <1>8, <1>9, <1>10 DEF Next, ServerStep

-----------------------------------------------------------------------------
(***************************************************************************)
(* Types                                                                   *)
(***************************************************************************)

\* The fields of the call in progress.
LEMMA JobFields ==
  ASSUME Types
  PROVE  /\ job \in JobType /\ job.lines \in Seq(Lines) /\ Len(job.lines) \in Nat
         /\ job.path \in {NoPath} \cup Seq(Names) /\ job.stray \in BOOLEAN
         /\ job.answer \in {"none", "document", "listing", "not found"}
         /\ \A i \in DOMAIN job.lines : job.lines[i] \in Lines
<1>1. job \in JobType
  BY DEF Types
<1>2. job.lines \in Seq(Lines)
  BY <1>1 DEF JobType
<1>3. \A i \in DOMAIN job.lines : job.lines[i] \in Lines
  BY <1>2
<1>4. Len(job.lines) \in Nat
  BY <1>2
<1> QED
  BY <1>1, <1>2, <1>3, <1>4 DEF JobType

\* The values of no call in progress.
LEMMA IdleTypes ==
  /\ Idle \in JobType
  /\ \A step \in Steps \cup {"over"} : [Idle EXCEPT !.step = step] \in JobType
<1>1. <<>> \in Seq(Lines)
  OBVIOUS
<1>2. Idle \in JobType
  BY <1>1 DEF JobType, Idle
<1>3. \A r \in JobType : \A step \in Steps \cup {"over"} : [r EXCEPT !.step = step] \in JobType
  BY DEF JobType
<1> QED
  BY <1>2, <1>3

\* The changes that steps make to the call in progress.
LEMMA JobChange ==
  ASSUME Types
  PROVE  /\ \A step \in Steps : [job EXCEPT !.step = step] \in JobType
         /\ \A l \in Lines : [job EXCEPT !.lines = Append(@, l)] \in JobType
<1>1. job \in JobType /\ job.lines \in Seq(Lines)
  BY JobFields
<1>2. \A l \in Lines : Append(job.lines, l) \in Seq(Lines)
  BY <1>1
<1> QED
  BY <1>1, <1>2 DEF JobType

\* The fields of a client.
LEMMA ClientFields ==
  ASSUME Types, NEW c \in Clients
  PROVE  /\ client[c] \in ClientType /\ client[c].script \in Seq(Lines)
         /\ client[c].read \in Nat /\ client[c].eof \in BOOLEAN /\ client[c].ready \in BOOLEAN
         /\ client[c].at \in {"away", "here", "half", "gone"}
         /\ client[c].got \in Seq([answer : {"document", "listing", "not found"},
                                   file : Seq(Names), complete : BOOLEAN])
         /\ client[c].script \in Scripts[c]
<1>1. client[c] \in ClientType /\ client[c].script \in Scripts[c]
  BY DEF Types
<1> QED
  BY <1>1 DEF ClientType

\* The clients as they are after one of them changed.
Updated(c, cl) == client' = [client EXCEPT ![c] = cl]
\* A changed client keeps its script.
LEMMA ClientChange ==
  ASSUME Types, NEW c \in Clients, NEW cl \in ClientType, cl.script = client[c].script,
         Updated(c, cl)
  PROVE  /\ client' \in [Clients -> ClientType]
         /\ \A d \in Clients : client'[d].script \in Scripts[d]
<1>1. client \in [Clients -> ClientType] /\ \A d \in Clients : client[d].script \in Scripts[d]
  BY DEF Types
<1> QED
  BY <1>1 DEF Updated

\* A line read leaves the clients well typed.
LEMMA ReadOnTypes ==
  ASSUME Types, conn \in Clients, ReadOn
  PROVE  /\ client' \in [Clients -> ClientType]
         /\ \A d \in Clients : client'[d].script \in Scripts[d]
<1>0. client \in [Clients -> ClientType]
  BY DEF Types
<1> DEFINE me == client[conn]
           cl == [me EXCEPT !.read = @ + 1, !.ready = FALSE]
<1>1. Updated(conn, cl)
  BY <1>0 DEF Updated, ReadOn
<1>2. cl \in ClientType /\ cl.script = me.script
  <2>1. me \in ClientType /\ me.read + 1 \in Nat
    <3>1. me \in ClientType /\ me.read \in Nat
      BY ClientFields, Zenon
    <3> QED
      BY <3>1
  <2>2. \A n \in Nat : \A b \in BOOLEAN : 
          /\ [me EXCEPT !.read = n, !.ready = b] \in ClientType
          /\ [me EXCEPT !.read = n, !.ready = b].script = me.script
    BY <2>1 DEF ClientType
  <2> QED
    BY <2>1, <2>2
<1> HIDE DEF cl
<1> QED
  BY <1>1, <1>2, ClientChange

\* So does the end of the input.
LEMMA ReadEndTypes ==
  ASSUME Types, conn \in Clients, ReadEnd
  PROVE  /\ client' \in [Clients -> ClientType]
         /\ \A d \in Clients : client'[d].script \in Scripts[d]
<1>0. client \in [Clients -> ClientType]
  BY DEF Types
<1> DEFINE me == client[conn]
           cl == [me EXCEPT !.eof = TRUE, !.ready = FALSE]
<1>1. Updated(conn, cl)
  BY <1>0 DEF Updated, ReadEnd
<1>2. cl \in ClientType /\ cl.script = me.script
  <2>1. me \in ClientType
    BY ClientFields, Zenon
  <2> QED
    BY <2>1 DEF ClientType
<1> HIDE DEF cl
<1> QED
  BY <1>1, <1>2, ClientChange

Blocks == Clients \X BlockNames \X Nat

\* Blocks of the connection in hand, by name.
LEMMA MineTypes ==
  ASSUME conn \in Clients, NEW names \in SUBSET BlockNames
  PROVE  Mine(names) \subseteq Blocks
BY DEF Mine, Blocks

\* And by index.
LEMMA MinesTypes ==
  ASSUME conn \in Clients, NEW name \in BlockNames, NEW indices \in SUBSET Nat
  PROVE  Mines(name, indices) \subseteq Blocks
BY DEF Mines, Blocks

\* And those of the request line.
LEMMA RequestTypes ==
  ASSUME conn \in Clients, NEW n \in 0..3
  PROVE  RequestBlocks(n) \subseteq Blocks
<1>1. {<<"method", "raw_path", "http_version">>[i] : i \in 1..n} \subseteq BlockNames
  BY DEF BlockNames
<1> QED
  BY <1>1, MineTypes DEF RequestBlocks

\* Types, step by step: the server starts.
LEMMA TypesStart == Types /\ Start => Types'
<1> SUFFICES ASSUME Types, Start PROVE Types'
  OBVIOUS
<1>1. UNCHANGED <<conn, held, job, heap, damaged, queue, client>> /\ loop' \in {"ended", "accept"}
  BY DEF Start
<1>2. setup' \in [mode : Modes, limit : Limits, listening : BOOLEAN, bound : BOOLEAN]
  BY DEF Start, Types
<1>3. faults' \in 0..MaxFaults
  BY DEF Start, Types, Fails
<1> QED
  BY <1>1, <1>2, <1>3 DEF Types

\* A connection is accepted, or NULL is.
LEMMA TypesAccept == Types /\ Accept => Types'
<1> SUFFICES ASSUME Types, Accept PROVE Types'
  OBVIOUS
<1>1. UNCHANGED <<setup, damaged, faults, client>> /\ loop' \in {"handle", "fork"}
  BY DEF Accept
<1>2. job' \in JobType
  BY JobFields, IdleTypes DEF Accept, Steps
<1>3. /\ conn' \in Clients \cup {NoClient} /\ queue' \in Seq(Clients)
      /\ held' \in [{"server", "child"} -> SUBSET Clients]
      /\ heap' \subseteq Clients \X BlockNames \X Nat
  <2>1. CASE /\ setup.listening /\ Free("server") > 0 /\ queue # <<>>
             /\ conn' = Head(queue) /\ queue' = Tail(queue)
             /\ held' = [held EXCEPT !["server"] = @ \cup {conn'}]
             /\ heap' = heap \cup {<<conn', "sock", 0>>}
    <3>1. conn' \in Clients /\ queue' \in Seq(Clients)
      BY <2>1 DEF Types
    <3>2. held' \in [{"server", "child"} -> SUBSET Clients]
      BY <2>1, <3>1 DEF Types
    <3>3. <<conn', "sock", 0>> \in Clients \X BlockNames \X Nat
      BY <3>1 DEF BlockNames
    <3> QED
      BY <2>1, <3>1, <3>2, <3>3 DEF Types
  <2>2. CASE conn' = NoClient /\ UNCHANGED <<queue, held, heap>>
    BY <2>2 DEF Types
  <2> QED
    BY <2>1, <2>2 DEF Accept
<1> QED
  BY <1>1, <1>2, <1>3 DEF Types

\* A child is forked.
LEMMA TypesFork == Types /\ Fork => Types'
<1> SUFFICES ASSUME Types, Fork PROVE Types'
  OBVIOUS
<1>1. UNCHANGED <<setup, conn, heap, damaged, queue, client>> /\ loop' \in {"wait", "accept"}
  BY DEF Fork
<1>2. job' \in JobType
  BY JobFields, IdleTypes DEF Fork, Steps
<1>3. faults' \in 0..MaxFaults
  BY DEF Fork, Types, Fails
<1>4. held' \in [{"server", "child"} -> SUBSET Clients]
  BY DEF Fork, Types
<1> QED
  BY <1>1, <1>2, <1>3, <1>4 DEF Types

\* A child is waited for.
LEMMA TypesReap == Types /\ Reap => Types'
<1> SUFFICES ASSUME Types, Reap PROVE Types'
  OBVIOUS
<1>1. UNCHANGED <<setup, conn, held, faults, queue, client>> /\ loop' = "accept"
      /\ damaged' = FALSE
  BY DEF Reap
<1>2. job' \in JobType
  BY IdleTypes DEF Reap
<1>3. heap' \subseteq Clients \X BlockNames \X Nat
  BY DEF Reap, Types, BlockNames
<1> QED
  BY <1>1, <1>2, <1>3 DEF Types

\* A line is kept or ends the request.
LEMMA GetsTypes ==
  ASSUME Types, conn \in Clients, NEW l \in Lines, Gets(l)
  PROVE  /\ job' \in JobType
         /\ heap' \subseteq Clients \X BlockNames \X Nat
         /\ UNCHANGED <<held, loop, damaged>>
<1>1. job' \in JobType
  BY JobChange DEF Gets, Steps
<1>2. Mine({"general_lines"}) \subseteq Blocks /\ Mine({"buffer"}) \subseteq Blocks
  BY MineTypes DEF BlockNames
<1>3. Len(job.lines) + 1 \in Nat
  <2>1. Len(job.lines) \in Nat
    BY JobFields
  <2> QED
    BY <2>1
<1>4. Mines("line", {Len(job.lines) + 1}) \subseteq Blocks
  BY <1>3, MinesTypes DEF BlockNames
<1> QED
  BY <1>1, <1>2, <1>4 DEF Gets, Types, Blocks

\* A whole line is read.
LEMMA TypesGetsWhole == Types /\ GetsWhole => Types'
<1> SUFFICES ASSUME Types, GetsWhole PROVE Types'
  OBVIOUS
<1>1. conn \in Clients
  BY DEF GetsWhole, Handling, Types
<1> DEFINE l == client[conn].script[client[conn].read + 1]
<1>2. client[conn] \in ClientType
  BY <1>1 DEF Types
<1>3. l \in Lines
  BY <1>2, NextLine DEF GetsWhole, ClientType
<1>4. Gets(l)
  BY DEF GetsWhole
<1> HIDE DEF l
<1>5. UNCHANGED <<setup, conn, faults, queue>>
  BY DEF GetsWhole
<1>6. ReadOn
  BY DEF GetsWhole
<1>7. /\ client' \in [Clients -> ClientType]
      /\ \A c \in Clients : client'[c].script \in Scripts[c]
  BY <1>1, <1>6, ReadOnTypes
<1> QED
  BY <1>1, <1>3, <1>4, <1>5, <1>7, GetsTypes DEF Types

\* The end of the input is read.
LEMMA TypesGetsEnd == Types /\ GetsEnd => Types'
<1> SUFFICES ASSUME Types, GetsEnd PROVE Types'
  OBVIOUS
<1>1. conn \in Clients
  BY DEF GetsEnd, Handling, Types
<1>2. PICK l \in Lines : Gets(l)
  BY DEF GetsEnd
<1>3. UNCHANGED <<setup, conn, faults, queue>> /\ ReadEnd
  BY DEF GetsEnd
<1>4. /\ client' \in [Clients -> ClientType]
      /\ \A c \in Clients : client'[c].script \in Scripts[c]
  BY <1>1, <1>3, ReadEndTypes
<1> QED
  BY <1>1, <1>2, <1>3, <1>4, GetsTypes DEF Types

\* Headers are counted from 2.
LEMMA BareTypes ==
  ASSUME Types PROVE BareHeaders \subseteq Nat /\ 2..Len(job.lines) \subseteq Nat
<1>1. Len(job.lines) \in Nat
  BY JobFields
<1> QED
  BY <1>1 DEF BareHeaders

\* The lines are parsed.
LEMMA TypesParses == Types /\ Places /\ Parses => Types'
<1> SUFFICES ASSUME Types, Places, Parses PROVE Types'
  OBVIOUS
<1>1. conn \in Clients
  BY HandlingNow DEF Parses, Steps
<1>2. UNCHANGED <<setup, loop, conn, held, faults, queue, client>>
  BY DEF Parses
<1>3. job' \in JobType
  BY DEF Parses, Types, JobType, Steps, WholeRequest
<1>4. PICK keyOnly \in SUBSET BareHeaders : ParseHeaders(keyOnly)
  BY DEF Parses
<1>5. keyOnly \in SUBSET Nat /\ (2..Len(job.lines)) \ keyOnly \in SUBSET Nat
  BY <1>4, BareTypes
<1>6. Mines("header", (2..Len(job.lines)) \ keyOnly) \subseteq Blocks
      /\ Mines("key", keyOnly) \subseteq Blocks
  BY <1>1, <1>5, MinesTypes DEF BlockNames
<1>7. Mine({"header_array"}) \subseteq Blocks
  BY <1>1, MineTypes DEF BlockNames
<1>8. RequestBlocks(IF job.lines = <<>> THEN 0 ELSE job.lines[1].words) \subseteq Blocks
  <2>1. job.lines # <<>> => job.lines[1] \in Lines
    <3>1. job.lines \in Seq(Lines)
      BY JobFields
    <3> QED
      BY <3>1
  <2>2. (IF job.lines = <<>> THEN 0 ELSE job.lines[1].words) \in 0..3
    BY <2>1, LineTypes
  <2> QED
    BY <1>1, <2>2, RequestTypes
<1>9. heap' \subseteq Clients \X BlockNames \X Nat
  BY <1>4, <1>6, <1>7, <1>8 DEF ParseHeaders, Types, Blocks
<1>10. damaged' \in BOOLEAN
  BY <1>4 DEF ParseHeaders
<1> QED
  BY <1>2, <1>3, <1>9, <1>10 DEF Types

\* The document is looked up.
LEMMA TypesLooksUp == Types /\ Places /\ LooksUp => Types'
<1> SUFFICES ASSUME Types, Places, LooksUp PROVE Types'
  OBVIOUS
<1>1. conn \in Clients
  BY HandlingNow DEF LooksUp, Steps
<1>2. UNCHANGED <<setup, conn, faults, queue, client>>
  BY DEF LooksUp
<1>3. ASSUME NEW step \in {"send", "list"}, NEW answer \in {"document", "not found", "listing"},
             NEW blocks \in SUBSET BlockNames, Goes(step, answer, blocks)
      PROVE  Types'
  <2>1. job' \in JobType
    BY <1>3 DEF Goes, Types, JobType, Steps
  <2>2. heap' \subseteq Clients \X BlockNames \X Nat
    BY <1>1, <1>3, MineTypes DEF Goes, Types, Blocks
  <2> QED
    BY <1>2, <1>3, <2>1, <2>2 DEF Types, Goes
<1>4. /\ {"content_type", "message_body"} \in SUBSET BlockNames
      /\ {"revised_path", "content_type", "message_body"} \in SUBSET BlockNames
      /\ {"revised_path"} \in SUBSET BlockNames
  BY DEF BlockNames
<1> QED
  BY <1>3, <1>4 DEF LooksUp

\* An answer is complete or it is not.
LEMMA CompleteType == \A answer : Complete(answer) \subseteq BOOLEAN
BY DEF Complete

\* An answer is sent.
LEMMA TypesAnswers ==
  ASSUME Types, Places, NEW freed, Answers(freed), job.step \in {"send", "list"},
         job.answer # "none"
  PROVE  Types'
<1>1. conn \in Clients
  BY HandlingNow DEF Steps
<1>2. UNCHANGED <<setup, loop, conn, held, faults, queue>>
  BY DEF Answers
<1>3. job' \in JobType
  BY DEF Answers, Types, JobType, Steps
<1>4. heap' \subseteq Clients \X BlockNames \X Nat /\ damaged' \in BOOLEAN
  BY DEF Answers, Types
<1>5. /\ client' \in [Clients -> ClientType]
      /\ \A c \in Clients : client'[c].script \in Scripts[c]
  <2>1. CASE client' = client
    BY <2>1 DEF Types
  <2>2. ASSUME NEW complete \in Complete(job.answer),
               client' = [client EXCEPT ![conn].got = Append(@,
                 [answer |-> job.answer, file |-> Revised(job.path), complete |-> complete])]
        PROVE  <1>5!:
    <3> DEFINE A == [answer : {"document", "listing", "not found"},
                     file : Seq(Names), complete : BOOLEAN]
               a == [answer |-> job.answer, file |-> Revised(job.path), complete |-> complete]
               cl == [client[conn] EXCEPT !.got = Append(@, a)]
    <3>1. Revised(job.path) \in Seq(Names)
      BY JobFields, RevisedType DEF Places
    <3>2. complete \in BOOLEAN
      BY CompleteType
    <3>3. job.answer \in {"document", "listing", "not found"}
      BY JobFields
    <3>4. a \in A
      BY <3>1, <3>2, <3>3
    <3>5. client[conn] \in ClientType /\ client[conn].got \in Seq(A)
      BY <1>1, ClientFields
    <3> HIDE DEF a, A
    <3>6. Append(client[conn].got, a) \in Seq(A)
      BY <3>4, <3>5
    <3>7. cl \in ClientType /\ cl.script = client[conn].script
      BY <3>5, <3>6 DEF ClientType, A
    <3>8. client \in [Clients -> ClientType]
      BY DEF Types
    <3>9. Updated(conn, cl)
      BY <2>2, <3>8 DEF Updated, a
    <3> HIDE DEF cl
    <3> QED
      BY <1>1, <3>7, <3>9, ClientChange
  <2> QED
    BY <2>1, <2>2 DEF Answers
<1> QED
  BY <1>2, <1>3, <1>4, <1>5 DEF Types

\* handle() returns.
LEMMA TypesFinishes == Types /\ Finishes => Types'
<1> SUFFICES ASSUME Types, Finishes PROVE Types'
  OBVIOUS
<1>1. UNCHANGED <<setup, conn, faults, queue, client>> /\ loop' \in {"accept", loop}
  BY DEF Finishes
<1>2. job' \in JobType
  BY IdleTypes DEF Finishes
<1>3. heap' \subseteq Clients \X BlockNames \X Nat
  BY DEF Finishes, Types
<1>4. damaged' \in BOOLEAN
  BY DEF Finishes
<1>5. held' \in [{"server", "child"} -> SUBSET Clients]
  BY DEF Finishes, Types
<1> QED
  BY <1>1, <1>2, <1>3, <1>4, <1>5 DEF Types

\* The process ends.
LEMMA TypesDeath == Types /\ Death => Types'
<1> SUFFICES ASSUME Types, Death PROVE Types'
  OBVIOUS
<1>1. UNCHANGED <<setup, conn, queue>> /\ loop' \in {"ended", loop} /\ faults' \in 0..MaxFaults
  BY DEF Death, Dies, AfterDeath
<1>2. job' \in JobType
  BY IdleTypes DEF Death, Dies
<1>3. heap' = {} /\ damaged' = FALSE
  BY DEF Death, Dies
<1>4. held' \in [{"server", "child"} -> SUBSET Clients]
  BY DEF Death, Dies, Types
<1>5. /\ client' \in [Clients -> ClientType]
      /\ \A c \in Clients : client'[c].script \in Scripts[c]
  <2>1. CASE client' = client
    BY <2>1 DEF Types
  <2>2. CASE ReadsOdd /\ ReadOn
    BY <2>2, ReadOnTypes DEF Types, ReadsOdd, Handling
  <2> QED
    BY <2>1, <2>2 DEF Death
<1> QED
  BY <1>1, <1>2, <1>3, <1>4, <1>5 DEF Types

\* Control-C.
LEMMA TypesInterrupt == Types /\ Interrupt => Types'
<1> SUFFICES ASSUME Types, Interrupt PROVE Types'
  OBVIOUS
<1>1. /\ UNCHANGED <<setup, faults, client>> /\ loop' = "interrupted" /\ conn' = NoClient
      /\ job' = Idle /\ heap' = {} /\ damaged' = FALSE
  BY DEF Interrupt
<1>2. queue' \in Seq(Clients)
  BY DEF Interrupt
<1>3. held' \in [{"server", "child"} -> SUBSET Clients]
  BY DEF Interrupt, Types
<1>4. job' \in JobType
  BY <1>1, IdleTypes
<1> QED
  BY <1>1, <1>2, <1>3, <1>4 DEF Types

\* A client moves.
LEMMA TypesClientStep == Types /\ ClientStep => Types'
<1> SUFFICES ASSUME Types, NEW c \in Clients, Connect(c) \/ SendLine(c) \/ Receive(c) \/ Stop(c)
             PROVE  Types'
  BY DEF ClientStep
<1>1. UNCHANGED <<setup, loop, conn, held, job, heap, damaged, faults>>
  BY DEF Connect, SendLine, Receive, Stop
<1>2. queue' \in Seq(Clients)
  <2>1. queue \in Seq(Clients)
    BY DEF Types
  <2>2. queue' = queue \/ queue' = Append(queue, c)
    BY DEF Connect, SendLine, Receive, Stop
  <2> QED
    BY <2>1, <2>2
<1>3. /\ client' \in [Clients -> ClientType]
      /\ \A d \in Clients : client'[d].script \in Scripts[d]
  <2>1. client \in [Clients -> ClientType] /\ client[c] \in ClientType
    BY DEF Types
  <2>2. ASSUME NEW at \in {"here", "half", "gone"}, client' = [client EXCEPT ![c].at = at]
        PROVE  <1>3!:
    <3> DEFINE cl == [client[c] EXCEPT !.at = at]
    <3>1. cl \in ClientType /\ cl.script = client[c].script
      BY <2>1 DEF ClientType
    <3>2. Updated(c, cl)
      BY <2>1, <2>2 DEF Updated
    <3> HIDE DEF cl
    <3> QED
      BY <3>1, <3>2, ClientChange
  <2>3. CASE client' = [client EXCEPT ![c].ready = TRUE]
    <3> DEFINE cl == [client[c] EXCEPT !.ready = TRUE]
    <3>1. cl \in ClientType /\ cl.script = client[c].script
      BY <2>1 DEF ClientType
    <3>2. Updated(c, cl)
      BY <2>1, <2>3 DEF Updated
    <3> HIDE DEF cl
    <3> QED
      BY <3>1, <3>2, ClientChange
  <2> QED
    BY <2>2, <2>3 DEF Connect, SendLine, Receive, Stop
<1> QED
  BY <1>1, <1>2, <1>3 DEF Types

\* What is sent was decided on before.
LEMMA AnswerThere ==
  ASSUME Types, Places, LookedUp, job.step \in {"send", "list"}
  PROVE  job.answer # "none"
BY HandlingNow DEF LookedUp, Steps

\* Every step keeps the types.
LEMMA TypesStep ==
  ASSUME Types, Places, LookedUp, Step \/ UNCHANGED vars
  PROVE  Types'
<1>1. CASE Sends
  BY <1>1, TypesAnswers, AnswerThere DEF Sends
<1>2. CASE Lists
  BY <1>2, TypesAnswers, AnswerThere DEF Lists
<1>3. CASE UNCHANGED vars
  BY <1>3 DEF vars, Types
<1> QED
  BY <1>1, <1>2, <1>3, TypesStart, TypesAccept, TypesFork, TypesReap, TypesGetsWhole,
     TypesGetsEnd, TypesParses, TypesLooksUp, TypesFinishes, TypesDeath, TypesInterrupt,
     TypesClientStep DEF Step

-----------------------------------------------------------------------------
(***************************************************************************)
(* Where the two processes are                                             *)
(***************************************************************************)

\* A step of handle() that does not end it.
HandlesOn ==
  /\ Active /\ Active' /\ Handling /\ Handling'
  /\ UNCHANGED <<setup, loop, conn, held, faults, queue>>

\* The steps of handle() that leave the processes where they are.
LEMMA Going ==
  ASSUME Types, Places, GetsWhole \/ GetsEnd \/ Parses \/ LooksUp \/ Sends \/ Lists
  PROVE  HandlesOn
<1>1. Handling /\ Active /\ conn # NoClient
  BY HandlingNow DEF GetsWhole, GetsEnd, Parses, LooksUp, Sends, Lists, Handling, Steps
<1>2. job \in JobType
  BY JobFields
<1>3. job'.step \in Steps
  BY <1>1, <1>2 DEF GetsWhole, GetsEnd, Gets, Parses, LooksUp, Goes, Sends, Lists, Answers,
     Active, Steps, JobType
<1>4. UNCHANGED <<setup, loop, conn, held, faults, queue>>
  BY DEF GetsWhole, GetsEnd, Gets, Parses, LooksUp, Goes, Sends, Lists, Answers
<1> QED
  BY <1>1, <1>3, <1>4 DEF HandlesOn, Handling, Active

\* The fields of no call in progress.
LEMMA IdleSteps ==
  /\ Idle.step = "idle" /\ Idle.lines = <<>> /\ Idle.answer = "none" /\ Idle.stray = FALSE
  /\ \A step \in {"read", "over"} :
       /\ [Idle EXCEPT !.step = step].step = step
       /\ [Idle EXCEPT !.step = step].lines = <<>>
       /\ [Idle EXCEPT !.step = step].answer = "none"
       /\ [Idle EXCEPT !.step = step].stray = FALSE
BY DEF Idle

\* What the end of handle() and of its process leave to the other parts.
LEMMA OverSteps ==
  ASSUME Types, Death \/ Finishes \/ Interrupt \/ Reap
  PROVE  ~Active' /\ ~Handling' /\ setup' = setup
BY IdleSteps DEF Death, Dies, Finishes, Interrupt, Reap, Active, Handling, Steps

\* The linear server holds nothing when it accepts: only a limit of 0 refuses it a descriptor.
LEMMA AcceptRefused ==
  ASSUME Types, Places, loop = "accept", ~Active, setup.mode = "linear", setup.listening,
         Free("server") <= 0
  PROVE  setup.limit = 0
<1>1. held["server"] = {}
  BY DEF Places, Handling
<1>2. Cardinality(held["server"]) = 0
  BY <1>1, FS_EmptySet
<1> QED
  BY <1>2, FreeNumber

\* Places, step by step: a connection is accepted.
LEMMA PlacesAccept == Types /\ Places /\ Accept => Places'
<1> SUFFICES ASSUME Types, Places, Accept PROVE Places'
  OBVIOUS
<1>1. loop = "accept" /\ ~Active /\ UNCHANGED <<setup, faults>>
  BY DEF Accept, Places
<1>2. setup.mode = "linear" => held["server"] = {}
  BY <1>1 DEF Places, Handling
<1>0. job'.step = "read" => job'.answer = "none"
  BY <1>1, IdleSteps DEF Accept, Active, Steps
<1>3. setup.mode = "linear" => job'.step = "read" /\ loop' = "handle" /\ Active'
  BY IdleSteps DEF Accept, Active, Steps
<1>4. setup.mode # "linear" => job' = job /\ loop' = "fork" /\ ~Active'
  BY <1>1 DEF Accept, Active
<1>5. CASE /\ setup.listening /\ Free("server") > 0 /\ queue # <<>>
           /\ conn' = Head(queue) /\ queue' = Tail(queue)
           /\ held' = [held EXCEPT !["server"] = @ \cup {conn'}]
           /\ heap' = heap \cup {<<conn', "sock", 0>>}
  <2>1. conn' \in Clients /\ conn' # NoClient
    BY <1>5 DEF Types
  <2>2. setup.mode = "linear" => held'["server"] = {conn'} /\ Handling'
    BY <1>2, <1>3, <1>5, <2>1 DEF Types, Handling
  <2> QED
    BY <1>0, <1>1, <1>3, <1>4, <1>5, <2>1, <2>2 DEF Places, Active, Steps
<1>6. CASE /\ ~setup.listening \/ Free("server") <= 0
           /\ conn' = NoClient /\ UNCHANGED <<queue, held, heap>>
  <2>1. setup.mode = "linear" /\ faults = 0 => setup.limit = 0
    BY <1>1, <1>6, AcceptRefused DEF Places
  <2>2. ~Handling'
    BY <1>6 DEF Handling
  <2> QED
    BY <1>0, <1>1, <1>2, <1>3, <1>4, <1>6, <2>1, <2>2 DEF Places, Active, Steps
<1> QED
  BY <1>5, <1>6 DEF Accept

\* A child is forked.
LEMMA PlacesFork == Types /\ Places /\ Fork => Places'
<1> SUFFICES ASSUME Types, Places, Fork PROVE Places'
  OBVIOUS
<1>1. loop = "fork" /\ ~Active /\ setup.mode # "linear" /\ UNCHANGED <<setup, conn>>
  BY DEF Fork, Places
<1>2. CASE loop' = "wait" /\ job' = [Idle EXCEPT !.step = "read"] /\ faults' = faults
  BY <1>1, <1>2, IdleSteps DEF Places, Active, Steps
<1>3. CASE Fails /\ loop' = "accept" /\ job' = job
  <2>1. faults' > 0
    BY <1>3 DEF Fails, Types
  <2> QED
    BY <1>1, <1>3, <2>1 DEF Places, Active, Steps
<1> QED
  BY <1>2, <1>3 DEF Fork

\* The server starts.
LEMMA PlacesStart == Types /\ Places /\ Start => Places'
<1> SUFFICES ASSUME Types, Places, Start PROVE Places'
  OBVIOUS
<1>1. /\ loop = "start" /\ ~Active /\ ~Handling /\ setup'.mode = setup.mode
      /\ UNCHANGED <<conn, held, job>>
  BY DEF Start, Places, Handling, Types
<1>2. ~Active' /\ ~Handling'
  BY <1>1 DEF Active, Handling
<1>3. faults' = faults \/ faults' > 0
  BY DEF Start, Fails, Types
<1>4. loop' \in {"ended", "accept"}
      /\ (loop' = "ended" => faults' > 0 \/ setup.mode = "threads")
  BY DEF Start, Fails, Types
<1>5. loop' = "accept" => setup'.listening \/ faults' > 0
  <2>1. setup \in [mode : Modes, limit : Limits, listening : BOOLEAN, bound : BOOLEAN]
    BY DEF Types
  <2>2. CASE setup' = [setup EXCEPT !.listening = TRUE, !.bound = TRUE]
    BY <2>1, <2>2
  <2>3. CASE Fails
    BY <2>3 DEF Fails, Types
  <2> QED
    BY <2>2, <2>3 DEF Start
<1> QED
  BY <1>1, <1>2, <1>4, <1>5 DEF Places, Active, Steps

\* handle() is over, or its process, or the child is waited for.
LEMMA PlacesEnds == Types /\ Places /\ (Death \/ Finishes \/ Interrupt \/ Reap) => Places'
<1> SUFFICES ASSUME Types, Places, Death \/ Finishes \/ Interrupt \/ Reap PROVE Places'
  OBVIOUS
<1>1. ~Active' /\ ~Handling' /\ setup' = setup
  BY OverSteps
<1>2. job'.step \in {"idle", "over"}
  BY IdleSteps DEF Death, Dies, Finishes, Interrupt, Reap
<1>3. CASE Death
  <2>1. loop' = AfterDeath /\ held' = [held EXCEPT ![Handler] = {}]
        /\ Active /\ faults' \in {faults, faults + 1}
    BY <1>3 DEF Death, Dies
  <2>2. setup.mode = "linear" => held'["server"] = {}
    BY <2>1 DEF Handler, Types
  <2>3. faults \in Nat /\ (faults' = 0 => faults = 0)
    BY <2>1 DEF Types
  <2> QED
    BY <1>1, <1>2, <2>1, <2>2, <2>3 DEF Places, AfterDeath
<1>4. CASE Finishes
  <2>1. Active /\ conn # NoClient /\ faults' = faults
    BY <1>4, HandlingNow DEF Finishes, Handling, Steps
  <2>2. setup.mode = "linear" => held'["server"] = {}
    BY <1>4, <2>1 DEF Finishes, Handler, Types, Places, Handling
  <2>3. loop' = IF setup.mode = "linear" THEN "accept" ELSE loop
    BY <1>4 DEF Finishes
  <2> QED
    BY <1>1, <1>2, <2>1, <2>2, <2>3 DEF Places
<1>5. CASE Interrupt
  <2>1. held'["server"] = {} /\ loop' = "interrupted"
    BY <1>5 DEF Interrupt, Types
  <2> QED
    BY <1>1, <1>2, <2>1 DEF Places
<1>6. CASE Reap
  <2>1. loop = "wait" /\ loop' = "accept" /\ faults' = faults
    BY <1>6 DEF Reap
  <2> QED
    BY <1>1, <1>2, <2>1 DEF Places
<1> QED
  BY <1>3, <1>4, <1>5, <1>6

\* A path is there from the parsing on, an answer from the lookup on.
LEMMA PathStays ==
  ASSUME Types, Places, GetsWhole \/ GetsEnd \/ Parses \/ LooksUp \/ Sends \/ Lists
  PROVE  /\ job'.step \in {"lookup", "list", "send", "finish"} => job'.path \in Seq(Names)
         /\ job'.step \in {"read", "parse", "lookup"} => job'.answer = "none"
<1>1. job \in JobType
  BY JobFields
<1>2. CASE GetsWhole \/ GetsEnd
  BY <1>1, <1>2 DEF GetsWhole, GetsEnd, Gets, JobType, Places
<1>3. CASE Parses
  <2>1. PICK path \in Seq(Names) :
          job' = [job EXCEPT !.step = "lookup", !.path = path, !.stray = ~WholeRequest]
    BY <1>3 DEF Parses
  <2> QED
    BY <1>1, <1>3, <2>1 DEF JobType, Parses, Places
<1>4. CASE LooksUp \/ Sends \/ Lists
  <2>1. job'.path = job.path /\ job.step \in {"lookup", "list", "send"}
        /\ job'.step \in {"list", "send", "finish"}
    BY <1>1, <1>4 DEF LooksUp, Goes, Sends, Lists, Answers, JobType
  <2> QED
    BY <2>1 DEF Places
<1> QED
  BY <1>2, <1>3, <1>4

\* handle() goes on.
LEMMA PlacesOn ==
  Types /\ Places /\ (GetsWhole \/ GetsEnd \/ Parses \/ LooksUp \/ Sends \/ Lists) => Places'
BY Going, PathStays DEF Places, HandlesOn, Handling

\* Every step keeps the two processes in their places.
LEMMA PlacesStep ==
  ASSUME Types, Places, Step \/ UNCHANGED vars
  PROVE  Places'
<1>1. CASE ClientStep \/ UNCHANGED vars
  <2>1. UNCHANGED <<setup, loop, conn, held, job, faults>>
    BY <1>1 DEF ClientStep, Connect, SendLine, Receive, Stop, vars
  <2> QED
    BY <2>1 DEF Places, Active, Handling
<1> QED
  BY <1>1, PlacesStart, PlacesAccept, PlacesFork, PlacesEnds, PlacesOn DEF Step

-----------------------------------------------------------------------------
(***************************************************************************)
(* What changes in the clients, and the queue                              *)
(***************************************************************************)

\* What handle() does to its client: it reads and it answers.
LEMMA ReadOnEffect ==
  ASSUME Types, conn \in Clients, ReadOn
  PROVE  \A c \in Clients :
           /\ client'[c].got = client[c].got /\ client'[c].at = client[c].at
           /\ client'[c].eof = client[c].eof /\ client'[c].script = client[c].script
           /\ client'[c].read = IF c = conn THEN client[c].read + 1 ELSE client[c].read
<1>1. client \in [Clients -> ClientType]
  BY DEF Types
<1> QED
  BY <1>1 DEF ReadOn, ClientType

\* What the end of the input changes in the clients.
LEMMA ReadEndEffect ==
  ASSUME Types, conn \in Clients, ReadEnd
  PROVE  \A c \in Clients :
           /\ client'[c].got = client[c].got /\ client'[c].at = client[c].at
           /\ client'[c].read = client[c].read /\ client'[c].script = client[c].script
           /\ client'[c].eof = IF c = conn THEN TRUE ELSE client[c].eof
<1>1. client \in [Clients -> ClientType]
  BY DEF Types
<1> QED
  BY <1>1 DEF ReadEnd, ClientType

\* What an answer changes in the clients.
LEMMA AnswersEffect ==
  ASSUME Types, conn \in Clients, NEW freed, Answers(freed)
  PROVE  /\ \A c \in Clients :
              /\ client'[c].at = client[c].at /\ client'[c].eof = client[c].eof
              /\ client'[c].read = client[c].read /\ client'[c].script = client[c].script
              /\ c # conn => client'[c].got = client[c].got
         /\ \/ client'[conn].got = client[conn].got
            \/ \E complete \in Complete(job.answer) :
                 client'[conn].got = Append(client[conn].got,
                   [answer |-> job.answer, file |-> Revised(job.path), complete |-> complete])
<1>1. client \in [Clients -> ClientType]
  BY DEF Types
<1>2. CASE client' = client
  BY <1>2
<1>3. ASSUME NEW a, client' = [client EXCEPT ![conn].got = Append(@, a)]
      PROVE  /\ \A c \in Clients :
                  /\ client'[c].at = client[c].at /\ client'[c].eof = client[c].eof
                  /\ client'[c].read = client[c].read /\ client'[c].script = client[c].script
                  /\ c # conn => client'[c].got = client[c].got
             /\ client'[conn].got = Append(client[conn].got, a)
  BY <1>1, <1>3 DEF ClientType
<1> QED
  BY <1>2, <1>3 DEF Answers

\* What a client changes itself: it comes, it is ready, it goes.
LEMMA ClientStepEffect ==
  ASSUME Types, NEW c \in Clients, Connect(c) \/ SendLine(c) \/ Receive(c) \/ Stop(c)
  PROVE  /\ \A d \in Clients :
              /\ client'[d].got = client[d].got /\ client'[d].eof = client[d].eof
              /\ client'[d].read = client[d].read /\ client'[d].script = client[d].script
              /\ d # c => client'[d].at = client[d].at
         /\ \/ client'[c].at = client[c].at
            \/ client[c].at = "away" /\ client'[c].at = "here" /\ Connect(c)
            \/ client[c].at \in {"here", "half"} /\ client'[c].at \in {"half", "gone"}
         /\ UNCHANGED <<setup, loop, conn, held, job, heap, damaged, faults>>
         /\ queue' = IF Connect(c) THEN Append(queue, c) ELSE queue
<1>1. client \in [Clients -> ClientType]
  BY DEF Types
<1>2. UNCHANGED <<setup, loop, conn, held, job, heap, damaged, faults>>
  BY DEF Connect, SendLine, Receive, Stop
<1>3. CASE Connect(c)
  <2>1. client' = [client EXCEPT ![c].at = "here"] /\ client[c].at = "away"
        /\ queue' = Append(queue, c)
    BY <1>3 DEF Connect
  <2> QED
    BY <1>1, <1>2, <1>3, <2>1 DEF ClientType
<1>4. CASE ~Connect(c) /\ (SendLine(c) \/ Receive(c))
  <2>1. client' = [client EXCEPT ![c].ready = TRUE] /\ queue' = queue
    BY <1>4 DEF SendLine, Receive
  <2> QED
    BY <1>1, <1>2, <1>4, <2>1 DEF ClientType
<1>5. CASE ~Connect(c) /\ Stop(c)
  <2>1. client[c].at \in {"here", "half"} /\ queue' = queue
    BY <1>5 DEF Stop
  <2>2. PICK at \in {"half", "gone"} : client' = [client EXCEPT ![c].at = at]
    BY <1>5 DEF Stop
  <2> QED
    BY <1>1, <1>2, <1>5, <2>1, <2>2 DEF ClientType
<1> QED
  BY <1>3, <1>4, <1>5

\* The client in hand is one of the clients.
LEMMA InHand ==
  ASSUME Types, Places, GetsWhole \/ GetsEnd \/ Sends \/ Lists \/ (Death /\ client' # client)
  PROVE  conn \in Clients
BY Going DEF HandlesOn, Handling, Types, Death, ReadsOdd

\* Scripts are not changed, and a client that stopped does not come back.
LEMMA ClientsStay ==
  ASSUME Types, Places, Step \/ UNCHANGED vars, NEW c \in Clients
  PROVE  /\ client'[c].script = client[c].script
         /\ client[c].at # "away" => client'[c].at # "away"
         /\ client[c].at \in {"half", "gone"} => client'[c].at \in {"half", "gone"}
         /\ client'[c].at # client[c].at => ClientStep
<1>1. CASE GetsWhole
  BY <1>1, InHand, ReadOnEffect DEF GetsWhole
<1>2. CASE GetsEnd
  BY <1>2, InHand, ReadEndEffect DEF GetsEnd
<1>3. CASE Sends \/ Lists
  BY <1>3, InHand, AnswersEffect DEF Sends, Lists
<1>4. CASE ClientStep
  <2>1. PICK d \in Clients : Connect(d) \/ SendLine(d) \/ Receive(d) \/ Stop(d)
    BY <1>4 DEF ClientStep
  <2>2. /\ \A e \in Clients : client'[e].script = client[e].script
                              /\ (e # d => client'[e].at = client[e].at)
        /\ \/ client'[d].at = client[d].at
           \/ client[d].at = "away" /\ client'[d].at = "here"
           \/ client[d].at \in {"here", "half"} /\ client'[d].at \in {"half", "gone"}
    BY <2>1, ClientStepEffect
  <2> QED
    BY <1>4, <2>2
<1>5. CASE client' = client
  BY <1>5
<1>6. CASE Death
  BY <1>5, <1>6, InHand, ReadOnEffect DEF Death
<1>7. CASE Start \/ Accept \/ Fork \/ Reap \/ Parses \/ LooksUp \/ Finishes \/ Interrupt
  <2>1. client' = client
    BY <1>7 DEF Start, Accept, Fork, Reap, Parses, LooksUp, Finishes, Interrupt
  <2> QED
    BY <1>5, <2>1
<1> QED
  BY <1>1, <1>2, <1>3, <1>4, <1>5, <1>6, <1>7 DEF Step, vars

\* The elements of a queue whose head is taken.
LEMMA TailElements ==
  ASSUME NEW S, NEW q \in Seq(S), q # <<>>
  PROVE  /\ Head(q) = q[1] /\ 1 \in DOMAIN q /\ Head(q) \in S
         /\ \A i \in DOMAIN Tail(q) : i + 1 \in DOMAIN q /\ i + 1 # 1 /\ Tail(q)[i] = q[i + 1]
         /\ DOMAIN Tail(q) \subseteq Nat
OBVIOUS

\* And of one that a client joins.
LEMMA AppendElements ==
  ASSUME NEW S, NEW q \in Seq(S), NEW e
  PROVE  /\ Len(q) + 1 \notin DOMAIN q
         /\ DOMAIN Append(q, e) = DOMAIN q \cup {Len(q) + 1}
         /\ Append(q, e)[Len(q) + 1] = e
         /\ \A i \in DOMAIN q : Append(q, e)[i] = q[i]
OBVIOUS

\* What Accept does when there is a connection.
LEMMA Accepted ==
  ASSUME Types, InQueue, Accept, conn' # NoClient
  PROVE  /\ conn' \in Clients /\ Queued(conn')
         /\ setup.listening /\ heap' = heap \cup {<<conn', "sock", 0>>}
         /\ held' = [held EXCEPT !["server"] = @ \cup {conn'}]
         /\ queue # <<>> /\ conn' = Head(queue) /\ queue' = Tail(queue)
         /\ client[conn'].at # "away"
<1>1. /\ setup.listening /\ Free("server") > 0 /\ queue # <<>>
      /\ conn' = Head(queue) /\ queue' = Tail(queue)
      /\ held' = [held EXCEPT !["server"] = @ \cup {conn'}]
      /\ heap' = heap \cup {<<conn', "sock", 0>>}
  BY DEF Accept
<1>2. queue \in Seq(Clients)
  BY DEF Types
<1>3. conn' \in Clients /\ 1 \in DOMAIN queue /\ conn' = queue[1]
  BY <1>1, <1>2, TailElements
<1> QED
  BY <1>1, <1>3 DEF Queued, InQueue

\* The queue stays without duplicates and without the connection in hand.
LEMMA InQueueStep ==
  ASSUME Types, Places, InQueue, Step \/ UNCHANGED vars
  PROVE  InQueue'
<1>0. queue \in Seq(Clients) /\ \A i \in DOMAIN queue : queue[i] \in Clients
  BY DEF Types
<1>1. CASE Accept
  <2>1. client' = client
    BY <1>1 DEF Accept
  <2>2. CASE conn' # NoClient
    <3>1. queue # <<>> /\ conn' = Head(queue) /\ queue' = Tail(queue)
          /\ client[conn'].at # "away"
      BY <1>1, <2>2, Accepted
    <3>2. /\ conn' = queue[1] /\ 1 \in DOMAIN queue
          /\ \A i \in DOMAIN queue' : i + 1 \in DOMAIN queue /\ i + 1 # 1
                                      /\ queue'[i] = queue[i + 1]
          /\ DOMAIN queue' \subseteq Nat
      BY <1>0, <3>1, TailElements
    <3>3. \A i, j \in DOMAIN queue' : queue'[i] = queue'[j] => i = j
      BY <3>2 DEF InQueue
    <3>4. \A i \in DOMAIN queue' : client[queue'[i]].at # "away" /\ queue'[i] # conn'
      BY <3>2 DEF InQueue
    <3> QED
      BY <2>1, <3>1, <3>3, <3>4 DEF InQueue
  <2>3. CASE conn' = NoClient
    <3>1. queue' = queue
      BY <1>0, <1>1, <2>3, TailElements DEF Accept
    <3> QED
      BY <1>0, <2>1, <2>3, <3>1 DEF InQueue
  <2> QED
    BY <2>2, <2>3
<1>2. CASE ClientStep
  <2>1. PICK c \in Clients : Connect(c) \/ SendLine(c) \/ Receive(c) \/ Stop(c)
    BY <1>2 DEF ClientStep
  <2>2. \A d \in Clients : client[d].at # "away" => client'[d].at # "away"
    BY <1>2, ClientsStay
  <2>3. conn' = conn /\ queue' = IF Connect(c) THEN Append(queue, c) ELSE queue
    BY <2>1, ClientStepEffect
  <2>4. conn \in Clients \cup {NoClient}
    BY DEF Types
  <2>5. CASE Connect(c)
    <3>1. client[c].at = "away" /\ client'[c].at # "away"
      <4>1. client[c].at = "away" /\ client' = [client EXCEPT ![c].at = "here"]
        BY <2>5 DEF Connect
      <4>2. client \in [Clients -> ClientType]
        BY DEF Types
      <4> QED
        BY <4>1, <4>2 DEF ClientType
    <3>2. \A i \in DOMAIN queue : queue[i] # c
      BY <3>1 DEF InQueue
    <3>3. c # conn
      BY <3>1 DEF InQueue
    <3>4. /\ Len(queue) + 1 \notin DOMAIN queue
          /\ DOMAIN queue' = DOMAIN queue \cup {Len(queue) + 1}
          /\ queue'[Len(queue) + 1] = c
          /\ \A i \in DOMAIN queue : queue'[i] = queue[i]
      BY <1>0, <2>3, <2>5, AppendElements
    <3>5. \A i, j \in DOMAIN queue' : queue'[i] = queue'[j] => i = j
      BY <3>2, <3>4 DEF InQueue
    <3>6. \A i \in DOMAIN queue' : client'[queue'[i]].at # "away" /\ queue'[i] # conn
      BY <1>0, <2>2, <3>1, <3>3, <3>4 DEF InQueue
    <3> QED
      BY <2>2, <2>3, <2>4, <3>5, <3>6 DEF InQueue
  <2>6. CASE ~Connect(c)
    BY <1>0, <2>2, <2>3, <2>4, <2>6 DEF InQueue
  <2> QED
    BY <2>5, <2>6
<1>3. CASE Interrupt
  BY <1>3 DEF Interrupt, InQueue
<1>4. CASE ~Accept /\ ~ClientStep /\ ~Interrupt
  <2>1. UNCHANGED <<conn, queue>>
    BY <1>4, Going DEF Step, Start, Fork, Reap, Finishes, Death, HandlesOn, vars
  <2>2. \A c \in Clients : client[c].at # "away" => client'[c].at # "away"
    BY ClientsStay
  <2>3. conn \in Clients \cup {NoClient}
    BY DEF Types
  <2> QED
    BY <1>0, <2>1, <2>2, <2>3 DEF InQueue
<1> QED
  BY <1>1, <1>2, <1>3, <1>4

-----------------------------------------------------------------------------
(***************************************************************************)
(* Clients that wait                                                       *)
(***************************************************************************)

\* The client in hand is not one who waits.
LEMMA InHandWaitsNot ==
  ASSUME Types, Places, InQueue, Active, conn \in Clients
  PROVE  ~Waits(conn)
<1>1. loop # "fork" /\ conn # NoClient
  BY DEF Places
<1>2. client[conn].at # "away" /\ ~Queued(conn)
  BY <1>1 DEF InQueue, Queued
<1> QED
  BY <1>1, <1>2 DEF Waits

\* No step makes one wait who did not, but for a client that connects.
LEMMA WaitsStay ==
  ASSUME Types, Places, InQueue, Step \/ UNCHANGED vars, NEW c \in Clients, Waits(c)'
  PROVE  Waits(c)
<1>1. client'[c].at = "away" => client[c].at = "away"
  BY ClientsStay
<1>0. queue \in Seq(Clients)
  BY DEF Types
<1>2. CASE Accept
  <2>1. CASE conn' # NoClient
    <3>1. queue # <<>> /\ conn' = Head(queue) /\ queue' = Tail(queue) /\ Queued(conn')
      BY <1>2, <2>1, Accepted
    <3>2. Queued(c)' => Queued(c)
      BY <1>0, <3>1, TailElements DEF Queued
    <3>3. client' = client
      BY <1>2 DEF Accept
    <3> QED
      BY <3>1, <3>2, <3>3 DEF Waits
  <2>2. CASE conn' = NoClient
    <3>1. queue' = queue
      BY <1>0, <1>2, <2>2, TailElements DEF Accept
    <3>2. client' = client
      BY <1>2 DEF Accept
    <3> QED
      BY <2>2, <3>1, <3>2 DEF Waits, Queued
  <2> QED
    BY <2>1, <2>2
<1>3. CASE ClientStep
  <2>1. PICK d \in Clients : Connect(d) \/ SendLine(d) \/ Receive(d) \/ Stop(d)
    BY <1>3 DEF ClientStep
  <2>2. queue' = (IF Connect(d) THEN Append(queue, d) ELSE queue) /\ UNCHANGED <<conn, loop>>
    BY <2>1, ClientStepEffect
  <2>3. Connect(d) => client[d].at = "away"
    BY DEF Connect
  <2>4. Queued(c)' => Queued(c) \/ (Connect(d) /\ c = d)
    BY <1>0, <2>2, AppendElements DEF Queued
  <2> QED
    BY <1>1, <2>2, <2>3, <2>4 DEF Waits
<1>4. CASE Interrupt
  BY <1>1, <1>4 DEF Interrupt, Waits, Queued
<1>5. CASE Start \/ Fork \/ Reap \/ Finishes \/ Death \/ HandlesOn \/ UNCHANGED vars
  <2>1. UNCHANGED <<conn, queue>> /\ (loop' = "fork" => loop = "fork")
    BY <1>5 DEF Start, Fork, Reap, Finishes, Death, Dies, AfterDeath, HandlesOn, vars
  <2> QED
    BY <1>1, <2>1 DEF Waits, Queued
<1> QED
  BY <1>2, <1>3, <1>4, <1>5, Going DEF Step

\* Nothing is read of a client that waits, and nothing answered before the last step.
LEMMA UntouchedStep ==
  ASSUME Types, Places, InQueue, Untouched, Step \/ UNCHANGED vars
  PROVE  Untouched'
<1>1. ASSUME NEW c \in Clients, Waits(c)'
      PROVE  client'[c].got = <<>> /\ client'[c].read = 0
  <2>1. Waits(c) /\ client[c].got = <<>> /\ client[c].read = 0
    BY <1>1, WaitsStay DEF Untouched
  <2>2. CASE GetsWhole \/ (Death /\ client' # client)
    <3>1. conn \in Clients /\ Active /\ ReadOn
      BY <2>2, InHand, Going DEF GetsWhole, Death, HandlesOn
    <3> QED
      BY <2>1, <3>1, InHandWaitsNot, ReadOnEffect
  <2>3. CASE GetsEnd
    BY <2>1, <2>3, InHand, ReadEndEffect DEF GetsEnd
  <2>4. CASE Sends \/ Lists
    <3>1. conn \in Clients /\ Active
      BY <2>4, InHand, Going DEF HandlesOn
    <3> QED
      BY <2>1, <2>4, <3>1, InHandWaitsNot, AnswersEffect DEF Sends, Lists
  <2>5. CASE ClientStep
    BY <2>1, <2>5, ClientStepEffect DEF ClientStep
  <2>6. CASE client' = client
    BY <2>1, <2>6
  <2> QED
    BY <2>2, <2>3, <2>4, <2>5, <2>6
    DEF Step, Start, Accept, Fork, Reap, Parses, LooksUp, Finishes, Interrupt, vars
<1>2. ASSUME NEW c \in Clients, client'[c].at \in {"away", "here"}
      PROVE  ~client'[c].eof
  <2>1. client[c].at \in {"away", "here"}
    BY <1>2, ClientsStay, ClientFields
  <2>2. ~client[c].eof
    BY <2>1 DEF Untouched
  <2>3. CASE GetsWhole \/ (Death /\ client' # client)
    <3>1. conn \in Clients /\ ReadOn
      BY <2>3, InHand DEF GetsWhole, Death
    <3> QED
      BY <2>2, <3>1, ReadOnEffect
  <2>4. CASE GetsEnd
    <3>1. conn \in Clients /\ ReadEnd /\ client[conn].at # "here"
      BY <2>4, InHand DEF GetsEnd
    <3>2. client[conn].at # "away"
      BY <3>1 DEF InQueue
    <3> QED
      BY <2>1, <2>2, <3>1, <3>2, ReadEndEffect
  <2>5. CASE Sends \/ Lists
    BY <2>2, <2>5, InHand, AnswersEffect DEF Sends, Lists
  <2>6. CASE ClientStep
    BY <2>2, <2>6, ClientStepEffect DEF ClientStep
  <2>7. CASE client' = client
    BY <2>2, <2>7
  <2> QED
    BY <2>3, <2>4, <2>5, <2>6, <2>7
    DEF Step, Start, Accept, Fork, Reap, Parses, LooksUp, Finishes, Interrupt, vars
<1>3. ASSUME Handling', job'.step # "finish"
      PROVE  client'[conn'].got = <<>>
  <2>1. CASE Accept
    <3>1. conn' \in Clients /\ Queued(conn') /\ client' = client
      BY <1>3, <2>1, Accepted DEF Accept, Handling
    <3> QED
      BY <3>1 DEF Untouched, Waits
  <2>2. CASE Fork
    <3>1. conn' = conn /\ client' = client /\ loop = "fork" /\ conn # NoClient
      BY <1>3, <2>2 DEF Fork, Handling
    <3>2. conn \in Clients
      BY <3>1 DEF Types
    <3> QED
      BY <3>1, <3>2 DEF Untouched, Waits
  <2>3. CASE GetsWhole \/ GetsEnd \/ Parses \/ LooksUp
    <3>1. Handling /\ conn' = conn /\ conn \in Clients
      BY <2>3, Going DEF HandlesOn, Handling, Types
    <3>2. job.step # "finish"
      BY <2>3 DEF GetsWhole, GetsEnd, Parses, LooksUp
    <3>3. client'[conn].got = client[conn].got
      BY <2>3, <3>1, ReadOnEffect, ReadEndEffect DEF GetsWhole, GetsEnd, Parses, LooksUp
    <3> QED
      BY <3>1, <3>2, <3>3 DEF Untouched
  <2>4. CASE Sends \/ Lists
    <3>1. job \in JobType
      BY JobFields
    <3> QED
      BY <1>3, <2>4, <3>1 DEF Sends, Lists, Answers, JobType
  <2>5. CASE Finishes \/ Death \/ Interrupt \/ Reap
    BY <1>3, <2>5, OverSteps
  <2>6. CASE ClientStep
    <3>1. UNCHANGED <<conn, job>> /\ Handling /\ conn \in Clients
      BY <1>3, <2>6, ClientStepEffect DEF ClientStep, Handling, Active, Types
    <3>2. client'[conn].got = client[conn].got
      BY <2>6, <3>1, ClientStepEffect DEF ClientStep
    <3> QED
      BY <1>3, <3>1, <3>2 DEF Untouched
  <2>7. CASE Start \/ UNCHANGED vars
    <3>1. UNCHANGED <<conn, job, client>>
      BY <2>7 DEF Start, vars
    <3> QED
      BY <1>3, <3>1 DEF Untouched, Handling, Active
  <2> QED
    BY <2>1, <2>2, <2>3, <2>4, <2>5, <2>6, <2>7 DEF Step
<1> QED
  BY <1>1, <1>2, <1>3 DEF Untouched

-----------------------------------------------------------------------------
(***************************************************************************)
(* What was read and parsed                                                *)
(***************************************************************************)

\* A well-formed script has its only empty line at the end.
LEMMA WellFormedLines ==
  ASSUME NEW s \in Seq(Lines), WellFormed(s)
  PROVE  /\ Len(s) \in Nat /\ Len(s) > 1 /\ s[1].words = 3 /\ s[1] \in Lines
         /\ s[Len(s)] = EmptyLine
         /\ \A i \in 1..Len(s) : s[i] = EmptyLine => i = Len(s)
         /\ \A i \in 1..Len(s) : ~s[i].odd
         /\ \A i \in 1..Len(s) : i < Len(s) => s[i].words >= 2
<1>1. EmptyLine.words = 0 /\ EmptyLine.odd = FALSE
  BY DEF EmptyLine, Line
<1>2. Len(s) \in Nat /\ Len(s) > 1 /\ s[1].words = 3 /\ s[Len(s)] = EmptyLine
  BY DEF WellFormed
<1>3. \A i \in 1..Len(s) : i < Len(s) => ~s[i].odd /\ s[i].words > 1
  BY <1>2 DEF WellFormed
<1>4. \A i \in 1..Len(s) : s[i] \in Lines
  OBVIOUS
<1>5. \A i \in 1..Len(s) : s[i].words \in 0..3
  BY <1>4, LineTypes
<1>6. \A i \in 1..Len(s) : i = Len(s) \/ i < Len(s)
  BY <1>2
<1> QED
  BY <1>1, <1>2, <1>3, <1>4, <1>5, <1>6

\* A request begins with nothing read, in either mode.
LEMMA Begins ==
  ASSUME Types, Places, InQueue, Untouched, Accept \/ Fork, Handling'
  PROVE  /\ job' = [Idle EXCEPT !.step = "read"] /\ conn' \in Clients
         /\ client' = client /\ client[conn'].read = 0 /\ client[conn'].got = <<>>
         /\ setup' = setup
<1>1. CASE Accept
  <2>1. conn' \in Clients /\ Queued(conn') /\ client' = client
    BY <1>1, Accepted DEF Accept, Handling
  <2>2. loop = "accept" /\ setup' = setup
    BY <1>1 DEF Accept
  <2>3. job' = [Idle EXCEPT !.step = "read"]
    <3>1. job' # job => job' = [Idle EXCEPT !.step = "read"]
      BY <1>1 DEF Accept
    <3>2. ~Active
      BY <2>2 DEF Places
    <3> QED
      BY <3>1, <3>2 DEF Handling, Active
  <2> QED
    BY <2>1, <2>2, <2>3 DEF Untouched, Waits
<1>2. CASE Fork
  <2>1. conn' = conn /\ client' = client /\ loop = "fork" /\ conn # NoClient /\ setup' = setup
    BY <1>2 DEF Fork, Handling
  <2>2. conn \in Clients
    BY <2>1 DEF Types
  <2>3. job' = [Idle EXCEPT !.step = "read"]
    <3>1. job' # job => job' = [Idle EXCEPT !.step = "read"]
      BY <1>2 DEF Fork
    <3>2. ~Active
      BY <2>1 DEF Places
    <3> QED
      BY <3>1, <3>2 DEF Handling, Active
  <2> QED
    BY <2>1, <2>2, <2>3 DEF Untouched, Waits
<1> QED
  BY <1>1, <1>2

\* Of the client in hand other steps than its own change nothing that was read.
LEMMA HandlingBefore ==
  ASSUME Types, Places, Step \/ UNCHANGED vars, Handling', ~Accept, ~Fork,
         ~GetsWhole, ~GetsEnd
  PROVE  /\ Handling /\ conn' = conn /\ conn \in Clients
         /\ client'[conn].read = client[conn].read /\ client'[conn].eof = client[conn].eof
         /\ client'[conn].script = client[conn].script
         /\ job'.lines = job.lines
         /\ Parses \/ LooksUp \/ Sends \/ Lists \/ (job' = job /\ setup'.limit = setup.limit)
<1>0. job \in JobType
  BY JobFields
<1>1. ~Death /\ ~Finishes /\ ~Interrupt /\ ~Reap
  BY OverSteps
<1>2. CASE Parses \/ LooksUp \/ Sends \/ Lists
  <2>1. Handling /\ conn' = conn /\ conn \in Clients
    BY <1>2, Going DEF HandlesOn, Handling, Types
  <2>2. CASE Parses \/ LooksUp
    BY <1>0, <2>1, <2>2 DEF Parses, LooksUp, Goes, JobType
  <2>3. CASE Sends \/ Lists
    <3>1. /\ client'[conn].read = client[conn].read /\ client'[conn].eof = client[conn].eof
          /\ client'[conn].script = client[conn].script
      BY <2>1, <2>3, AnswersEffect DEF Sends, Lists
    <3> QED
      BY <1>0, <2>1, <2>3, <3>1 DEF Sends, Lists, Answers, JobType
  <2> QED
    BY <1>2, <2>2, <2>3
<1>3. CASE ClientStep
  <2>1. UNCHANGED <<conn, job, setup>> /\ Handling /\ conn \in Clients
    BY <1>3, ClientStepEffect DEF ClientStep, Handling, Active, Types
  <2>2. /\ client'[conn].read = client[conn].read /\ client'[conn].eof = client[conn].eof
        /\ client'[conn].script = client[conn].script
    BY <1>3, <2>1, ClientStepEffect DEF ClientStep
  <2> QED
    BY <2>1, <2>2
<1>4. CASE Start \/ UNCHANGED vars
  <2>1. UNCHANGED <<conn, job, client>> /\ Handling /\ conn \in Clients
    BY <1>4 DEF Start, vars, Handling, Active, Types
  <2>2. setup'.limit = setup.limit
    BY <1>4 DEF Start, vars, Types
  <2> QED
    BY <2>1, <2>2
<1> QED
  BY <1>1, <1>2, <1>3, <1>4 DEF Step

\* What Gets does to the lines.
LEMMA GetsLines ==
  ASSUME Types, NEW l, Gets(l)
  PROVE  /\ job'.step = IF l = EmptyLine THEN "parse" ELSE job.step
         /\ job'.lines = IF l = EmptyLine THEN job.lines ELSE Append(job.lines, l)
BY JobFields DEF Gets, JobType

\* A whole line of a well-formed request is kept at its own index, or is the empty line that ends it.
LEMMA ReadingGetsWhole ==
  ASSUME Types, Places, Reading, GetsWhole
  PROVE  Reading'
<1>1. Handling /\ conn \in Clients /\ conn' = conn /\ job.step = "read"
  BY InHand DEF GetsWhole
<1> DEFINE s == client[conn].script
           r == client[conn].read
           l == s[r + 1]
<1>2. s \in Seq(Lines) /\ r \in Nat /\ r < Len(s) /\ ~client[conn].eof /\ Gets(l)
  BY <1>1, ClientFields DEF GetsWhole
<1>3. /\ client'[conn].script = s /\ client'[conn].read = r + 1
      /\ client'[conn].eof = client[conn].eof
  BY <1>1, ReadOnEffect DEF GetsWhole
<1>4. job'.step = (IF l = EmptyLine THEN "parse" ELSE job.step)
      /\ job'.lines = IF l = EmptyLine THEN job.lines ELSE Append(job.lines, l)
  BY <1>2, GetsLines
<1>5. job.lines \in Seq(Lines)
  BY JobFields
<1>6. ASSUME WellFormed(s)
      PROVE  /\ job'.lines # <<>> /\ job'.lines[1] = s[1]
             /\ \A i \in DOMAIN job'.lines : i < Len(s) /\ job'.lines[i] = s[i]
             /\ job'.step = "read" => r + 1 = Len(job'.lines)
  <2>1. /\ r > 0 => job.lines # <<>> /\ job.lines[1] = s[1]
        /\ \A i \in DOMAIN job.lines : i < Len(s) /\ job.lines[i] = s[i]
        /\ r = Len(job.lines)
    BY <1>1, <1>2, <1>6 DEF Reading
  <2>2. Len(s) > 1 /\ s[Len(s)] = EmptyLine
        /\ \A i \in 1..Len(s) : s[i] = EmptyLine => i = Len(s)
    BY <1>2, <1>6, WellFormedLines
  <2>3. l = EmptyLine <=> r + 1 = Len(s)
    BY <1>2, <2>2
  <2> HIDE DEF l
  <2>4. CASE l = EmptyLine
    BY <1>2, <1>4, <2>1, <2>2, <2>3, <2>4
  <2>5. CASE l # EmptyLine
    <3>1. /\ DOMAIN job'.lines = DOMAIN job.lines \cup {r + 1}
          /\ job'.lines[r + 1] = l
          /\ \A i \in DOMAIN job.lines : job'.lines[i] = job.lines[i]
          /\ Len(job'.lines) = r + 1
      BY <1>4, <1>5, <2>1, <2>5
    <3>2. job'.lines # <<>>
      BY <1>2, <3>1
    <3>3. \A i \in DOMAIN job'.lines : i < Len(s) /\ job'.lines[i] = s[i]
      BY <1>2, <2>1, <2>3, <2>5, <3>1 DEF l
    <3>4. job'.lines[1] = s[1]
      BY <1>2, <1>5, <2>1, <3>1, <3>3
    <3> QED
      BY <3>1, <3>2, <3>3, <3>4
  <2> QED
    BY <2>4, <2>5
<1>7. job'.step # "read" => r + 1 > 0
  BY <1>2
<1> HIDE DEF s, r, l
<1> QED
  BY <1>1, <1>3, <1>6, <1>7 DEF Reading, s

\* Every step keeps the lines read to the script.
LEMMA ReadingStep ==
  ASSUME Types, Places, InQueue, Untouched, Reading, Step \/ UNCHANGED vars
  PROVE  Reading'
<1>1. SUFFICES ASSUME Handling' PROVE Reading'
  BY DEF Reading
<1>2. CASE Accept \/ Fork
  <2>1. job'.step = "read" /\ job'.lines = <<>> /\ client'[conn'].read = 0
    BY <1>1, <1>2, Begins, IdleSteps
  <2> QED
    BY <2>1 DEF Reading
<1>3. CASE GetsWhole
  BY <1>3, ReadingGetsWhole
<1>4. CASE GetsEnd
  <2>1. Handling /\ conn \in Clients /\ conn' = conn
    BY <1>4, InHand DEF GetsEnd
  <2>2. PICK l \in Lines : Gets(l)
    BY <1>4 DEF GetsEnd
  <2>3. job.lines \in Seq(Lines)
    BY JobFields
  <2>4. job'.lines = IF l = EmptyLine THEN job.lines ELSE Append(job.lines, l)
    BY <2>2, GetsLines
  <2>5. job.lines # <<>> => job'.lines # <<>> /\ job'.lines[1] = job.lines[1]
    BY <2>3, <2>4
  <2>6. client'[conn].eof = TRUE /\ client'[conn].script = client[conn].script
        /\ client'[conn].read = client[conn].read
    BY <1>4, <2>1, ReadEndEffect DEF GetsEnd
  <2> QED
    BY <2>1, <2>5, <2>6 DEF Reading
<1>5. CASE ~Accept /\ ~Fork /\ ~GetsWhole /\ ~GetsEnd
  <2>1. /\ Handling /\ conn' = conn /\ conn \in Clients
        /\ client'[conn].read = client[conn].read /\ client'[conn].eof = client[conn].eof
        /\ client'[conn].script = client[conn].script
        /\ job'.lines = job.lines
        /\ Parses \/ LooksUp \/ Sends \/ Lists \/ job' = job
    BY <1>1, <1>5, HandlingBefore
  <2>2. job.step # "read" \/ job' = job
    BY <2>1 DEF Parses, LooksUp, Sends, Lists
  <2>3. job'.step # "read" \/ job' = job
    <3>1. job \in JobType
      BY JobFields
    <3> QED
      BY <2>1, <3>1 DEF Parses, LooksUp, Goes, Sends, Lists, Answers, JobType
  <2> QED
    BY <2>1, <2>2, <2>3 DEF Reading
<1> QED
  BY <1>2, <1>3, <1>4, <1>5

\* Every step keeps the path to the one asked for.
LEMMA ParsedStep ==
  ASSUME Types, Places, InQueue, Untouched, Reading, Parsed, Step \/ UNCHANGED vars
  PROVE  Parsed'
<1> SUFFICES ASSUME Handling', job'.step \in {"lookup", "list", "send", "finish"},
                    Whole(conn)'
             PROVE  ~job'.stray /\ job'.path = Target(client'[conn'].script[1].path)
  BY DEF Parsed
<1>0. job \in JobType
  BY JobFields
<1>1. CASE Accept \/ Fork
  BY <1>1, Begins, IdleSteps
<1>2. CASE GetsWhole \/ GetsEnd
  BY <1>0, <1>2 DEF GetsWhole, GetsEnd, Gets, JobType
<1>3. CASE ~Accept /\ ~Fork /\ ~GetsWhole /\ ~GetsEnd
  <2>1. /\ Handling /\ conn' = conn /\ conn \in Clients
        /\ client'[conn].read = client[conn].read
        /\ client'[conn].script = client[conn].script
        /\ Parses \/ LooksUp \/ Sends \/ Lists \/ job' = job
    BY <1>3, HandlingBefore
  <2>2. Whole(conn)
    BY <2>1 DEF Whole
  <2>3. CASE Parses
    <3>1. PICK path \in Seq(Names) :
            /\ WholeRequest => path = Target(job.lines[1].path)
            /\ job' = [job EXCEPT !.step = "lookup", !.path = path, !.stray = ~WholeRequest]
      BY <2>3 DEF Parses
    <3>2. job.lines # <<>> /\ job.lines[1] = client[conn].script[1]
      BY <2>1, <2>2 DEF Reading, Whole
    <3>3. WholeRequest
      BY <2>2, <3>2 DEF WholeRequest, Whole, WellFormed
    <3> QED
      BY <1>0, <2>1, <3>1, <3>2, <3>3 DEF JobType
  <2>4. CASE LooksUp \/ Sends \/ Lists
    <3>1. /\ job'.path = job.path /\ job'.stray = job.stray
          /\ job.step \in {"lookup", "list", "send", "finish"}
      BY <1>0, <2>4 DEF LooksUp, Goes, Sends, Lists, Answers, JobType
    <3> QED
      BY <2>1, <2>2, <3>1 DEF Parsed
  <2>5. CASE job' = job
    BY <2>1, <2>2, <2>5 DEF Parsed
  <2> QED
    BY <2>1, <2>3, <2>4, <2>5
<1> QED
  BY <1>1, <1>2, <1>3

-----------------------------------------------------------------------------
(***************************************************************************)
(* What was looked up and answered                                         *)
(***************************************************************************)

\* The kinds of files.
LEMMA Kinds == \A file : KindOf(file) \in {"text", "image", "directory", "missing"}
BY FilesAssumption DEF KindOf

\* Only handle() answers.
LEMMA GotStays ==
  ASSUME Types, Places, Step \/ UNCHANGED vars, NEW c \in Clients,
         ~(Sends \/ Lists) \/ c # conn
  PROVE  client'[c].got = client[c].got
<1>1. CASE GetsWhole
  BY <1>1, InHand, ReadOnEffect DEF GetsWhole
<1>2. CASE GetsEnd
  BY <1>2, InHand, ReadEndEffect DEF GetsEnd
<1>3. CASE ClientStep
  BY <1>3, ClientStepEffect DEF ClientStep
<1>4. CASE client' = client
  BY <1>4
<1>5. CASE Death
  BY <1>4, <1>5, InHand, ReadOnEffect DEF Death
<1>6. CASE Start \/ Accept \/ Fork \/ Reap \/ Parses \/ LooksUp \/ Finishes \/ Interrupt
  <2>1. client' = client
    BY <1>6 DEF Start, Accept, Fork, Reap, Parses, LooksUp, Finishes, Interrupt
  <2> QED
    BY <2>1
<1>7. CASE (Sends \/ Lists) /\ c # conn
  BY <1>7, InHand, AnswersEffect DEF Sends, Lists
<1> QED
  BY <1>1, <1>2, <1>3, <1>4, <1>5, <1>6, <1>7 DEF Step, vars

\* The answer to the client in hand is its first and has the answer looked up.
LEMMA FirstAnswer ==
  ASSUME Types, Places, Untouched, Sends \/ Lists
  PROVE  \/ client'[conn].got = <<>>
         \/ \E complete \in Complete(job.answer) :
              client'[conn].got =
                <<[answer |-> job.answer, file |-> Revised(job.path), complete |-> complete]>>
<1>1. Handling /\ conn \in Clients /\ job.step \in {"send", "list"}
  BY InHand, Going DEF HandlesOn, Sends, Lists
<1>2. client[conn].got = <<>>
  BY <1>1 DEF Untouched
<1>3. \A a : Append(<<>>, a) = <<a>>
  OBVIOUS
<1>4. \/ client'[conn].got = client[conn].got
      \/ \E complete \in Complete(job.answer) :
           client'[conn].got = Append(client[conn].got,
             [answer |-> job.answer, file |-> Revised(job.path), complete |-> complete])
  <2>1. \E freed : Answers(freed)
    BY DEF Sends, Lists
  <2> QED
    BY <1>1, <2>1, AnswersEffect
<1> QED
  BY <1>2, <1>3, <1>4, Zenon

\* Every step keeps the decision to the kind of the file.
LEMMA LookedUpStep ==
  ASSUME Types, Places, InQueue, Untouched, LookedUp, Step \/ UNCHANGED vars
  PROVE  LookedUp'
<1>0. job \in JobType
  BY JobFields
<1>1. SUFFICES ASSUME Handling' PROVE LookedUp'
  BY DEF LookedUp
<1>2. CASE Accept \/ Fork
  <2>1. job'.step = "read"
    BY <1>1, <1>2, Begins, IdleSteps
  <2> QED
    BY <2>1 DEF LookedUp
<1>3. CASE GetsWhole \/ GetsEnd
  <2>1. job'.step \in {"read", "parse"}
    BY <1>0, <1>3 DEF GetsWhole, GetsEnd, Gets, JobType
  <2> QED
    BY <2>1 DEF LookedUp
<1>4. CASE ~Accept /\ ~Fork /\ ~GetsWhole /\ ~GetsEnd
  <2>1. /\ Handling /\ conn' = conn /\ conn \in Clients
        /\ Parses \/ LooksUp \/ Sends \/ Lists \/ (job' = job /\ setup'.limit = setup.limit)
    BY <1>1, <1>4, HandlingBefore
  <2>2. CASE Parses
    <3>1. job'.step = "lookup"
      BY <1>0, <2>2 DEF Parses, JobType
    <3> QED
      BY <3>1 DEF LookedUp
  <2>3. CASE LooksUp
    <3> DEFINE kind == KindOf(Revised(job.path))
    <3>0. setup' = setup /\ job.step = "lookup"
      BY <2>3 DEF LooksUp
    <3>1. CASE kind \in {"text", "image"} /\
               Goes("send", "document", {"content_type", "message_body"})
      <4>1. job'.step = "send" /\ job'.answer = "document" /\ job'.path = job.path
        BY <1>0, <3>1 DEF Goes, JobType
      <4> QED
        BY <3>1, <4>1 DEF LookedUp, Fits
    <3>2. CASE /\ kind \in {"text", "image"} => Free(Handler) <= 0
               /\ kind # "directory"
               /\ Goes("send", "not found", {"revised_path", "content_type", "message_body"})
      <4>1. job'.step = "send" /\ job'.answer = "not found" /\ job'.path = job.path
        BY <1>0, <3>2 DEF Goes, JobType
      <4>2. kind = "missing" \/ Free(Handler) <= 0
        BY <3>2, Kinds
      <4>3. Free(Handler) <= 0 => setup.limit <= Cardinality(Clients)
        BY HandlerName, FreeNumber
      <4> QED
        BY <3>0, <4>1, <4>2, <4>3 DEF LookedUp, Fits
    <3>3. CASE kind \in {"directory", "missing"} /\ Goes("list", "listing", {"revised_path"})
      <4>1. job'.step = "list" /\ job'.answer = "listing" /\ job'.path = job.path
        BY <1>0, <3>3 DEF Goes, JobType
      <4> QED
        BY <3>3, <4>1 DEF LookedUp
    <3> HIDE DEF kind
    <3> QED
      BY <2>3, <3>1, <3>2, <3>3 DEF LooksUp, kind
  <2>4. CASE Sends \/ Lists
    <3>1. job'.step = "finish" /\ job'.answer = job.answer /\ job.step \in {"send", "list"}
      BY <1>0, <2>4 DEF Sends, Lists, Answers, JobType
    <3>2. job.answer # "none"
      BY <3>1, AnswerThere
    <3>3. client[conn].got = <<>>
      BY <2>1, <3>1 DEF Untouched
    <3>4. client'[conn].got # <<>> => client'[conn].got[1].answer = job.answer
      <4>1. \/ client'[conn].got = <<>>
            \/ \E complete \in Complete(job.answer) :
                 client'[conn].got =
                   <<[answer |-> job.answer, file |-> Revised(job.path), complete |-> complete]>>
        BY <2>4, FirstAnswer
      <4>2. CASE client'[conn].got = <<>>
        BY <4>2
      <4>3. ASSUME NEW complete,
                   client'[conn].got =
                     <<[answer |-> job.answer, file |-> Revised(job.path), complete |-> complete]>>
            PROVE  client'[conn].got[1].answer = job.answer
        BY <4>3
      <4> QED
        BY <4>1, <4>2, <4>3
    <3> QED
      BY <2>1, <3>1, <3>2, <3>4 DEF LookedUp
  <2>5. CASE job' = job /\ setup'.limit = setup.limit /\ ~Sends /\ ~Lists
    <3>1. client'[conn].got = client[conn].got
      BY <1>1, <2>1, <2>5, GotStays
    <3> QED
      BY <2>1, <2>5, <3>1 DEF LookedUp, Fits
  <2> QED
    BY <2>1, <2>2, <2>3, <2>4, <2>5
<1> QED
  BY <1>2, <1>3, <1>4

\* A client whose answer and script stay keeps its answer right.
LEMMA AnsweredSame ==
  ASSUME Types, Answered, NEW c \in Clients,
         setup'.limit = setup.limit,
         client'[c].got = client[c].got, client'[c].script = client[c].script,
         client'[c].got # <<>> /\ client'[c].read > 0 => client[c].read > 0
  PROVE  RightAnswer(c)'
<1>1. Whole(c)' /\ client'[c].got # <<>> => Whole(c)
  BY DEF Whole
<1>2. File(c)' = File(c)
  BY DEF File
<1>3. \A answer, file : Fits(answer, file)' = Fits(answer, file)
  BY DEF Fits
<1> DEFINE f == File(c)
           g == client[c].got
<1>4. g # <<>> /\ Whole(c) =>
        /\ g[1].file = f /\ (g[1].complete \/ KindOf(f) = "text") /\ Fits(g[1].answer, f)
  BY DEF Answered, RightAnswer
<1>5. Len(g) <= 1
  BY DEF Answered, RightAnswer
<1> HIDE DEF f
<1> QED
  BY <1>1, <1>2, <1>4, <1>5 DEF RightAnswer, Fits, f

\* The answer that is sent is right: first of its client, for the path parsed, of the kind looked up.
LEMMA AnsweredAnswers ==
  ASSUME Types, Places, Untouched, Parsed, LookedUp, Answered, Sends \/ Lists,
         NEW c \in Clients, c = conn
  PROVE  RightAnswer(c)'
<1>1. Handling /\ conn \in Clients /\ setup' = setup /\ job.step \in {"send", "list"}
  BY InHand, Going DEF HandlesOn, Sends, Lists
<1>2. client[conn].got = <<>>
  BY <1>1 DEF Untouched
<1>3. client'[conn].read = client[conn].read /\ client'[conn].script = client[conn].script
  BY <1>1, AnswersEffect DEF Sends, Lists
<1>4. conn' = conn /\ job.answer \in {"document", "not found", "listing"}
  BY <1>1, Going, AnswerThere, JobFields DEF HandlesOn
<1> DEFINE f == File(conn)
           g == client'[conn].got
<1>5. \/ g = <<>>
      \/ \E complete \in Complete(job.answer) :
           g = <<[answer |-> job.answer, file |-> Revised(job.path), complete |-> complete]>>
  BY FirstAnswer
<1>6. ASSUME Whole(conn)
      PROVE  /\ Revised(job.path) = f
             /\ \A complete \in Complete(job.answer) : complete \/ KindOf(f) = "text"
             /\ Fits(job.answer, f)
  <2>1. Revised(job.path) = f
    BY <1>1, <1>6 DEF Parsed, File
  <2>2. \A complete \in Complete(job.answer) : complete \/ KindOf(f) = "text"
    BY <2>1 DEF Complete
  <2>3. CASE Sends
    BY <1>1, <2>1, <2>2, <2>3 DEF LookedUp, Sends
  <2>4. CASE Lists
    BY <1>1, <2>1, <2>2, <2>4 DEF LookedUp, Lists, CanList, Fits
  <2> QED
    BY <2>3, <2>4
<1>7. Whole(c)' => Whole(conn)
  BY <1>3 DEF Whole
<1>8. File(c)' = f
  BY <1>3 DEF File
<1>9. \A answer, file : Fits(answer, file)' = Fits(answer, file)
  BY <1>1 DEF Fits
<1> HIDE DEF f
<1>10. CASE g = <<>>
  BY <1>10 DEF RightAnswer
<1>11. ASSUME NEW complete \in Complete(job.answer),
              g = <<[answer |-> job.answer, file |-> Revised(job.path), complete |-> complete]>>
       PROVE  RightAnswer(c)'
  <2>1. /\ Len(g) = 1 /\ g[1].answer = job.answer
        /\ g[1].file = Revised(job.path) /\ g[1].complete = complete
    BY <1>11
  <2> HIDE DEF g
  <2>2. Whole(c)' =>
          /\ g[1].file = f /\ (g[1].complete \/ KindOf(f) = "text") /\ Fits(g[1].answer, f)
    BY <1>6, <1>7, <2>1
  <2> QED
    BY <1>1, <1>8, <1>9, <2>1, <2>2 DEF RightAnswer, Fits, g
<1> QED
  BY <1>5, <1>10, <1>11

\* The limits are set at the start.
LEMMA LimitStays ==
  ASSUME Types, Places, Step \/ UNCHANGED vars
  PROVE  setup'.limit = setup.limit /\ setup'.mode = setup.mode
<1>1. CASE Start
  BY <1>1 DEF Start, Types
<1>2. CASE Accept \/ Fork \/ Reap \/ Finishes \/ Death \/ Interrupt \/ UNCHANGED vars
  BY <1>2 DEF Accept, Fork, Reap, Finishes, Death, Interrupt, vars
<1>3. CASE GetsWhole \/ GetsEnd \/ Parses \/ LooksUp \/ Sends \/ Lists
  BY <1>3, Going DEF HandlesOn
<1>4. CASE ClientStep
  BY <1>4, ClientStepEffect DEF ClientStep
<1> QED
  BY <1>1, <1>2, <1>3, <1>4 DEF Step

\* Of a client that was answered nothing more is read for the first time.
LEMMA ReadStays ==
  ASSUME Types, Places, Untouched, Step \/ UNCHANGED vars, NEW c \in Clients,
         client'[c].read # client[c].read
  PROVE  client[c].got = <<>> /\ (GetsWhole \/ Death) /\ c = conn
<1>1. CASE GetsWhole
  <2>1. conn \in Clients /\ Handling /\ job.step = "read" /\ ReadOn
    BY <1>1, InHand DEF GetsWhole
  <2> QED
    BY <1>1, <2>1, ReadOnEffect DEF Untouched
<1>2. CASE GetsEnd
  BY <1>2, InHand, ReadEndEffect DEF GetsEnd
<1>3. CASE ClientStep
  BY <1>3, ClientStepEffect DEF ClientStep
<1>4. CASE Death
  <2>1. ReadsOdd /\ ReadOn /\ conn \in Clients
    BY <1>4, InHand DEF Death
  <2> QED
    BY <1>4, <2>1, ReadOnEffect DEF Untouched, ReadsOdd
<1>5. CASE Start \/ Accept \/ Fork \/ Reap \/ Parses \/ LooksUp \/ Finishes \/ Interrupt
           \/ UNCHANGED vars
  <2>1. client' = client
    BY <1>5 DEF Start, Accept, Fork, Reap, Parses, LooksUp, Finishes, Interrupt, vars
  <2> QED
    BY <2>1
<1>6. CASE Sends \/ Lists
  BY <1>6, InHand, AnswersEffect DEF Sends, Lists
<1> QED
  BY <1>1, <1>2, <1>3, <1>4, <1>5, <1>6 DEF Step

\* Every step keeps the answers right.
LEMMA AnsweredStep ==
  ASSUME Types, Places, Untouched, Parsed, LookedUp, Answered, Step \/ UNCHANGED vars
  PROVE  Answered'
<1> SUFFICES ASSUME NEW c \in Clients PROVE RightAnswer(c)'
  BY DEF Answered
<1>1. CASE (Sends \/ Lists) /\ c = conn
  BY <1>1, AnsweredAnswers
<1>2. CASE ~(Sends \/ Lists) \/ c # conn
  <2>1. client'[c].got = client[c].got
    BY <1>2, GotStays
  <2>2. client'[c].script = client[c].script
    BY ClientsStay
  <2>3. setup'.limit = setup.limit
    BY LimitStays
  <2>4. client'[c].got # <<>> /\ client'[c].read > 0 => client[c].read > 0
    BY <2>1, ReadStays
  <2> QED
    BY <2>1, <2>2, <2>3, <2>4, AnsweredSame
<1> QED
  BY <1>1, <1>2

-----------------------------------------------------------------------------
(***************************************************************************)
(* The blocks that handle() uses                                           *)
(***************************************************************************)

\* The blocks of a whole request line.
LEMMA RequestThree ==
  RequestBlocks(3) = Mine({"method", "raw_path", "http_version"})
<1>1. {<<"method", "raw_path", "http_version">>[i] : i \in 1..3}
        = {"method", "raw_path", "http_version"}
  <2>1. 1..3 = {1, 2, 3}
    OBVIOUS
  <2> QED
    BY <2>1
<1> QED
  BY <1>1 DEF RequestBlocks

\* Those of a shorter one are among them.
LEMMA RequestSome == \A n \in 0..3 : RequestBlocks(n) \subseteq RequestBlocks(3)
<1> SUFFICES ASSUME NEW n \in 0..3 PROVE RequestBlocks(n) \subseteq RequestBlocks(3)
  OBVIOUS
<1>1. {<<"method", "raw_path", "http_version">>[i] : i \in 1..n} \subseteq
      {<<"method", "raw_path", "http_version">>[i] : i \in 1..3}
  OBVIOUS
<1> QED
  BY <1>1 DEF RequestBlocks, Mine

\* The blocks whose names differ.
LEMMA MineElements ==
  ASSUME NEW names
  PROVE  /\ \A n \in names : <<conn, n, 0>> \in Mine(names)
         /\ \A b \in Mine(names) : b[1] = conn /\ b[2] \in names
         /\ \A n : n \notin names => <<conn, n, 0>> \notin Mine(names)
         /\ \A n, k : n \notin names => <<conn, n, k>> \notin Mine(names)
BY DEF Mine

\* A request begins with the block of its socket.
LEMMA OwnedBegins ==
  ASSUME Types, Places, InQueue, Untouched, Owned, Accept \/ Fork
  PROVE  Owned'
<1>1. CASE Handling'
  <2>1. job'.step = "read" /\ job'.lines = <<>>
    BY <1>1, Begins, IdleSteps
  <2>2. <<conn', "sock", 0>> \in heap'
    <3>1. CASE Accept
      BY <1>1, <3>1, Accepted DEF Handling
    <3>2. CASE Fork
      <4>1. conn' = conn /\ heap' = heap /\ loop = "fork"
        BY <3>2 DEF Fork
      <4> QED
        BY <1>1, <4>1 DEF Owned, Handling
    <3> QED
      BY <3>1, <3>2
  <2>3. Mines("line", DOMAIN job.lines)' = {}
    BY <2>1 DEF Mines
  <2> QED
    BY <2>1, <2>2, <2>3 DEF Owned, Past
<1>2. CASE ~Handling'
  <2>1. ASSUME loop' = "fork", conn' # NoClient
        PROVE  <<conn', "sock", 0>> \in heap'
    <3>1. Accept
      BY <2>1 DEF Fork
    <3> QED
      BY <2>1, <3>1, Accepted
  <2> QED
    BY <1>2, <2>1 DEF Owned, Past
<1> QED
  BY <1>1, <1>2

\* Reading allocates the lines.
LEMMA OwnedGets ==
  ASSUME Types, Places, Owned, Handling, conn' = conn, NEW l, Gets(l), job.step = "read"
  PROVE  Owned'
<1>1. /\ job'.step = (IF l = EmptyLine THEN "parse" ELSE job.step)
      /\ job'.lines = IF l = EmptyLine THEN job.lines ELSE Append(job.lines, l)
  BY GetsLines
<1>2. job.lines \in Seq(Lines)
  BY JobFields
<1>3. /\ heap \subseteq heap' /\ <<conn, "general_lines", 0>> \in heap'
      /\ l # EmptyLine => <<conn, "line", Len(job.lines) + 1>> \in heap'
  BY MineElements DEF Gets, Mines
<1>4. \A i \in DOMAIN job'.lines : i \in DOMAIN job.lines
                                   \/ (l # EmptyLine /\ i = Len(job.lines) + 1)
  BY <1>1, <1>2
<1>5. \A i \in DOMAIN job.lines : <<conn, "line", i>> \in heap
  BY DEF Owned, Mines
<1>6. Mines("line", DOMAIN job.lines)' \subseteq heap'
  BY <1>3, <1>4, <1>5 DEF Mines
<1>7. <<conn, "sock", 0>> \in heap
  BY DEF Owned, Handling
<1>8. job'.step \in {"read", "parse"} /\ loop' = loop
  BY <1>1 DEF Gets
<1> QED
  BY <1>3, <1>6, <1>7, <1>8 DEF Owned, Past

\* Parsing allocates the request.
LEMMA OwnedParses ==
  ASSUME Types, Places, Owned, Parses
  PROVE  Owned'
<1>1. HandlesOn /\ job.step = "parse"
  BY Going DEF Parses
<1>2. Handling /\ conn' = conn
  BY <1>1 DEF HandlesOn
<1>3. job \in JobType
  BY JobFields
<1>4. job'.step = "lookup" /\ job'.lines = job.lines /\ job'.stray = ~WholeRequest
  BY <1>3 DEF Parses, JobType
<1>5. PICK keyOnly : ParseHeaders(keyOnly)
  BY DEF Parses
<1>6. \A b \in heap : b[2] # "buffer" => b \in heap'
  BY <1>5 DEF ParseHeaders, Mine
<1>7. <<conn, "sock", 0>> \in heap' /\ <<conn, "general_lines", 0>> \in heap'
  <2>1. <<conn, "sock", 0>> \in heap /\ <<conn, "general_lines", 0>> \in heap
    BY <1>1, <1>2 DEF Owned, Past, Steps, Handling
  <2> QED
    BY <1>6, <2>1
<1>8. Mines("line", DOMAIN job.lines) \subseteq heap'
  BY <1>2, <1>6 DEF Owned, Mines
<1>9. <<conn, "header_array", 0>> \in heap'
  BY <1>5, MineElements DEF ParseHeaders
<1>10. WholeRequest => RequestBlocks(3) \subseteq heap'
  BY <1>5 DEF ParseHeaders, WholeRequest
<1>11. /\ Mines("line", DOMAIN job.lines)' = Mines("line", DOMAIN job.lines)
       /\ RequestBlocks(3)' = RequestBlocks(3)
  BY <1>2, <1>4 DEF Mines, RequestBlocks, Mine
<1> QED
  BY <1>2, <1>4, <1>7, <1>8, <1>9, <1>10, <1>11 DEF Owned, Past

\* Of the parts that stay in place later steps free nothing.
LEMMA OwnedLater ==
  ASSUME Types, Places, Owned, LooksUp \/ Sends \/ Lists
  PROVE  Owned'
<1>1. HandlesOn /\ job.step \in {"lookup", "send", "list"}
  BY Going DEF LooksUp, Sends, Lists
<1>2. Handling /\ conn' = conn
  BY <1>1 DEF HandlesOn
<1>3. job \in JobType
  BY JobFields
<1>4. job'.lines = job.lines /\ job'.stray = job.stray
      /\ job'.step \in {"send", "list", "finish"}
  BY <1>3 DEF LooksUp, Goes, Sends, Lists, Answers, JobType
<1>5. \A b \in heap : b[2] \notin {"content_type", "message_body", "revised_path"} => b \in heap'
  BY DEF LooksUp, Goes, Sends, Lists, Answers, Mine
<1>6. /\ <<conn, "sock", 0>> \in heap' /\ <<conn, "general_lines", 0>> \in heap'
      /\ <<conn, "header_array", 0>> \in heap'
  <2>1. /\ <<conn, "sock", 0>> \in heap /\ <<conn, "general_lines", 0>> \in heap
        /\ <<conn, "header_array", 0>> \in heap
    BY <1>1, <1>2 DEF Owned, Past, Steps, Handling
  <2> QED
    BY <1>5, <2>1
<1>7. Mines("line", DOMAIN job.lines) \subseteq heap'
  BY <1>2, <1>5 DEF Owned, Mines
<1>8. ~job.stray => RequestBlocks(3) \subseteq heap'
  <2>1. ~job.stray => RequestBlocks(3) \subseteq heap
    BY <1>1, <1>2 DEF Owned, Past, Steps, Handling
  <2>2. \A b \in RequestBlocks(3) : b[2] \notin {"content_type", "message_body", "revised_path"}
    BY RequestThree, MineElements
  <2> QED
    BY <1>5, <2>1, <2>2
<1>9. /\ Mines("line", DOMAIN job.lines)' = Mines("line", DOMAIN job.lines)
      /\ RequestBlocks(3)' = RequestBlocks(3)
  BY <1>2, <1>4 DEF Mines, RequestBlocks, Mine
<1>10. /\ job'.step = "send" => Mine({"content_type", "message_body"})' \subseteq heap'
       /\ job'.step = "list" => <<conn, "revised_path", 0>> \in heap'
  BY <1>2, <1>3 DEF LooksUp, Goes, Sends, Lists, Answers, JobType, Mine
<1> QED
  BY <1>2, <1>4, <1>6, <1>7, <1>8, <1>9, <1>10 DEF Owned, Past

\* Every step keeps the blocks that handle() will use.
LEMMA OwnedStep ==
  ASSUME Types, Places, InQueue, Untouched, Owned, Step \/ UNCHANGED vars
  PROVE  Owned'
<1>1. CASE GetsWhole \/ GetsEnd
  BY <1>1, OwnedGets DEF GetsWhole, GetsEnd
<1>2. CASE Death \/ Finishes \/ Interrupt \/ Reap
  <2>1. ~Handling'
    BY <1>2, OverSteps
  <2>2. loop' # "fork"
    <3>1. Active => loop # "fork"
      BY DEF Places
    <3>2. Finishes => Active
      BY DEF Finishes, Active, Steps
    <3> QED
      BY <1>2, <3>1, <3>2 DEF Death, Dies, AfterDeath, Finishes, Interrupt, Reap
  <2> QED
    BY <2>1, <2>2 DEF Owned, Past
<1>3. CASE Start
  <2>1. loop' # "fork" /\ UNCHANGED <<conn, job, heap>>
    BY <1>3 DEF Start
  <2> QED
    BY <2>1 DEF Owned, Past, Handling, Active, Mine, Mines, RequestBlocks
<1>4. CASE ClientStep \/ UNCHANGED vars
  <2>1. UNCHANGED <<loop, conn, job, heap>>
    BY <1>4 DEF ClientStep, Connect, SendLine, Receive, Stop, vars
  <2> QED
    BY <2>1 DEF Owned, Past, Handling, Active, Mine, Mines, RequestBlocks
<1> QED
  BY <1>1, <1>2, <1>3, <1>4, OwnedBegins, OwnedParses, OwnedLater DEF Step

-----------------------------------------------------------------------------
(***************************************************************************)
(* Damage, and what ends the server                                        *)
(***************************************************************************)

\* A client that does not behave does not begin to.
LEMMA BehavesStays ==
  ASSUME Types, Places, Step \/ UNCHANGED vars, NEW c \in Clients, Behaves(c)'
  PROVE  Behaves(c)
BY ClientsStay DEF Behaves

\* The input of a client that behaves is whole, and so are its lines.
LEMMA BehavesWhole ==
  ASSUME Types, Places, InQueue, Untouched, Reading, Handling, job.step # "read",
         Behaves(conn)
  PROVE  /\ conn \in Clients /\ Whole(conn) /\ WholeRequest
         /\ BareHeaders = {}
<1>1. conn \in Clients /\ client[conn].at \in {"away", "here"}
  BY ClientFields DEF Types, Handling, Behaves
<1>2. ~client[conn].eof /\ WellFormed(client[conn].script)
  BY <1>1 DEF Untouched, Behaves
<1>3. Whole(conn) /\ job.lines # <<>> /\ job.lines[1] = client[conn].script[1]
  BY <1>2 DEF Reading, Whole
<1>4. client[conn].script \in Seq(Lines) /\ job.lines \in Seq(Lines)
  BY <1>1, ClientFields, JobFields
<1>5. WholeRequest
  BY <1>2, <1>3, <1>4, WellFormedLines DEF WholeRequest
<1>6. ASSUME NEW i \in BareHeaders PROVE FALSE
  <2>1. i \in DOMAIN job.lines /\ job.lines[i].words < 2
    BY <1>4 DEF BareHeaders
  <2>2. i < Len(client[conn].script) /\ job.lines[i] = client[conn].script[i]
    BY <1>2, <2>1 DEF Reading
  <2>3. i \in 1..Len(client[conn].script)
    BY <1>4, <2>1, <2>2
  <2>4. client[conn].script[i].words >= 2 /\ client[conn].script[i] \in Lines
    BY <1>2, <1>4, <2>2, <2>3, WellFormedLines
  <2>5. client[conn].script[i].words \in 0..3
    BY <2>4, LineTypes
  <2> QED
    BY <2>1, <2>2, <2>4, <2>5
<1> QED
  BY <1>1, <1>3, <1>5, <1>6

\* A request with a variable never assigned is of a client that misbehaves.
LEMMA StrayMisbehaves ==
  ASSUME Types, Places, InQueue, Untouched, Reading, Parsed, Handling,
         job.step \in {"lookup", "list", "send", "finish"}, job.stray
  PROVE  conn \in Clients /\ ~Behaves(conn)
<1>1. conn \in Clients
  BY DEF Types, Handling
<1> QED
  BY <1>1, BehavesWhole DEF Parsed

\* A block is freed twice, or freed without having been allocated, only in a request that is malformed.
LEMMA DamageStep ==
  ASSUME Types, Places, InQueue, Untouched, Reading, Parsed, Owned, DamageExplained,
         Step \/ UNCHANGED vars
  PROVE  DamageExplained'
<1>1. ASSUME NEW c \in Clients, ~Behaves(c) PROVE DamageExplained'
  BY <1>1, BehavesStays DEF DamageExplained
<1>2. CASE damaged
  BY <1>1, <1>2 DEF DamageExplained
<1>3. CASE ~damaged /\ Parses
  <2>1. Handling /\ conn \in Clients /\ job.step = "parse"
    BY <1>3, Going DEF HandlesOn, Handling, Types, Parses
  <2>2. PICK keyOnly \in SUBSET BareHeaders : ParseHeaders(keyOnly)
    BY <1>3 DEF Parses
  <2>3. CASE keyOnly = BareHeaders
    BY <1>3, <2>2, <2>3 DEF ParseHeaders, DamageExplained
  <2>4. CASE keyOnly # BareHeaders
    <3>1. BareHeaders # {}
      BY <2>4
    <3>2. ~Behaves(conn)
      BY <2>1, <3>1, BehavesWhole
    <3> QED
      BY <1>1, <2>1, <3>2
  <2> QED
    BY <2>3, <2>4
<1>4. CASE ~damaged /\ (Sends \/ Lists)
  <2>1. Handling
    BY <1>4, Going DEF HandlesOn
  <2>2. Sends => Mine({"content_type", "message_body"}) \subseteq heap
    BY <2>1 DEF Sends, Owned, Past
  <2>3. Lists => Mine({"revised_path"}) \subseteq heap
    BY <2>1 DEF Lists, Owned, Past, Mine
  <2> QED
    BY <1>4, <2>2, <2>3 DEF Sends, Lists, Answers, DamageExplained
<1>5. CASE ~damaged /\ Finishes
  <2>1. Handling /\ conn \in Clients /\ job.step = "finish"
    BY <1>5, HandlingNow DEF Finishes, Steps
  <2>2. CASE job.stray
    BY <1>1, <2>1, <2>2, StrayMisbehaves
  <2>3. CASE ~job.stray
    <3>1. /\ RequestBlocks(3) \subseteq heap /\ <<conn, "header_array", 0>> \in heap
          /\ <<conn, "general_lines", 0>> \in heap /\ <<conn, "sock", 0>> \in heap
          /\ Mines("line", DOMAIN job.lines) \subseteq heap
      BY <2>1, <2>3 DEF Owned, Past, Steps, Handling
    <3>2. Mine({"general_lines", "header_array", "sock"}) \subseteq heap
      BY <3>1 DEF Mine
    <3>3. OwnBlocks \subseteq heap
      BY <3>1, <3>2 DEF OwnBlocks
    <3> QED
      BY <1>5, <2>3, <3>3 DEF Finishes, DamageExplained
  <2> QED
    BY <2>2, <2>3
<1>6. CASE ~damaged /\ ~Parses /\ ~Sends /\ ~Lists /\ ~Finishes
  <2>1. damaged' = FALSE
    BY <1>6, ClientStepEffect DEF Step, Start, Accept, Fork, Reap, GetsWhole, GetsEnd, Gets,
       LooksUp, Goes, Death, Dies, Interrupt, ClientStep, vars, Types
  <2> QED
    BY <2>1 DEF DamageExplained
<1> QED
  BY <1>2, <1>3, <1>4, <1>5, <1>6

\* What StaysUp allows to end the linear server.
Excused ==
  \/ setup.limit < 4
  \/ \E c \in Clients :
       ~Behaves(c) \/ KindOf(File(c)) = "missing" \/ Len(File(c)) < 3

\* A reason for the end of the server stays one.
LEMMA ExcusedStays ==
  ASSUME Types, Places, Step \/ UNCHANGED vars, Excused
  PROVE  Excused'
<1>1. \A c \in Clients : (Behaves(c)' => Behaves(c)) /\ File(c)' = File(c)
  BY BehavesStays, ClientsStay DEF File
<1>2. setup'.limit = setup.limit
  BY LimitStays
<1> QED
  BY <1>1, <1>2 DEF Excused

\* The linear server has one descriptor of its own per connection.
LEMMA LinearFree ==
  ASSUME Types, Places, Handling, setup.mode = "linear"
  PROVE  Free(Handler) = setup.limit - 1 /\ setup.limit \in Nat
<1>1. held["server"] = {conn} /\ Handler = "server"
  BY DEF Places, Handler
<1>2. Cardinality(held["server"]) = 1
  BY <1>1, FS_Singleton
<1> QED
  BY <1>1, <1>2, FreeNumber

\* Every end of the linear server has such a reason.
LEMMA DeathExcused ==
  ASSUME Types, Places, InQueue, Untouched, Reading, Parsed, LookedUp, DamageExplained,
         Death, setup.mode = "linear", faults' = 0
  PROVE  Excused
<1>0. faults = 0 /\ Active /\ loop = "handle"
  BY DEF Death, Types, Places
<1>1. CASE job.step = "read" /\ conn = NoClient
  BY <1>0, <1>1 DEF Places, Excused
<1>2. ASSUME Handling, ~Behaves(conn) PROVE Excused
  BY <1>2 DEF Excused, Handling, Types
<1>3. CASE ReadsOdd
  <2>1. conn \in Clients /\ Handling
    BY <1>3 DEF ReadsOdd, Handling, Types
  <2>2. client[conn].script \in Seq(Lines) /\ client[conn].read \in Nat
    BY <2>1, ClientFields
  <2>3. client[conn].read + 1 \in 1..Len(client[conn].script)
    BY <1>3, <2>2 DEF ReadsOdd
  <2>4. ~WellFormed(client[conn].script)
    BY <1>3, <2>2, <2>3, WellFormedLines DEF ReadsOdd
  <2> QED
    BY <1>2, <2>1, <2>4 DEF Behaves
<1>4. CASE job.step # "read"
  <2>1. Handling /\ conn \in Clients
    BY <1>0, <1>4, HandlingNow DEF Active
  <2>2. CASE job.step = "parse" /\ (~WholeRequest \/ BareHeaders # {})
    BY <1>2, <1>4, <2>1, <2>2, BehavesWhole
  <2>3. CASE job.step = "lookup" /\ (Free(Handler) < 3 \/ faults' = faults + 1)
    BY <1>0, <2>1, <2>3, LinearFree DEF Excused
  <2>4. CASE client[conn].at = "gone"
    BY <1>2, <2>1, <2>4 DEF Behaves
  <2>5. CASE job.step \in {"send", "list", "finish"} /\ job.stray
    BY <1>2, <2>1, <2>5, StrayMisbehaves
  <2>6. CASE job.step = "list" /\ ~CanList(Revised(job.path))
    <3>1. CASE ~Behaves(conn)
      BY <1>2, <2>1, <3>1
    <3>2. CASE Behaves(conn)
      <4>1. Whole(conn)
        BY <1>4, <2>1, <3>2, BehavesWhole
      <4>2. Revised(job.path) = File(conn)
        BY <2>1, <2>6, <4>1 DEF Parsed, File
      <4>3. KindOf(File(conn)) \in {"directory", "missing"}
        BY <2>1, <2>6, <4>2 DEF LookedUp
      <4>4. Len(File(conn)) \in Nat
        <5>1. job.path \in Seq(Names)
          BY <2>6 DEF Places
        <5>2. File(conn) \in Seq(Names)
          BY <4>2, <5>1, RevisedType
        <5> QED
          BY <5>2
      <4>5. Free(Handler) = setup.limit - 1 /\ setup.limit \in Nat
        BY <2>1, LinearFree
      <4>6. KindOf(File(conn)) = "missing" \/ Len(File(conn)) < 3 \/ setup.limit < 4
        BY <2>6, <4>2, <4>3, <4>4, <4>5 DEF CanList
      <4> QED
        BY <2>1, <4>6 DEF Excused
    <3> QED
      BY <3>1, <3>2
  <2>7. CASE damaged
    BY <2>7 DEF DamageExplained, Excused
  <2> QED
    BY <1>4, <2>2, <2>3, <2>4, <2>5, <2>6, <2>7 DEF Death, Reason, ReadsOdd
<1>5. CASE damaged
  BY <1>5 DEF DamageExplained, Excused
<1> QED
  BY <1>1, <1>3, <1>4, <1>5 DEF Death, Reason

\* Every step keeps the server up, or has a reason.
LEMMA StaysUpStep ==
  ASSUME Types, Places, InQueue, Untouched, Reading, Parsed, LookedUp, DamageExplained,
         StaysUp, Step \/ UNCHANGED vars, Places'
  PROVE  StaysUp'
<1> SUFFICES ASSUME loop' = "ended", faults' = 0, setup'.mode # "threads"
             PROVE  setup'.mode = "linear" /\ Excused'
  BY DEF StaysUp, Excused
<1>1. setup'.mode = "linear" /\ setup.mode = "linear"
  BY LimitStays DEF Places
<1>2. CASE loop = "ended" /\ faults = 0
  <2>1. Excused
    BY <1>1, <1>2 DEF StaysUp, Excused
  <2> QED
    BY <1>1, <2>1, ExcusedStays
<1>3. CASE Death
  BY <1>1, <1>3, DeathExcused, ExcusedStays
<1>4. CASE Start
  BY <1>1, <1>4 DEF Start, Fails, Types
<1>5. CASE ~Death /\ ~Start
  <2>1. loop' \notin {"accept", "handle", "fork", "wait", "interrupted"}
    OBVIOUS
  <2>2. UNCHANGED <<loop, faults>>
    <3>1. CASE Accept \/ Fork \/ Reap \/ Interrupt
      BY <2>1, <3>1 DEF Accept, Fork, Reap, Interrupt
    <3>2. CASE Finishes
      BY <2>1, <3>2 DEF Finishes
    <3>3. CASE GetsWhole \/ GetsEnd \/ Parses \/ LooksUp \/ Sends \/ Lists
      BY <3>3, Going DEF HandlesOn
    <3>4. CASE ClientStep \/ UNCHANGED vars
      BY <3>4, ClientStepEffect DEF ClientStep, vars
    <3> QED
      BY <1>5, <3>1, <3>2, <3>3, <3>4 DEF Step
  <2> QED
    BY <1>2, <2>2
<1> QED
  BY <1>3, <1>4, <1>5

-----------------------------------------------------------------------------
(***************************************************************************)
(* What the linear server keeps                                            *)
(***************************************************************************)

\* Where a block may be: with a request that is over, and not with the one in hand.
Seen(c) == client[c].at # "away" /\ ~Queued(c)

\* A client that was accepted does not wait again.
LEMMA SeenStays ==
  ASSUME Types, Places, InQueue, Step \/ UNCHANGED vars, NEW c \in Clients, Seen(c)
  PROVE  Seen(c)'
<1>1. ~Waits(c)' \/ Waits(c)
  BY WaitsStay
<1>2. client[c].at # "away" /\ ~Queued(c)
  BY DEF Seen
<1>3. client'[c].at # "away"
  BY <1>2, ClientsStay
<1>4. ~Queued(c)'
  <2>0. queue \in Seq(Clients)
    BY DEF Types
  <2>1. CASE ClientStep
    <3>1. PICK d \in Clients : Connect(d) \/ SendLine(d) \/ Receive(d) \/ Stop(d)
      BY <2>1 DEF ClientStep
    <3>2. queue' = IF Connect(d) THEN Append(queue, d) ELSE queue
      BY <3>1, ClientStepEffect
    <3>3. Connect(d) => d # c
      BY <1>2 DEF Connect
    <3> QED
      BY <1>2, <2>0, <3>2, <3>3, AppendElements DEF Queued
  <2>2. CASE Accept
    <3>1. queue' = queue \/ (queue # <<>> /\ queue' = Tail(queue))
      BY <2>2 DEF Accept
    <3> QED
      BY <1>2, <2>0, <3>1, TailElements DEF Queued
  <2>3. CASE Interrupt
    BY <2>3 DEF Interrupt, Queued
  <2>4. CASE ~ClientStep /\ ~Accept /\ ~Interrupt
    <3>1. queue' = queue
      BY <2>4, Going DEF Step, Start, Fork, Reap, Finishes, Death, HandlesOn, vars
    <3> QED
      BY <1>2, <3>1 DEF Queued
  <2> QED
    BY <2>1, <2>2, <2>3, <2>4
<1> QED
  BY <1>3, <1>4 DEF Seen

\* What an earlier request left stays as it is.
LEMMA LeftStays ==
  ASSUME Types, Places, Step \/ UNCHANGED vars, NEW b \in Clients \X BlockNames \X Nat,
         Left(b), ~(Sends \/ Lists) \/ b[1] # conn
  PROVE  Left(b)'
<1>1. b[1] \in Clients
  OBVIOUS
<1>2. client'[b[1]].got = client[b[1]].got
  BY <1>1, GotStays
<1>3. Behaves(b[1])' => Behaves(b[1])
  BY <1>1, BehavesStays
<1> QED
  BY <1>2, <1>3 DEF Left

\* So what is to show of a step is only what becomes of new blocks and of the
\* blocks of the request in hand.
BlockRight(b) == IF Handling /\ b[1] = conn THEN InUse(b) ELSE Left(b)
\* It is enough to look at the blocks that are new and at those of the connection in hand.
LEMMA OnlyInHand ==
  ASSUME Types, Places, InQueue, NothingElse, Step \/ UNCHANGED vars,
         setup'.mode = "linear" =>
           \A b \in heap' :
             /\ b \notin heap => Seen(b[1])'
             /\ b \notin heap \/ (Handling /\ b[1] = conn)
                  \/ (Handling' /\ b[1] = conn') => BlockRight(b)',
         Types'
  PROVE  NothingElse'
<1> SUFFICES ASSUME setup'.mode = "linear", NEW b \in heap'
             PROVE  Seen(b[1])' /\ BlockRight(b)'
  BY DEF NothingElse, Seen, BlockRight
<1>1. setup.mode = "linear" /\ b \in Clients \X BlockNames \X Nat
  BY LimitStays DEF Types
<1>2. CASE b \notin heap
  BY <1>2
<1>3. CASE b \in heap
  <2>1. Seen(b[1]) /\ BlockRight(b) /\ b[1] \in Clients
    BY <1>1, <1>3 DEF NothingElse, Seen, BlockRight
  <2>2. Seen(b[1])'
    BY <2>1, SeenStays
  <2>3. CASE (Handling /\ b[1] = conn) \/ (Handling' /\ b[1] = conn')
    BY <2>2, <2>3
  <2>4. CASE ~(Handling /\ b[1] = conn) /\ ~(Handling' /\ b[1] = conn')
    <3>1. Left(b)
      BY <2>1, <2>4 DEF BlockRight
    <3>2. Sends \/ Lists => b[1] # conn
      BY <2>4, Going DEF HandlesOn
    <3>3. Left(b)'
      BY <1>1, <3>1, <3>2, LeftStays
    <3> QED
      BY <2>2, <2>4, <3>3 DEF BlockRight
  <2> QED
    BY <2>3, <2>4
<1> QED
  BY <1>2, <1>3

\* The next connection begins with nothing but its socket: what earlier requests left is of other clients.
LEMMA NothingElseAccept ==
  ASSUME Types, Places, InQueue, Untouched, NothingElse, Accept, Types', InQueue'
  PROVE  NothingElse'
<1> SUFFICES ASSUME setup'.mode = "linear", NEW b \in heap',
                    b \notin heap \/ (Handling /\ b[1] = conn) \/ (Handling' /\ b[1] = conn')
             PROVE  Seen(b[1])' /\ BlockRight(b)'
  BY OnlyInHand DEF Step
<1>1. setup.mode = "linear" /\ ~Handling /\ client' = client
  BY DEF Accept, Places, Handling
<1>2. conn' # NoClient
  <2>1. CASE Handling'
    BY <2>1 DEF Handling
  <2>2. CASE b \notin heap
    <3>1. queue # <<>> /\ conn' = Head(queue)
      BY <2>2 DEF Accept
    <3>2. queue \in Seq(Clients)
      BY DEF Types
    <3> QED
      BY <3>1, <3>2, TailElements
  <2> QED
    BY <1>1, <2>1, <2>2
<1>3. /\ conn' \in Clients /\ Queued(conn') /\ heap' = heap \cup {<<conn', "sock", 0>>}
      /\ client[conn'].at # "away"
  BY <1>2, Accepted
<1>4. b \in heap => b[1] # conn'
  BY <1>1, <1>3 DEF NothingElse
<1>5. b = <<conn', "sock", 0>> /\ b[1] = conn'
  BY <1>1, <1>3, <1>4
<1>6. Seen(b[1])'
  BY <1>1, <1>3, <1>5 DEF Seen, InQueue, Queued
<1>7. Active' /\ Handling'
  BY <1>1, <1>2, IdleSteps DEF Accept, Active, Steps, Handling
<1>8. b \in Mine({"general_lines", "header_array", "sock"})'
  BY <1>5 DEF Mine
<1> QED
  BY <1>5, <1>6, <1>7, <1>8 DEF BlockRight, InUse, OwnBlocks

\* When handle() is over only what it never frees is left.
LEMMA NothingElseOver ==
  ASSUME Types, Places, InQueue, Untouched, Reading, LookedUp, NothingElse,
         Death \/ Finishes \/ Interrupt \/ Reap, Types'
  PROVE  NothingElse'
<1>1. ~Handling' /\ setup' = setup
  BY OverSteps
<1>2. CASE Death \/ Interrupt
  BY <1>2 DEF Death, Dies, Interrupt, NothingElse
<1>3. CASE Reap
  BY <1>1, <1>3 DEF Reap, Places, NothingElse
<1>4. CASE Finishes
  <2> SUFFICES ASSUME setup.mode = "linear", NEW b \in heap', Handling, b[1] = conn
               PROVE  BlockRight(b)'
    BY <1>1, <1>4, OnlyInHand DEF Step, Finishes
  <2>1. b \in heap /\ b \notin OwnBlocks /\ client' = client /\ job.step = "finish"
        /\ conn \in Clients
    BY <1>4 DEF Finishes, Handling, Types
  <2>2. InUse(b)
    BY <2>1 DEF NothingElse
  <2>3. CASE b[2] = "key" /\ ~Behaves(conn)
    BY <1>1, <2>1, <2>3 DEF BlockRight, Left, Behaves
  <2>4. CASE b[2] = "revised_path" /\ job.answer = "not found"
    <3>1. client[conn].got # <<>> => client[conn].got[1].answer = "not found"
      BY <2>1, <2>4 DEF LookedUp
    <3> QED
      BY <1>1, <2>1, <2>4, <3>1 DEF BlockRight, Left
  <2> QED
    BY <2>1, <2>2, <2>3, <2>4 DEF InUse
<1> QED
  BY <1>2, <1>3, <1>4

\* What a step of handle() has to do with the blocks of its client.
LEMMA NothingElseOn ==
  ASSUME Types, Places, InQueue, NothingElse, HandlesOn, Step, Types',
         conn \in Clients,
         setup.mode = "linear" =>
           \A b \in heap' : b[1] = conn /\ (b \in heap => InUse(b)) => InUse(b)',
         \A b \in heap' : b \notin heap => b[1] = conn
  PROVE  NothingElse'
<1>1. Handling /\ Handling' /\ UNCHANGED <<setup, conn, queue>>
  BY DEF HandlesOn
<1>2. \A b \in heap : setup.mode = "linear" /\ b[1] = conn => InUse(b)
  BY <1>1 DEF NothingElse
<1>3. Seen(conn)
  BY <1>1 DEF Seen, InQueue, Queued, Handling
<1> SUFFICES ASSUME setup'.mode = "linear", NEW b \in heap',
                    b \notin heap \/ b[1] = conn
             PROVE  Seen(b[1])' /\ BlockRight(b)'
  BY <1>1, OnlyInHand
<1>5. b[1] = conn
  OBVIOUS
<1>6. InUse(b)'
  BY <1>1, <1>2, <1>5
<1>7. Seen(b[1])'
  BY <1>3, <1>5, SeenStays
<1> QED
  BY <1>1, <1>5, <1>6, <1>7 DEF BlockRight

\* Every block that reading allocates is in use.
LEMMA NothingElseGets ==
  ASSUME Types, Places, InQueue, NothingElse, GetsWhole \/ GetsEnd, Types'
  PROVE  NothingElse'
<1>1. HandlesOn /\ Step /\ conn \in Clients /\ job.step = "read" /\ conn' = conn
  BY Going, InHand DEF Step, GetsWhole, GetsEnd, HandlesOn
<1>2. PICK l : Gets(l)
  BY DEF GetsWhole, GetsEnd
<1>3. /\ job'.step = (IF l = EmptyLine THEN "parse" ELSE job.step)
      /\ job'.lines = IF l = EmptyLine THEN job.lines ELSE Append(job.lines, l)
  BY <1>2, GetsLines
<1>4. job \in JobType /\ job.lines \in Seq(Lines)
  BY JobFields
<1>5. DOMAIN job.lines \subseteq DOMAIN job'.lines
      /\ (l # EmptyLine => Len(job.lines) + 1 \in DOMAIN job'.lines)
  BY <1>3, <1>4
<1>6. job'.answer = job.answer /\ heap \subseteq heap'
  BY <1>2, <1>4 DEF Gets, JobType
<1>7. ASSUME NEW b \in heap', b \notin heap
      PROVE  b[1] = conn /\ InUse(b)'
  <2>1. \/ b \in Mine({"general_lines"})
        \/ l = EmptyLine /\ b \in Mine({"buffer"})
        \/ l # EmptyLine /\ b \in Mines("line", {Len(job.lines) + 1})
    BY <1>2, <1>7 DEF Gets
  <2>2. b[1] = conn
    BY <2>1 DEF Mine, Mines
  <2>3. \/ b \in Mine({"general_lines", "header_array", "sock"})'
        \/ job'.step = "parse" /\ b \in Mine({"buffer"})'
        \/ b \in Mines("line", DOMAIN job.lines)'
    BY <1>1, <1>3, <1>5, <2>1 DEF Mine, Mines
  <2> QED
    BY <2>2, <2>3 DEF InUse, OwnBlocks
<1>8. ASSUME NEW b \in heap', b \in heap, b[1] = conn, InUse(b)
      PROVE  InUse(b)'
  <2>1. CASE b \in OwnBlocks
    <3>1. b \in OwnBlocks'
      BY <1>1, <1>5, <1>6, <2>1 DEF OwnBlocks, Mine, Mines, RequestBlocks
    <3> QED
      BY <3>1 DEF InUse
  <2>2. CASE b[2] = "revised_path" /\ job.answer = "not found"
    BY <1>6, <2>2 DEF InUse
  <2>3. CASE b[2] = "key" /\ ~Behaves(conn)
    <3>1. ~Behaves(b[1])'
      BY <1>1, <1>8, <2>3, BehavesStays
    <3> QED
      BY <1>1, <1>8, <2>3, <3>1 DEF InUse, Behaves
  <2> QED
    BY <1>1, <1>8, <2>1, <2>2, <2>3 DEF InUse
<1> QED
  BY <1>1, <1>7, <1>8, NothingElseOn

\* So is every block of the parsing, and the buffer is freed.
LEMMA NothingElseParses ==
  ASSUME Types, Places, InQueue, Untouched, Reading, NothingElse, Parses, Types'
  PROVE  NothingElse'
<1>1. HandlesOn /\ Step /\ conn \in Clients /\ job.step = "parse" /\ conn' = conn /\ Handling
      /\ client' = client
  BY Going DEF Step, Parses, HandlesOn, Handling, Types
<1>2. PICK keyOnly \in SUBSET BareHeaders : ParseHeaders(keyOnly)
  BY DEF Parses
<1>3. job \in JobType /\ job.lines \in Seq(Lines)
  BY JobFields
<1>4. job'.lines = job.lines /\ job'.step = "lookup" /\ job'.answer = job.answer
  BY <1>3 DEF Parses, JobType
<1>5. RequestBlocks(IF job.lines = <<>> THEN 0 ELSE job.lines[1].words) \subseteq RequestBlocks(3)
  <2>1. job.lines # <<>> => job.lines[1] \in Lines
    BY <1>3
  <2>2. (IF job.lines = <<>> THEN 0 ELSE job.lines[1].words) \in 0..3
    BY <2>1, LineTypes
  <2> QED
    BY <2>2, RequestSome
<1>6. ASSUME NEW b \in heap', b \notin heap
      PROVE  b[1] = conn /\ InUse(b)'
  <2>1. \/ b \in Mine({"header_array"}) \/ b \in RequestBlocks(3)
        \/ b \in Mines("header", (2..Len(job.lines)) \ keyOnly)
        \/ b \in Mines("key", keyOnly)
    BY <1>2, <1>5, <1>6 DEF ParseHeaders
  <2>2. b[1] = conn
    BY <2>1 DEF Mine, Mines, RequestBlocks
  <2>3. CASE b \in Mine({"header_array"}) \/ b \in RequestBlocks(3)
    <3>1. b \in OwnBlocks'
      BY <1>1, <2>3 DEF OwnBlocks, Mine, RequestBlocks
    <3> QED
      BY <2>2, <3>1 DEF InUse
  <2>4. CASE b \in Mines("header", (2..Len(job.lines)) \ keyOnly)
    <3>1. b \in OwnBlocks'
      BY <1>1, <1>6, <2>2, <2>4 DEF OwnBlocks, Mines
    <3> QED
      BY <2>2, <3>1 DEF InUse
  <2>5. CASE b \in Mines("key", keyOnly)
    <3>1. BareHeaders # {} /\ b[2] = "key"
      BY <2>5 DEF Mines
    <3>2. ~Behaves(conn)
      BY <1>1, <3>1, BehavesWhole
    <3> QED
      BY <1>1, <2>2, <3>1, <3>2 DEF InUse, Behaves
  <2> QED
    BY <2>1, <2>2, <2>3, <2>4, <2>5
<1>7. ASSUME NEW b \in heap', b \in heap, b[1] = conn, InUse(b)
      PROVE  InUse(b)'
  <2>1. CASE b \in OwnBlocks
    <3>1. b \in OwnBlocks'
      BY <1>1, <1>4, <2>1 DEF OwnBlocks, Mine, Mines, RequestBlocks
    <3> QED
      BY <3>1 DEF InUse
  <2>2. b \notin Mine({"buffer"})
    <3>1. \A c \in Mine({"buffer"}) : c \notin heap'
      <4>1. Mine({"buffer"}) \cap (Mine({"header_array"}) \cup RequestBlocks(3)) = {}
        BY RequestThree DEF Mine
      <4>2. /\ Mine({"buffer"}) \cap Mines("header", (2..Len(job.lines)) \ keyOnly) = {}
            /\ Mine({"buffer"}) \cap Mines("key", keyOnly) = {}
        BY DEF Mine, Mines
      <4> QED
        BY <1>2, <1>5, <4>1, <4>2 DEF ParseHeaders
    <3> QED
      BY <3>1
  <2> QED
    BY <1>1, <1>4, <1>7, <2>1, <2>2 DEF InUse, Behaves
<1> QED
  BY <1>1, <1>6, <1>7, NothingElseOn

\* So is every block of the answer, which is freed when it is sent.
LEMMA NothingElseLater ==
  ASSUME Types, Places, InQueue, NothingElse, LooksUp \/ Sends \/ Lists, Types'
  PROVE  NothingElse'
<1>1. HandlesOn /\ Step /\ conn \in Clients /\ conn' = conn /\ Handling
  BY Going DEF Step, HandlesOn, Handling, Types
<1>2. job \in JobType
  BY JobFields
<1>3. job'.lines = job.lines
  BY <1>2 DEF LooksUp, Goes, Sends, Lists, Answers, JobType
<1>4. CASE LooksUp
  <2>1. client' = client /\ job.answer = "none" /\ job.step = "lookup"
    BY <1>4 DEF LooksUp, Places
  <2>2. \/ /\ job'.step = "send" /\ job'.answer = "document"
           /\ heap' = heap \cup Mine({"content_type", "message_body"})
        \/ /\ job'.step = "send" /\ job'.answer = "not found"
           /\ heap' = heap \cup Mine({"revised_path", "content_type", "message_body"})
        \/ job'.step = "list" /\ heap' = heap \cup Mine({"revised_path"})
    BY <1>2, <1>4 DEF LooksUp, Goes, JobType
  <2>3. ASSUME NEW b \in heap', b \notin heap
        PROVE  b[1] = conn /\ InUse(b)'
    <3>1. CASE /\ job'.step = "send" /\ job'.answer = "document"
               /\ heap' = heap \cup Mine({"content_type", "message_body"})
      <4>1. b \in Mine({"content_type", "message_body"})
        BY <2>3, <3>1
      <4> QED
        BY <1>1, <3>1, <4>1 DEF Mine, InUse
    <3>2. CASE /\ job'.step = "send" /\ job'.answer = "not found"
               /\ heap' = heap \cup Mine({"revised_path", "content_type", "message_body"})
      <4>1. b \in Mine({"revised_path", "content_type", "message_body"})
        BY <2>3, <3>2
      <4>2. b[1] = conn
        BY <4>1 DEF Mine
      <4>3. b \in Mine({"content_type", "message_body"})' \/ b[2] = "revised_path"
        BY <1>1, <4>1 DEF Mine
      <4> QED
        BY <3>2, <4>2, <4>3 DEF InUse
    <3>3. CASE job'.step = "list" /\ heap' = heap \cup Mine({"revised_path"})
      <4>1. b \in Mine({"revised_path"})
        BY <2>3, <3>3
      <4>2. b[1] = conn
        BY <4>1 DEF Mine
      <4>3. b \in Mine({"revised_path"})'
        BY <1>1, <4>1 DEF Mine
      <4> QED
        BY <3>3, <4>2, <4>3 DEF InUse
    <3> QED
      BY <2>2, <3>1, <3>2, <3>3
  <2>4. ASSUME NEW b \in heap', b \in heap, b[1] = conn, InUse(b)
        PROVE  InUse(b)'
    <3>1. CASE b \in OwnBlocks
      <4>1. b \in OwnBlocks'
        BY <1>1, <1>3, <2>2, <3>1 DEF OwnBlocks, Mine, Mines, RequestBlocks
      <4> QED
        BY <4>1 DEF InUse
    <3>2. CASE b[2] = "key" /\ ~Behaves(conn)
      BY <1>1, <2>1, <3>2 DEF InUse, Behaves
    <3> QED
      BY <2>1, <2>4, <3>1, <3>2 DEF InUse
  <2> QED
    BY <1>1, <2>3, <2>4, NothingElseOn
<1>5. ASSUME NEW freed, Answers(freed), job'.step = "finish",
             \/ job.step = "send" /\ freed = {"content_type", "message_body"}
             \/ job.step = "list" /\ freed = {"revised_path"}
      PROVE  NothingElse'
  <2>1. heap' = heap \ Mine(freed) /\ job'.answer = job.answer
    BY <1>2, <1>5 DEF Answers, JobType
  <2>2. ASSUME NEW b \in heap', b[1] = conn, InUse(b)
        PROVE  InUse(b)'
    <3>1. CASE b \in OwnBlocks
      <4>1. b \in OwnBlocks'
        BY <1>1, <1>3, <2>2, <3>1 DEF OwnBlocks, Mine, Mines, RequestBlocks
      <4> QED
        BY <4>1 DEF InUse
    <3>2. CASE b[2] = "key" /\ ~Behaves(conn)
      <4>1. ~Behaves(b[1])'
        BY <1>1, <2>2, <3>2, BehavesStays
      <4> QED
        BY <1>1, <2>2, <3>2, <4>1 DEF InUse, Behaves
    <3>3. CASE b[2] = "revised_path" /\ job.answer = "not found"
      BY <2>1, <3>3 DEF InUse
    <3> QED
      BY <1>5, <2>1, <2>2, <3>1, <3>2, <3>3 DEF InUse
  <2> QED
    BY <1>1, <2>1, <2>2, NothingElseOn
<1>6. CASE Sends \/ Lists
  BY <1>2, <1>5, <1>6 DEF Sends, Lists, Answers, JobType
<1> QED
  BY <1>4, <1>6

\* Every step keeps every block of the linear server accounted for.
LEMMA NothingElseStep ==
  ASSUME Types, Places, InQueue, Untouched, Reading, LookedUp, NothingElse,
         Step \/ UNCHANGED vars, Types', InQueue'
  PROVE  NothingElse'
<1>1. CASE Fork
  BY <1>1, LimitStays DEF Fork, Places, NothingElse
<1>2. CASE Start
  <2>1. ~Handling /\ ~Handling' /\ UNCHANGED <<conn, heap, client>>
    BY <1>2 DEF Start, Places, Handling, Active
  <2> QED
    BY <1>2, <2>1, OnlyInHand
<1>3. CASE ClientStep \/ UNCHANGED vars
  <2>1. UNCHANGED <<setup, conn, job, heap>>
    BY <1>3 DEF ClientStep, Connect, SendLine, Receive, Stop, vars
  <2>2. Handling' = Handling
    BY <2>1 DEF Handling, Active
  <2>3. ASSUME setup.mode = "linear", NEW b \in heap, Handling, b[1] = conn
        PROVE  BlockRight(b)'
    <3>1. InUse(b)
      BY <2>3 DEF NothingElse
    <3>2. b[1] \in Clients
      BY DEF Types
    <3>3. ~Behaves(b[1]) => ~Behaves(b[1])'
      BY <3>2, BehavesStays
    <3>4. InUse(b)'
      BY <2>1, <2>3, <3>1, <3>3 DEF InUse, OwnBlocks, Mine, Mines, RequestBlocks, Behaves
    <3> QED
      BY <2>1, <2>2, <2>3, <3>4 DEF BlockRight
  <2> QED
    BY <1>3, <2>1, <2>2, <2>3, OnlyInHand DEF Step
<1> QED
  BY <1>1, <1>2, <1>3, NothingElseAccept, NothingElseOver, NothingElseGets,
     NothingElseParses, NothingElseLater DEF Step

-----------------------------------------------------------------------------
(***************************************************************************)
(* The theorems                                                            *)
(***************************************************************************)

\* The invariant holds before the server starts.
LEMMA InitInv == Init => Inv
<1> SUFFICES ASSUME Init PROVE Inv
  OBVIOUS
<1>1. job = Idle /\ ~Active /\ ~Handling
  BY IdleSteps DEF Init, Active, Handling, Steps
<1>2. Types
  <2>1. \A c \in Clients : client[c].script \in Seq(Lines)
    BY ScriptsAssumption DEF Init
  <2>2. client \in [Clients -> ClientType]
    <3> DEFINE First == [script : UNION {Scripts[c] : c \in Clients}, read : {0},
                         ready : {FALSE}, eof : {FALSE}, at : {"away"}, got : {<<>>}]
    <3>1. client \in [Clients -> First]
      BY DEF Init
    <3>2. ASSUME NEW cl \in First, cl.script \in Seq(Lines)
          PROVE  cl \in ClientType
      <4> DEFINE Answer == [answer : {"document", "listing", "not found"},
                            file : Seq(Names), complete : BOOLEAN]
      <4>1. cl = [script |-> cl.script, read |-> 0, ready |-> FALSE, eof |-> FALSE,
                  at |-> "away", got |-> <<>>]
        OBVIOUS
      <4>2. <<>> \in Seq(Answer)
        OBVIOUS
      <4>3. ClientType = [script : Seq(Lines), read : Nat, ready : BOOLEAN, eof : BOOLEAN,
                          at : {"away", "here", "half", "gone"}, got : Seq(Answer)]
        BY DEF ClientType
      <4> HIDE DEF Answer, First
      <4>4. \A x \in Seq(Lines), y \in Seq(Answer) :
                [script |-> x, read |-> 0, ready |-> FALSE, eof |-> FALSE,
                 at |-> "away", got |-> y] \in ClientType
        BY <4>3
      <4>5. [script |-> cl.script, read |-> 0, ready |-> FALSE, eof |-> FALSE,
             at |-> "away", got |-> <<>>] \in ClientType
        BY <3>2, <4>2, <4>4
      <4> QED
        BY <4>1, <4>5
    <3> HIDE DEF First
    <3>3. \A c \in Clients : client[c] \in ClientType
      BY <2>1, <3>1, <3>2
    <3> QED
      BY <3>1, <3>3
  <2>3. job \in JobType
    BY <1>1, IdleTypes
  <2>4. setup \in [mode : Modes, limit : Limits, listening : BOOLEAN, bound : BOOLEAN]
    BY DEF Init
  <2>5. held \in [{"server", "child"} -> SUBSET Clients]
    BY DEF Init
  <2>6. /\ loop = "start" /\ conn = NoClient /\ heap = {} /\ damaged = FALSE
        /\ faults \in 0..MaxFaults /\ queue \in Seq(Clients)
        /\ \A c \in Clients : client[c].script \in Scripts[c]
    BY DEF Init
  <2> QED
    BY <2>2, <2>3, <2>4, <2>5, <2>6 DEF Types
<1>3. Places
  BY <1>1, IdleSteps DEF Init, Places
<1>4. InQueue
  BY DEF Init, InQueue
<1>5. \A c \in Clients : /\ client[c].got = <<>> /\ client[c].read = 0
                         /\ ~client[c].eof
  BY DEF Init
<1>6. Untouched
  BY <1>1, <1>5 DEF Untouched
<1>7. Reading /\ Parsed /\ LookedUp
  BY <1>1 DEF Reading, Parsed, LookedUp
<1>8. Answered
  BY <1>5 DEF Answered, RightAnswer
<1>9. Owned
  BY <1>1 DEF Owned, Past, Init
<1>10. NothingElse /\ DamageExplained /\ StaysUp
  BY DEF Init, NothingElse, DamageExplained, StaysUp
<1> QED
  BY <1>2, <1>3, <1>4, <1>6, <1>7, <1>8, <1>9, <1>10 DEF Inv

\* Every step keeps it.
LEMMA NextInv ==
  ASSUME Inv, [Next]_vars
  PROVE  Inv'
<1>1. /\ Types /\ Places /\ InQueue /\ Untouched /\ Reading /\ Parsed
      /\ LookedUp /\ Answered /\ Owned /\ NothingElse /\ DamageExplained /\ StaysUp
  BY DEF Inv
<1>2. Step \/ UNCHANGED vars
  BY <1>1, StepKinds
<1>3. Types' /\ Places' /\ InQueue'
  BY <1>1, <1>2, TypesStep, PlacesStep, InQueueStep
<1>4. Untouched' /\ Reading' /\ Parsed' /\ LookedUp'
  BY <1>1, <1>2, UntouchedStep, ReadingStep, ParsedStep, LookedUpStep
<1>5. Answered' /\ Owned'
  BY <1>1, <1>2, AnsweredStep, OwnedStep
<1>6. NothingElse' /\ DamageExplained' /\ StaysUp'
  BY <1>1, <1>2, <1>3, NothingElseStep, DamageStep, StaysUpStep
<1> QED
  BY <1>3, <1>4, <1>5, <1>6 DEF Inv

\* The invariant of the server (server.c:14-257, main.c) holds whatever the clients
\* send, whatever files there are, and whatever the limits and faults of the system.
THEOREM ServerInvariant == Spec => []Inv
BY InitInv, NextInv, PTL DEF Spec

\* Types, and the places of the two processes: a request is handled only while the
\* accepting process does so itself or waits for the child (server.c:14-66).
THEOREM TypeCorrect == Spec => []TypeOK
<1>1. Inv => TypeOK
  <2> SUFFICES ASSUME Inv PROVE TypeOK
    OBVIOUS
  <2>1. Types /\ Places
    BY DEF Inv
  <2>2. /\ job.step \in Steps \cup {"idle", "over"}
        /\ job.answer \in {"none", "document", "listing", "not found"}
    BY <2>1 DEF Types, JobType
  <2>3. \A c \in Clients : client[c].at \in {"away", "here", "half", "gone"}
    BY <2>1, ClientFields
  <2>4. job.step \in Steps => loop = IF setup.mode = "linear" THEN "handle" ELSE "wait"
    BY <2>1 DEF Places, Active
  <2> QED
    BY <2>1, <2>2, <2>3, <2>4 DEF TypeOK, Types, Steps
<1> QED
  BY <1>1, ServerInvariant, PTL

\* A connection gets at most one answer, for its own path and of the kind of its
\* file (parse_respond, server.c): nothing of another request gets into it.
THEOREM AnswersAreRight == Spec => []RightAnswers
<1>1. Inv => RightAnswers
  BY DEF Inv, Answered, RightAnswer, Whole, Fits, RightAnswers
<1> QED
  BY <1>1, ServerInvariant, PTL

\* handle() in the linear server closes every connection and frees everything but
\* the revised_path of a 404 and the keys of headers without a value, after any
\* sequence of requests.
THEOREM LinearServerLeaksNothing == Spec => []NothingLeaks
<1>1. Inv => NothingLeaks
  <2> SUFFICES ASSUME Inv PROVE NothingLeaks
    OBVIOUS
  <2>1. Places /\ NothingElse /\ DamageExplained
    BY DEF Inv
  <2>2. loop = "accept" /\ setup.mode = "linear" => ~Handling
    BY <2>1 DEF Places, Handling
  <2> QED
    BY <2>1, <2>2 DEF Places, NothingElse, Left, DamageExplained, NothingLeaks
<1> QED
  BY <1>1, ServerInvariant, PTL

\* Nothing but a fault of the system ends the forking server, and the linear one
\* only goes with a client that left, a malformed request, a path that names no
\* document, or too few descriptors.
THEOREM ServerStaysUp == Spec => []StaysUp
<1>1. Inv => StaysUp
  BY DEF Inv
<1> QED
  BY <1>1, ServerInvariant, PTL
=============================================================================
