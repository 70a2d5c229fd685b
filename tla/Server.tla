------------------------------- MODULE Server -------------------------------
(***************************************************************************)
(* The web server of src/lab5-src: the accept loops (server.c, main.c),    *)
(* the input of a request from a socket (socket.c, tcp.c), its parsing and *)
(* its answer (server.c, handle_dir.c, http_messages.c, misc.c).  Whatever *)
(* the mode, at most one connection is handled at a time: the linear       *)
(* server handles it itself, the forking server waits for the child that   *)
(* does.  Clients may send, stop, half-close or leave at any time.         *)
(*                                                                         *)
(* What is undefined in the code (a local variable never assigned, a       *)
(* pointer freed before) is a choice between the end of the process and    *)
(* going on with a value of the kind the variable holds.  The names of the *)
(* memory blocks are those of the variables that own them.                 *)
(*                                                                         *)
(* How much of its script a client has sent is decided when the server     *)
(* reads it: what came earlier only waited in the socket.  Likewise a      *)
(* client reads when the server waits for it to.  A byte of 255            *)
(* is taken for the end of the input and so ends a line like CR LF does; a *)
(* line with one is two lines of a script.                                 *)
(*                                                                         *)
(* An operator called Bug... is a plausible mistake in the one after it;   *)
(* the specification never uses it.                                        *)
(***************************************************************************)
EXTENDS Integers, Sequences, FiniteSets

CONSTANTS Clients,    \* each opens one connection
          NoClient,   \* the NULL that accept_connection returns on error
          NoPath,     \* the target of a line of fewer than two words
          Scripts,    \* what each client may send: sequences of lines
          Files,      \* path on disk (its names) -> "text", "image", "directory"
          Large,      \* those of which the answer fills the buffers of a connection
          Modes,      \* subset of {"linear", "forking", "threads"}
          Limits,     \* how many descriptors a process may open
          MaxFaults   \* system calls that fail for a reason of their own

\* Names of files.  The names the code has are listed, since the prover does not
\* know that they are strings.
Names == STRING \cup {"http-root-dir", "htdocs", "icons", "index.html", "stub"}

\* A line: its words, of which the code looks at three, and the second of them,
\* which is a path when there are three.
Lines == {l \in [words : 0..3, path : {NoPath} \cup Seq(Names), odd : BOOLEAN] :
             l.words = 3 => l.path \in Seq(Names)}

ASSUME ServerAssumption ==
    /\ NoClient \notin Clients /\ IsFiniteSet(Clients)
    /\ Modes \subseteq {"linear", "forking", "threads"}
    /\ Limits \subseteq Nat /\ MaxFaults \in Nat

ASSUME ScriptsAssumption == Scripts \in [Clients -> SUBSET Seq(Lines)]

ASSUME FilesAssumption ==
    /\ \A file \in DOMAIN Files : Files[file] \in {"text", "image", "directory"}
    /\ Large \subseteq DOMAIN Files

VARIABLES setup,    \* the mode, the descriptor limit, whether listen() and bind() succeeded
          loop,     \* where the accepting process is
          conn,     \* sock: the connection accepted last
          held,     \* connections whose descriptor each process has open
          job,      \* the call of handle() in progress
          heap,     \* live blocks of the process that runs handle()
          damaged,  \* that process freed a block it does not own
          faults, queue, client

vars == <<setup, loop, conn, held, job, heap, damaged, faults, queue, client>>

-----------------------------------------------------------------------------
(* Lines and paths                                                         *)

Line(n, p) == [words |-> n, path |-> p, odd |-> FALSE]
OddLine(p) == [words |-> 3, path |-> p, odd |-> TRUE]    \* has a byte in 128..254
EmptyLine  == Line(0, NoPath)               \* "\r\n", or nothing at all

\* What is left of a line that ends early: at most its first words, the last of
\* them shortened, and two more characters lost to buffer[strlen(buffer) - 2].
CutLines(l) == {EmptyLine} \cup
    {Line(n, IF n = 3 THEN l.path ELSE IF n = 2 THEN <<"stub">> ELSE NoPath) :
        n \in 1..l.words}

\* "/" is served as "/index.html".
Target(path) == IF path = <<>> THEN <<"index.html">> ELSE path

\* revised_path: a path is looked for under htdocs unless it starts with one
\* of the two top directories.
Revised(path) ==
    <<"http-root-dir">> \o
    (IF path # <<>> /\ path[1] \in {"icons", "htdocs"} THEN path
     ELSE <<"htdocs">> \o path)

\* What clients ask for, and so what a request that was not read may be taken for.
Paths ==
    (UNION {{s[i].path : i \in DOMAIN s} : s \in UNION {Scripts[c] : c \in Clients}}) \ {NoPath}

KindOf(file) == IF file \in DOMAIN Files THEN Files[file] ELSE "missing"

-----------------------------------------------------------------------------
(* The two processes                                                       *)

Handler == IF setup.mode = "linear" THEN "server" ELSE "child"
Free(process) == setup.limit - Cardinality(held[process])
Mine(names) == {<<conn, n, 0>> : n \in names}
Mines(name, indices) == {<<conn, name, i>> : i \in indices}
Idle == [step |-> "idle", lines |-> <<>>, path |-> NoPath, stray |-> FALSE, answer |-> "none"]
Running == loop \notin {"ended", "interrupted"}

\* Blocks are named after the variables that own them.
BlockNames ==
    {"sock", "buffer", "general_lines", "line", "header_array", "header", "key",
     "method", "raw_path", "http_version", "revised_path", "content_type", "message_body"}

\* Type correctness, and where the two processes can be together: a request is
\* handled only while the accepting process does so itself or waits for a child.
TypeOK ==
    /\ setup \in [mode : Modes, limit : Limits, listening : BOOLEAN, bound : BOOLEAN]
    /\ loop \in {"start", "accept", "fork", "handle", "wait", "ended", "interrupted"}
    /\ conn \in Clients \cup {NoClient}
    /\ held \in [{"server", "child"} -> SUBSET Clients]
    /\ job.step \in {"idle", "read", "parse", "lookup", "list", "send", "finish", "over"}
    /\ job.answer \in {"none", "document", "listing", "not found"}
    /\ job.step \in {"read", "parse", "lookup", "list", "send", "finish"} =>
           loop = IF setup.mode = "linear" THEN "handle" ELSE "wait"
    /\ heap \subseteq Clients \X BlockNames \X Nat
    /\ damaged \in BOOLEAN /\ faults \in 0..MaxFaults
    /\ \A c \in Clients : client[c].at \in {"away", "here", "half", "gone"}

Init ==
    /\ setup \in [mode : Modes, limit : Limits, listening : {FALSE}, bound : {FALSE}]
    /\ loop = "start" /\ conn = NoClient
    /\ held = [p \in {"server", "child"} |-> {}]
    /\ job = Idle /\ heap = {} /\ damaged = FALSE
    /\ faults = 0 /\ queue = <<>>
    /\ client \in [Clients -> [script : UNION {Scripts[c] : c \in Clients}, read : {0},
                               ready : {FALSE}, eof : {FALSE}, at : {"away"}, got : {<<>>}]]
    /\ \A c \in Clients : client[c].script \in Scripts[c]

Fails == faults < MaxFaults /\ faults' = faults + 1

BugEndsServer == "ended"

\* Where the accepting process is when the one that runs handle() has ended.
AfterDeath == IF setup.mode = "linear" THEN "ended" ELSE loop

\* The process that runs handle() ends, by exit(), by a fault or by SIGPIPE: the
\* linear server with it.
Dies ==
    /\ job' = [Idle EXCEPT !.step = "over"]
    /\ held' = [held EXCEPT ![Handler] = {}] /\ heap' = {} /\ damaged' = FALSE
    /\ loop' = AfterDeath

-----------------------------------------------------------------------------
(* main() and the accept loops                                             *)

\* create_socket_acceptor: only socket() can make it fail; a bind or a listen
\* that fails is reported and the server runs on, without a bind on a port that
\* no client knows.  The two threaded loops are empty, and main closes the
\* acceptor and returns.
Start ==
    /\ loop = "start"
    /\ \/ Fails /\ loop' = "ended" /\ UNCHANGED setup
       \/ /\ loop' = IF setup.mode = "threads" THEN "ended" ELSE "accept"
          /\ \/ setup' = [setup EXCEPT !.listening = TRUE, !.bound = TRUE] /\ UNCHANGED faults
             \/ Fails /\ setup' = [setup EXCEPT !.listening = TRUE]
             \/ Fails /\ UNCHANGED setup
    /\ UNCHANGED <<conn, held, job, heap, damaged, queue, client>>

\* accept_connection: NULL at once on a socket that does not listen or with no
\* descriptor left; it is passed on like any other.
Accept ==
    /\ loop = "accept"
    /\ \/ /\ setup.listening /\ Free("server") > 0 /\ queue # <<>>
          /\ conn' = Head(queue) /\ queue' = Tail(queue)
          /\ held' = [held EXCEPT !["server"] = @ \cup {conn'}]
          /\ heap' = heap \cup {<<conn', "sock", 0>>}
       \/ /\ ~setup.listening \/ Free("server") <= 0
          /\ conn' = NoClient /\ UNCHANGED <<queue, held, heap>>
    /\ loop' = IF setup.mode = "linear" THEN "handle" ELSE "fork"
    /\ job' = IF setup.mode = "linear" THEN [Idle EXCEPT !.step = "read"] ELSE job
    /\ UNCHANGED <<setup, damaged, faults, client>>

\* fork(): the child handles the connection with a copy of everything; when
\* there is no child the parent accepts the next one.
Fork ==
    /\ loop = "fork"
    /\ \/ /\ loop' = "wait" /\ job' = [Idle EXCEPT !.step = "read"]
          /\ held' = [held EXCEPT !["child"] = held["server"]]
          /\ UNCHANGED faults
       \/ Fails /\ loop' = "accept" /\ UNCHANGED <<job, held>>
    /\ UNCHANGED <<setup, conn, heap, damaged, queue, client>>

BugReap ==
    /\ loop = "wait" /\ loop' = "accept"
    /\ UNCHANGED <<setup, conn, held, job, heap, damaged, faults, queue, client>>

BugWaitsForClose == job.step = "over" /\ conn # NoClient /\ client[conn].at = "gone"
ChildEnded == job.step = "over"

\* waitpid: the parent goes on, with its own copies of memory and descriptors.
Reap ==
    /\ loop = "wait" /\ ChildEnded
    /\ loop' = "accept" /\ job' = Idle /\ damaged' = FALSE
    /\ heap' = held["server"] \X {"sock"} \X {0}
    /\ UNCHANGED <<setup, conn, held, faults, queue, client>>

-----------------------------------------------------------------------------
(* handle(): reading                                                       *)

\* One turn of the loop: a line of more than two characters is kept, any other
\* ends the request.
Gets(l) ==
    /\ job' = IF l = EmptyLine THEN [job EXCEPT !.step = "parse"]
              ELSE [job EXCEPT !.lines = Append(@, l)]
    /\ heap' = heap \cup Mine({"general_lines"}) \cup
           IF l = EmptyLine THEN Mine({"buffer"}) ELSE Mines("line", {Len(job.lines) + 1})
    /\ UNCHANGED <<held, loop, damaged>>

\* socket_read_line: the next whole line, or the NULL that strlen() cannot take
\* for one with a byte of a negative value; at the end of the input, or when
\* recv() fails, what there is of a line.
ReadLine ==
    /\ job.step = "read" /\ conn # NoClient
    /\ LET me == client[conn]
           more == ~me.eof /\ me.read < Len(me.script)
           next == me.script[me.read + 1]
       IN  \/ /\ more /\ (me.ready \/ me.at # "here")
              /\ client' = [client EXCEPT ![conn].read = @ + 1, ![conn].ready = FALSE]
              /\ IF next.odd THEN Dies ELSE Gets(next)
           \/ /\ me.at # "here" /\ client' = [client EXCEPT ![conn].eof = TRUE, ![conn].ready = FALSE]
              /\ \E l \in IF more THEN CutLines(next) ELSE {EmptyLine} : Gets(l)
    /\ UNCHANGED <<setup, conn, faults, queue>>

\* tcp_getc with the NULL socket of a failed accept.
ReadNothing ==
    /\ job.step = "read" /\ conn = NoClient
    /\ Dies /\ UNCHANGED <<setup, conn, faults, queue, client>>

-----------------------------------------------------------------------------
(* handle(): parsing                                                       *)

\* The words of the request line that were there to be duplicated.
RequestBlocks(n) ==
    Mine({<<"method", "raw_path", "http_version">>[i] : i \in 1..n})

BareHeaders == {i \in 2..Len(job.lines) : job.lines[i].words < 2}

\* A header without a value: its value is what the variable held before.  When
\* that is NULL the key is not kept and not freed; when it is the value of an
\* earlier header it is freed again.
ParseHeaders(keyOnly) ==
    /\ heap' = (heap \ Mine({"buffer"})) \cup
           Mine({"header_array"}) \cup
           RequestBlocks(IF job.lines = <<>> THEN 0 ELSE job.lines[1].words) \cup
           Mines("header", (2..Len(job.lines)) \ keyOnly) \cup Mines("key", keyOnly)
    /\ damaged' = (damaged \/ keyOnly # BareHeaders)

\* The request line and the headers become a request.  With no line, or fewer
\* than three words in the first, some of its parts were never assigned.
Parse ==
    /\ job.step = "parse"
    /\ LET whole == job.lines # <<>> /\ job.lines[1].words = 3
       IN  \/ /\ \E keyOnly \in SUBSET BareHeaders : ParseHeaders(keyOnly)
              /\ \E path \in IF whole THEN {job.lines[1].path} ELSE Paths :
                    job' = [job EXCEPT !.step = "lookup", !.path = Target(path), !.stray = ~whole]
              /\ UNCHANGED <<held, loop>>
           \/ /\ ~whole \/ BareHeaders # {}
              /\ Dies
    /\ UNCHANGED <<setup, conn, faults, queue, client>>

-----------------------------------------------------------------------------
(* parse_respond(): looking the document up                                *)

Goes(step, answer, blocks) ==
    /\ job' = [job EXCEPT !.step = step, !.answer = answer]
    /\ heap' = heap \cup Mine(blocks)
    /\ UNCHANGED <<held, loop, damaged>>

\* get_content_type: file(1) in a child, read through a pipe; exit(-1) when there
\* is no pipe or no child, and NULL, which the caller compares, when it fails.
ContentTypeFails ==
    \/ Free(Handler) < 3 /\ UNCHANGED faults
    \/ Fails

\* fopen(revised_path, "r+") tells documents from the rest; is_directory() reads
\* a status that stat() did not write when there is no such file.
Lookup ==
    /\ job.step = "lookup"
    /\ LET kind == KindOf(Revised(job.path))
           opened == kind \in {"text", "image"} /\ Free(Handler) > 0
       IN  \/ /\ opened /\ Free(Handler) >= 3 /\ UNCHANGED faults
              /\ Goes("send", "document", {"content_type", "message_body"})
           \/ opened /\ ContentTypeFails /\ Dies
           \/ /\ ~opened /\ kind # "directory" /\ UNCHANGED faults
              /\ Goes("send", "not found", {"revised_path", "content_type", "message_body"})
           \/ /\ kind \in {"directory", "missing"} /\ UNCHANGED faults
              /\ Goes("list", "listing", {"revised_path"})
    /\ UNCHANGED <<setup, conn, queue, client>>

-----------------------------------------------------------------------------
(* The answer                                                              *)

\* response_string copies Content-Length bytes; the length sent is computed with
\* strlen() of the body, which for a text document has no end of its own: bytes
\* found after it are subtracted from what is sent.
Complete(answer) ==
    IF answer = "document" /\ KindOf(Revised(job.path)) = "text" THEN BOOLEAN ELSE {TRUE}

\* send() returns when all it was given is in the buffers of the connection: what
\* does not fit must be read, if the client is there to do so.
NeedsReader == job.answer # "not found" /\ Revised(job.path) \in Large
Blocked(c) == NeedsReader /\ client[c].at # "gone" /\ ~client[c].ready

\* socket_write: a client that closed its end gets nothing, and the process that
\* writes to it may be killed by SIGPIPE.
Delivers(next, freed) ==
    \/ /\ ~Blocked(conn)
       /\ job' = [job EXCEPT !.step = next] /\ heap' = heap \ Mine(freed)
       /\ damaged' = (damaged \/ ~(Mine(freed) \subseteq heap))
       /\ IF client[conn].at = "gone" THEN UNCHANGED client
          ELSE \E complete \in Complete(job.answer) :
                  client' = [client EXCEPT ![conn].got = Append(@,
                      [answer |-> job.answer, file |-> Revised(job.path), complete |-> complete])]
       /\ UNCHANGED <<held, loop>>
    \/ client[conn].at = "gone" /\ Dies /\ UNCHANGED client
    \/ job.stray /\ Dies /\ UNCHANGED client

\* The 200 or the 404 of parse_respond: of what it holds only revised_path is
\* not freed, and that only for a 404.
Send ==
    /\ job.step = "send"
    /\ Delivers("finish", {"content_type", "message_body"})
    /\ UNCHANGED <<setup, conn, faults, queue>>

\* The entries of a directory: every one is named after the fourth part of the
\* path, which the two top directories do not have.
CanList(file) == KindOf(file) = "directory" /\ Len(file) > 2 /\ Free(Handler) > 0

BugAnswersAgain == "send"

\* The status of a directory is answered by the listing alone.
AfterListing == "finish"

\* handle_directory: exit(0) when the directory does not open; otherwise the page
\* is sent and everything allocated for it is freed, then revised_path, which
\* request_uri points to by now.
List ==
    /\ job.step = "list"
    /\ \/ CanList(Revised(job.path)) /\ Delivers(AfterListing, {"revised_path"})
       \/ ~CanList(Revised(job.path)) /\ Dies /\ UNCHANGED client
    /\ UNCHANGED <<setup, conn, faults, queue>>

BugKeepsLines ==
    Mine({"general_lines", "header_array", "sock"}) \cup RequestBlocks(3) \cup
    {b \in heap : b[1] = conn /\ b[2] = "header"}

\* What handle() frees at its end, through its own variables.
OwnBlocks ==
    Mine({"general_lines", "header_array", "sock"}) \cup RequestBlocks(3) \cup
    Mines("line", DOMAIN job.lines) \cup {b \in heap : b[1] = conn /\ b[2] = "header"}

\* The end of handle(), and exit(0) in the child.
Finish ==
    /\ job.step = "finish"
    /\ LET unset == IF job.stray THEN RequestBlocks(3) \ heap ELSE {}
       IN  \/ /\ \E null \in SUBSET unset :
                    damaged' = (damaged \/ ~(OwnBlocks \ null \subseteq heap))
              /\ heap' = heap \ OwnBlocks
              /\ held' = [held EXCEPT ![Handler] = IF setup.mode = "linear" THEN @ \ {conn} ELSE {}]
              /\ job' = IF setup.mode = "linear" THEN Idle ELSE [Idle EXCEPT !.step = "over"]
              /\ loop' = IF setup.mode = "linear" THEN "accept" ELSE loop
           \/ unset # {} /\ Dies
    /\ UNCHANGED <<setup, conn, faults, queue, client>>

\* A process whose heap is damaged may be stopped by any later call on it.
Aborts ==
    /\ damaged /\ job.step \notin {"idle", "over"}
    /\ Dies /\ UNCHANGED <<setup, conn, faults, queue, client>>

\* signal_handler: control-C ends the server and its child.
Interrupt ==
    /\ Running /\ loop' = "interrupted"
    /\ held' = [p \in DOMAIN held |-> {}] /\ job' = Idle /\ heap' = {}
    /\ conn' = NoClient /\ queue' = <<>> /\ damaged' = FALSE
    /\ UNCHANGED <<setup, faults, client>>

-----------------------------------------------------------------------------
(* The clients                                                             *)

Connect(c) ==
    /\ Running /\ setup.listening /\ setup.bound /\ client[c].at = "away"
    /\ client' = [client EXCEPT ![c].at = "here"]
    /\ queue' = Append(queue, c)
    /\ UNCHANGED <<setup, loop, conn, held, job, heap, damaged, faults>>

\* The server waits for a client that stays: for a line of it, or for it to read.
AwaitsLine(c) == conn = c /\ job.step = "read" /\ client[c].at = "here" /\ ~client[c].ready
AwaitsReader(c) == conn = c /\ job.step \in {"send", "list"} /\ Blocked(c)
Awaits(c) == AwaitsLine(c) \/ AwaitsReader(c)

SendLine(c) ==
    /\ AwaitsLine(c) /\ client[c].read < Len(client[c].script)
    /\ client' = [client EXCEPT ![c].ready = TRUE]
    /\ UNCHANGED <<setup, loop, conn, held, job, heap, damaged, faults, queue>>

\* The client reads until the rest of the answer fits.
Receive(c) ==
    /\ AwaitsReader(c)
    /\ client' = [client EXCEPT ![c].ready = TRUE]
    /\ UNCHANGED <<setup, loop, conn, held, job, heap, damaged, faults, queue>>

\* The client shuts its writing side down, or leaves.
Stop(c) ==
    /\ Running /\ client[c].at \in {"here", "half"}
    /\ \E at \in {"half", "gone"} \ {client[c].at} : client' = [client EXCEPT ![c].at = at]
    /\ UNCHANGED <<setup, loop, conn, held, job, heap, damaged, faults, queue>>

-----------------------------------------------------------------------------
ServerStep ==
    \/ Start \/ Accept \/ Fork \/ Reap \/ ReadLine \/ ReadNothing \/ Parse
    \/ Lookup \/ Send \/ List \/ Finish

Next ==
    \/ ServerStep \/ Aborts \/ Interrupt
    \/ \E c \in Clients : Connect(c) \/ SendLine(c) \/ Receive(c) \/ Stop(c)

\* The server's processes run on their own; nothing is assumed of the clients.
Spec == Init /\ [][Next]_vars /\ WF_vars(ServerStep)

-----------------------------------------------------------------------------
(* Properties                                                              *)

\* A request that server and client are meant for: a request line of three
\* words, headers with values, the empty line.
WellFormed(s) ==
    /\ Len(s) > 1 /\ s[1].words = 3 /\ s[Len(s)] = EmptyLine
    /\ \A i \in 1..(Len(s) - 1) : ~s[i].odd /\ s[i].words > 1
Behaves(c) == WellFormed(client[c].script) /\ client[c].at \notin {"half", "gone"}
File(c) == Revised(Target(client[c].script[1].path))

\* Every connection gets at most one answer, and one whose request line arrived
\* gets it for its own path and of the kind its file has, complete unless it is
\* a text document; "not found" is also what a server out of descriptors says.
RightAnswers ==
    \A c \in Clients :
        LET got == client[c].got IN
        /\ Len(got) <= 1
        /\ got # <<>> /\ client[c].read > 0 /\ WellFormed(client[c].script) /\ ~damaged =>
               /\ got[1].file = File(c)
               /\ got[1].complete \/ KindOf(File(c)) = "text"
               /\ CASE got[1].answer = "document" -> KindOf(File(c)) \in {"text", "image"}
                    [] got[1].answer = "listing" -> KindOf(File(c)) = "directory"
                    [] OTHER -> KindOf(File(c)) = "missing" \/ setup.limit <= Cardinality(Clients)

\* When the linear server accepts again it has closed every connection and
\* freed everything but the revised_path of its 404s and the keys of headers
\* without a value; no block is freed twice unless a request was malformed.
NothingLeaks ==
    /\ loop = "accept" /\ setup.mode = "linear" =>
          /\ held["server"] = {}
          /\ \A b \in heap :
                \/ /\ b[2] = "revised_path"
                   /\ client[b[1]].got # <<>> => client[b[1]].got[1].answer = "not found"
                \/ b[2] = "key" /\ ~Behaves(b[1])
    /\ damaged => \E c \in Clients : ~Behaves(c)

\* Nothing a client does ends the forking server, and the linear one goes only
\* with a client that left or a request that is malformed or names no document.
StaysUp ==
    loop = "ended" /\ faults = 0 /\ setup.mode # "threads" =>
        /\ setup.mode = "linear"
        /\ \/ setup.limit < 4
           \/ \E c \in Clients :
                 \/ ~Behaves(c)
                 \/ KindOf(File(c)) = "missing" \/ Len(File(c)) < 3

\* A client that connects, sends a well-formed request for a document and stays
\* is answered, as long as nobody keeps the server waiting for ever, by neither
\* sending a line nor reading an answer nor leaving, and neither the system's
\* limits nor its faults are met.  Whatever else others send and whenever they
\* leave, they may end the linear server (StaysUp says how), but not stop it.
ClientsServed ==
    \A c \in Clients :
        (\A d \in Clients : []<>~Awaits(d)) =>
            ((/\ client[c].at = "here" /\ WellFormed(client[c].script)
              /\ KindOf(File(c)) \in {"text", "image"})
             ~> (\/ client[c].got # <<>> \/ client[c].at # "here"
                 \/ ~Running \/ faults > 0 \/ setup.limit < 5))

\* server.c:200-201, "Connection: close": a connection whose well-formed request has
\* arrived whole and been answered is closed.
ConnectionsEnd ==
    \A c \in Clients :
        (/\ client[c].got # <<>> /\ WellFormed(client[c].script)
         /\ client[c].read = Len(client[c].script))
          ~> c \notin held["server"] \cup held["child"]
=============================================================================
