-------------------------- MODULE ServerInvariant --------------------------
(***************************************************************************)
(* The inductive invariant of the web server: where the two processes are, *)
(* what has been read of a request, what was answered, and which blocks    *)
(* the process that runs handle() owns at each of its steps.               *)
(***************************************************************************)
EXTENDS Server

Steps == {"read", "parse", "lookup", "list", "send", "finish"}
Active == job.step \in Steps
Handling == Active /\ conn # NoClient
Queued(c) == \E i \in DOMAIN queue : queue[i] = c

\* Types of everything the server's steps look at.
ClientType ==
    [script : Seq(Lines), read : Nat, ready : BOOLEAN, eof : BOOLEAN,
     at : {"away", "here", "half", "gone"},
     got : Seq([answer : {"document", "listing", "not found"},
                file : Seq(Names), complete : BOOLEAN])]
JobType ==
    [step : Steps \cup {"idle", "over"}, lines : Seq(Lines),
     path : {NoPath} \cup Seq(Names), stray : BOOLEAN,
     answer : {"none", "document", "listing", "not found"}]
Types ==
    /\ setup \in [mode : Modes, limit : Limits, listening : BOOLEAN, bound : BOOLEAN]
    /\ loop \in {"start", "accept", "fork", "handle", "wait", "ended", "interrupted"}
    /\ conn \in Clients \cup {NoClient}
    /\ held \in [{"server", "child"} -> SUBSET Clients]
    /\ job \in JobType
    /\ heap \subseteq Clients \X BlockNames \X Nat
    /\ damaged \in BOOLEAN /\ faults \in 0..MaxFaults
    /\ queue \in Seq(Clients)
    /\ client \in [Clients -> ClientType]
    /\ \A c \in Clients : client[c].script \in Scripts[c]

\* Where the two processes are together.  The linear server holds what it
\* handles and no more; a socket that does not listen is a fault.
Places ==
    /\ Active => loop = IF setup.mode = "linear" THEN "handle" ELSE "wait"
    /\ setup.mode = "linear" =>
          /\ loop \notin {"fork", "wait"}
          /\ loop = "handle" => Active
          /\ held["server"] = IF Handling THEN {conn} ELSE {}
    /\ setup.mode # "linear" => loop # "handle"
    /\ loop = "ended" /\ faults = 0 => setup.mode \in {"linear", "threads"}
    /\ Active /\ conn = NoClient => job.step = "read"
    /\ job.step \in {"read", "parse", "lookup"} => job.answer = "none"
    /\ job.step \in {"lookup", "list", "send", "finish"} => job.path \in Seq(Names)
    /\ loop \notin {"start", "ended", "interrupted"} /\ ~setup.listening => faults > 0
    /\ loop = "handle" /\ conn = NoClient /\ faults = 0 => setup.limit = 0

\* The queue holds every client once, and none that was accepted before.
InQueue ==
    /\ \A i, j \in DOMAIN queue : queue[i] = queue[j] => i = j
    /\ \A i \in DOMAIN queue : client[queue[i]].at # "away" /\ queue[i] # conn
    /\ conn # NoClient => client[conn].at # "away"

\* Nothing was read of a connection that waits, and nothing answered; the end
\* of the input is seen only of a client that is no longer there.
Waits(c) == client[c].at = "away" \/ Queued(c) \/ (c = conn /\ loop = "fork")
Untouched ==
    /\ \A c \in Clients :
          /\ Waits(c) => client[c].got = <<>> /\ client[c].read = 0
          /\ client[c].at \in {"away", "here"} => ~client[c].eof
    /\ Handling /\ job.step # "finish" => client[conn].got = <<>>

\* The lines that handle() has are those of the client, as far as the input was whole.
Reading ==
    Handling =>
        /\ job.step # "read" /\ ~client[conn].eof => client[conn].read > 0
        /\ WellFormed(client[conn].script) =>
              /\ client[conn].read > 0 =>
                    job.lines # <<>> /\ job.lines[1] = client[conn].script[1]
              /\ ~client[conn].eof =>
                    \A i \in DOMAIN job.lines :
                        i < Len(client[conn].script) /\ job.lines[i] = client[conn].script[i]
              /\ job.step = "read" /\ ~client[conn].eof =>
                    client[conn].read = Len(job.lines)

\* What was parsed of them: the path that was asked for.
Whole(c) == WellFormed(client[c].script) /\ client[c].read > 0
Parsed ==
    Handling /\ job.step \in {"lookup", "list", "send", "finish"} /\ Whole(conn) =>
        ~job.stray /\ job.path = Target(client[conn].script[1].path)

\* The kind of the answer is that of the file.
Fits(answer, file) ==
    CASE answer = "document" -> KindOf(file) \in {"text", "image"}
      [] answer = "listing" -> KindOf(file) = "directory"
      [] OTHER -> KindOf(file) = "missing" \/ setup.limit <= Cardinality(Clients)
LookedUp ==
    Handling =>
        /\ job.step = "list" =>
              job.answer = "listing" /\ KindOf(Revised(job.path)) \in {"directory", "missing"}
        /\ job.step = "send" =>
              job.answer \in {"document", "not found"} /\ Fits(job.answer, Revised(job.path))
        /\ job.step = "finish" =>
              /\ job.answer # "none"
              /\ client[conn].got # <<>> => client[conn].got[1].answer = job.answer

RightAnswer(c) ==
    LET got == client[c].got IN
    /\ Len(got) <= 1
    /\ got # <<>> /\ Whole(c) =>
          /\ got[1].file = File(c)
          /\ got[1].complete \/ KindOf(File(c)) = "text"
          /\ Fits(got[1].answer, File(c))
Answered == \A c \in Clients : RightAnswer(c)

\* The blocks that are there for handle() to use and to free.
Past(steps) == Handling /\ job.step \in steps
Owned ==
    /\ conn # NoClient /\ (loop = "fork" \/ Handling) => <<conn, "sock", 0>> \in heap
    /\ Handling => Mines("line", DOMAIN job.lines) \subseteq heap
    /\ Past(Steps \ {"read"}) => <<conn, "general_lines", 0>> \in heap
    /\ Past(Steps \ {"read", "parse"}) =>
          /\ <<conn, "header_array", 0>> \in heap
          /\ ~job.stray => RequestBlocks(3) \subseteq heap
    /\ Past({"send"}) => Mine({"content_type", "message_body"}) \subseteq heap
    /\ Past({"list"}) => <<conn, "revised_path", 0>> \in heap

\* All there is in the linear server: the blocks of the request in progress and
\* what earlier ones left.
Left(b) ==
    \/ /\ b[2] = "revised_path"
       /\ client[b[1]].got # <<>> => client[b[1]].got[1].answer = "not found"
    \/ b[2] = "key" /\ ~Behaves(b[1])
InUse(b) ==
    \/ b \in OwnBlocks
    \/ job.step = "parse" /\ b \in Mine({"buffer"})
    \/ job.step = "send" /\ b \in Mine({"content_type", "message_body"})
    \/ job.step = "list" /\ b \in Mine({"revised_path"})
    \/ b[2] = "revised_path" /\ job.answer = "not found"
    \/ b[2] = "key" /\ ~Behaves(conn)
NothingElse ==
    setup.mode = "linear" =>
        \A b \in heap :
            /\ client[b[1]].at # "away" /\ ~Queued(b[1])
            /\ IF Handling /\ b[1] = conn THEN InUse(b) ELSE Left(b)

DamageExplained == damaged => \E c \in Clients : ~Behaves(c)

Inv ==
    /\ Types /\ Places /\ InQueue /\ Untouched /\ Reading /\ Parsed
    /\ LookedUp /\ Answered /\ Owned /\ NothingElse /\ DamageExplained /\ StaysUp
=============================================================================
