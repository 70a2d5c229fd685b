------------------------------ MODULE MCServer ------------------------------
(* Two clients, the first with any of the requests below.                  *)
EXTENDS Server, TLC

CONSTANT c1

MCFiles ==
    <<"http-root-dir", "htdocs", "index.html">> :> "text" @@
    <<"http-root-dir", "icons", "up.gif">> :> "image" @@
    <<"http-root-dir", "icons">> :> "directory" @@
    <<"http-root-dir", "htdocs", "dir1">> :> "directory"

MCLarge == {<<"http-root-dir", "icons", "up.gif">>}

Request(path) == <<Line(3, path), EmptyLine>>

\* The first client sends any of these, the others a request for a document.
MCScripts == [c \in Clients |->
    IF c # c1 THEN {Request(<<>>)}
    ELSE {Request(<<"icons", "up.gif">>), Request(<<"icons">>), Request(<<"dir1">>), Request(<<"none">>),
          <<Line(3, <<>>), Line(2, NoPath), EmptyLine>>,
          <<Line(3, <<>>), Line(2, NoPath), Line(1, NoPath), EmptyLine>>,
          <<Line(2, <<>>), EmptyLine>>, <<OddLine(<<"none">>), EmptyLine>>}]
=============================================================================
