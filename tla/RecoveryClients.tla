--------------------------- MODULE RecoveryClients --------------------------
(***************************************************************************)
(* The clients that recover a manifest in two requests: the tools          *)
(* verify_asset and recover_manifest of the MCP server (rooted_mcp) and    *)
(* the recover command of the CLI (rooted_cli).  Each asks for a match and *)
(* then for the manifest the match names; the server it talks to (Recovery)*)
(* may restart before, between and after.  A request in progress at a      *)
(* restart fails with a connection error, which no client turns into an    *)
(* answer.  The response is abstracted to the kind of result it reports.   *)
(***************************************************************************)
EXTENDS Recovery

VARIABLE tool       \* the client's call in progress, or the last one with its answer

\* A tool of the MCP server, or the command.
Kind == {"mcp", "cli"}

NoTool == [pc |-> "idle", kind |-> "cli", match |-> Nothing, restarted |-> FALSE,
           lost |-> FALSE, known |-> FALSE, answer |-> "none"]

ClientsInit == Init /\ tool = NoTool

\* The first request, by content; every client has that one.  A tool does not send an
\* input that is no base64 or too long.
AskByContent(kind, frames, wm) ==
  /\ tool = NoTool
  /\ \/ /\ kind # "cli"
        /\ tool' = [tool EXCEPT !.kind = kind, !.answer = "invalid"]
        /\ UNCHANGED vars
     \/ /\ BeginContent("image", frames, wm)
        /\ tool' = [tool EXCEPT !.pc = "match", !.kind = kind,
                      !.known = /\ Exact("image")
                                /\ \E p \in index["image"].prints : Close(frames[1], p.hash)]

\* recover_manifest also asks by binding.
AskByBinding(k) ==
  /\ tool = NoTool
  /\ BeginBinding(k, FALSE)
  /\ tool' = [tool EXCEPT !.pc = "match", !.kind = "mcp",
                          !.known = index["image"].bindings[k] # Nothing]

\* _first_match: a 4xx is the tools' "invalid or unsupported image" and the CLI's
\* "request failed", an empty list is no match, else the manifest is asked for.
TakeMatch ==
  /\ tool.pc = "match" /\ ~tool.lost
  /\ query.pc = "done"
  /\ tool' = CASE query.via = "refused" ->
                    [tool EXCEPT !.pc = "idle",
                                 !.answer = IF tool.kind = "cli" THEN "failed" ELSE "invalid"]
               [] query.via # "refused" /\ query.match = Nothing ->
                    [tool EXCEPT !.pc = "idle", !.answer = "no match"]
               [] query.match # Nothing ->
                    [tool EXCEPT !.pc = "manifest", !.match = query.match]
  /\ query' = NoQuery
  /\ conn' = Closed
  /\ UNCHANGED <<backend, index, writer, registrations, life>>

\* Faulty: a failed request is an empty answer.
RaiseSwallowed ==
  /\ tool.pc \in {"match", "manifest"} /\ tool.lost
  /\ tool' = [tool EXCEPT !.pc = "idle", !.answer = "no match"]
  /\ UNCHANGED vars

\* A connection error or a 5xx is raised, "never report a false no provenance".
Raise ==
  /\ tool.pc \in {"match", "manifest"} /\ tool.lost
  /\ tool' = [tool EXCEPT !.pc = "idle", !.answer = "failed"]
  /\ UNCHANGED vars

\* The second request: GET /manifests/{id}, whose 404 is a result of its own.
FetchManifest ==
  /\ tool.pc = "manifest" /\ tool.kind # "cli" /\ ~tool.lost
  /\ tool' = [tool EXCEPT !.pc = "idle",
                !.answer = IF Lookup(tool.match) THEN "recovered" ELSE "match without manifest"]
  /\ UNCHANGED vars

\* The CLI has announced the match before it asks; a 404 is its "request failed".
FetchDetails ==
  /\ tool.pc = "manifest" /\ tool.kind = "cli" /\ ~tool.lost
  /\ tool' = [tool EXCEPT !.pc = "idle",
                !.answer = IF Lookup(tool.match) THEN "recovered" ELSE "failed"]
  /\ UNCHANGED vars

DismissAnswer ==
  /\ tool.answer # "none"
  /\ tool' = NoTool
  /\ UNCHANGED vars

\* The restart ends the first request; the second one is under way or comes after it.
ServerRestarts ==
  /\ Restart
  /\ \E underway \in BOOLEAN :
       tool' = [tool EXCEPT !.restarted = @ \/ tool.pc # "idle",
                            !.lost = @ \/ tool.pc = "match" \/ (tool.pc = "manifest" /\ underway)]

\* The steps of the server and of its other clients; as queries change nothing, theirs
\* are left out while this client is in a call.
ServerStep ==
  /\ Step
  /\ \/ tool = NoTool
     \/ tool.pc = "match" /\ query.pc \notin {"idle", "done"}
     \/ <<query, conn>>' = <<query, conn>>
  /\ UNCHANGED tool

\* The clients send images, which have one frame.
ImageFrames == {frames \in Frames : Len(frames) = 1}

ClientsNext ==
  \/ \E kind \in Kind, frames \in ImageFrames, wm \in WatermarkId \cup {Nothing} :
       AskByContent(kind, frames, wm)
  \/ \E k \in WatermarkId : AskByBinding(k)
  \/ TakeMatch
  \/ Raise
  \/ FetchManifest
  \/ FetchDetails
  \/ DismissAnswer
  \/ ServerRestarts
  \/ ServerStep

ClientsSpec == ClientsInit /\ [][ClientsNext]_<<vars, tool>>

-----------------------------------------------------------------------------
\* What the clients report is true.  Every match they were given could be fetched, so
\* they report a match without its manifest only when a restart between their requests
\* lost an index in memory; and "no provenance" means that the index held none when
\* they asked, never that the server was away.  (verify_asset, recover_manifest, recover.)
ReportsAreTrue ==
  /\ MatchResolves
  /\ tool.answer = "match without manifest" => tool.restarted /\ InMemory("image")
  /\ tool.answer = "failed" /\ tool.match # Nothing /\ ~tool.lost =>
       tool.restarted /\ InMemory("image")
  /\ tool.answer = "no match" => ~tool.known
=============================================================================
