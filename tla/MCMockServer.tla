---------------------------- MODULE MCMockServer ----------------------------
(***************************************************************************)
(* Small instances of MockServer.  The kinds are the requests that differ  *)
(* in what they do: a stream or not, the prepared tool declared or not,    *)
(* one declared function, structured output, the right path or another.    *)
(***************************************************************************)
EXTENDS MockServer, TLC

CONSTANTS Read, Write, runSSE, other

MCTool == {Read, Write}
MCPath == {runSSE, other}

\* A call prepared by name for any path, and the default call for one path.
MCPrepared == {[name |-> Write, path |-> AnyPath], [name |-> NoTool, path |-> runSSE]}

\* A request of protocol p that asks for a stream or not, declaring T.
Ask(p, stream, T) ==
  [proto |-> p, stream |-> stream, json |-> FALSE, tools |-> T, path |-> other,
   awaited |-> FALSE]

\* One request for every order of critical sections a handler has.
AllKinds ==
  { Ask("chat", TRUE, {Read}),
    Ask("responses", TRUE, {Write}),
    [Ask("gemini", TRUE, {Read, Write}) EXCEPT !.json = TRUE],
    [Ask("bedrock", TRUE, {Read}) EXCEPT !.path = runSSE],
    Ask("runtime", FALSE, {}) }

Awaited(K) == {[k EXCEPT !.awaited = TRUE] : k \in K}

\* Handlers that ask bodyOffersTool and mark what they stream, all waited for.
CarefulKinds == Awaited(
  { Ask("chat", TRUE, {Read, Write}),
    Ask("messages", TRUE, {Write}),
    Ask("responses", TRUE, {Read}),
    Ask("kiro", TRUE, {Write}),
    Ask("stub", FALSE, {}) })

\* A turn's request with requests on the side.
SideKinds ==
  Awaited({Ask("chat", TRUE, {Read})}) \cup {Ask("chat", TRUE, {Write}), Ask("runtime", FALSE, {})}

MCKinds == AllKinds \cup CarefulKinds \cup SideKinds

GeminiKinds == Awaited({Ask("gemini", TRUE, {Read, Write}), Ask("chat", TRUE, {Write})})
ChatKinds == {Ask("chat", TRUE, {Read}), Ask("chat", FALSE, {Read, Write})}

\* Requests nobody waits for, of every order of critical sections; requests that
\* are all waited for; and one that is, beside others that are not.
MCAgents ==
  [Request -> AllKinds] \cup [Request -> CarefulKinds]
    \cup {k \in [Request -> SideKinds] : \E r \in Request :
            \A s \in Request : k[s].awaited <=> s = r}
GeminiAgents == [Request -> GeminiKinds]
ChatAgents == [Request -> ChatKinds]
CarefulAgents == [Request -> CarefulKinds]

Requests == Permutations(Request)
=============================================================================
