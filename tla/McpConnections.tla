--------------------------- MODULE McpConnections ---------------------------
(***************************************************************************)
(* The agent's connections to MCP servers (baseagent/agent.py, with the    *)
(* hooks of baseagent/hooks.py that fetch the token): connected one after  *)
(* the other in setup(), used by the tool calls of turns, of approved      *)
(* questions and of spawned children, closed and opened again when a call  *)
(* is refused for its token.  The tool closures share one mutable          *)
(* reference for each server, _McpClientRef.                               *)
(***************************************************************************)
EXTENDS Integers, Sequences, FiniteSets

CONSTANTS
    Configs,    \* agent.yaml: see Init
    Tools,      \* names of tools, and
    Prompts,    \* of prompts, resources and resource templates
    Calls,      \* uses of a tool or prompt
    MaxTokens,  \* bound on the tokens that are issued
    MaxClients  \* bound on the clients of a server

VARIABLES
    cfg,
    todo,       \* setup: the servers to be connected yet
    env,        \* MCP_AUTH_TOKEN: its number, 0 when there is none
    idp,        \* external: the tokens issued so far, and the oldest that servers still accept
    ref,        \* per server its _McpClientRef
    open,       \* << server, client >> of the clients that are open
    owner,      \* per name the server whose tool or prompt is registered, "none"
    call,
    history     \* not in the code: clients that a failed setup left open, and servers whose
                \* client was closed by a reconnection that failed or was cancelled

vars == << cfg, todo, env, idp, ref, open, owner, call, history >>

-----------------------------------------------------------------------------
Servers == {s.name : s \in cfg.servers}
Config(s) == CHOOSE c \in cfg.servers : c.name = s
Names == Tools \cup Prompts

\* client: the number of the client, 0 before there is one; made: how many there were; header:
\* the token in config.headers, as the last connection left it; lock: the call that reconnects.
Unconnected(token) == [client |-> 0, made |-> 0, header |-> token, lock |-> "free"]
Unused == [at |-> "unused", name |-> "none", server |-> "none", client |-> 0,
           tries |-> 0, ran |-> 0, seemed |-> FALSE, why |-> "none"]

Init ==
    /\ cfg \in Configs
    /\ todo = cfg.order
    /\ env = 0 /\ idp = [issued |-> 0, oldest |-> 1]
    /\ ref = [s \in Servers |-> Unconnected(0)]
    /\ open = {}
    /\ owner = [n \in Names |-> "none"]
    /\ call = [c \in Calls |-> Unused]
    /\ history = [leaked |-> {}, lost |-> {}]

-----------------------------------------------------------------------------
(* Tokens.                                                                 *)

\* A hook fetches a token, or fails, times out or prints nothing: the environment stays.
Fetched == IF cfg.hooks THEN {env} \cup (IF idp.issued < MaxTokens THEN {idp.issued + 1} ELSE {}) ELSE {env}

FetchToken(token) ==
    /\ token \in Fetched
    /\ env' = token
    /\ idp' = IF token > idp.issued THEN [idp EXCEPT !.issued = token] ELSE idp

Accepted(token) == token >= idp.oldest

Expire ==
    /\ idp.oldest <= idp.issued
    /\ idp' = [idp EXCEPT !.oldest = @ + 1]
    /\ UNCHANGED << cfg, todo, env, ref, open, owner, call, history >>

\* The header a client connects with: from the template, if there is one.
Header(s, token) == IF Config(s).template THEN token ELSE ref[s].header

\* A client that is connected anew.
With(s, token) ==
    LET n == ref[s].made + 1 IN
    /\ ref' = [ref EXCEPT ![s] = [@ EXCEPT !.client = n, !.made = n, !.header = token, !.lock = "free"]]
    /\ open' = open \cup {<< s, n >>}

MayConnect(s, token) == ref[s].made < MaxClients /\ (Config(s).keyed => Accepted(token))

-----------------------------------------------------------------------------
(* setup(): connect_mcp for each server.  A name that is registered already *)
(* is skipped.                                                             *)

Register(s, names) == [n \in Names |-> IF n \in names /\ owner[n] = "none" THEN s ELSE owner[n]]

\* Without hooks the header is the one of the configuration as it was loaded.
Connect ==
    /\ todo # << >>
    /\ LET s == Head(todo) IN
       \E token \in Fetched, fate \in {"connected", "refused", "unlisted", "no prompts"} :
          LET header == IF cfg.hooks THEN Header(s, token) ELSE ref[s].header
              offered == Config(s).offers \cap (IF fate = "no prompts" THEN Tools ELSE Names)
          IN /\ FetchToken(token)
             /\ fate # "refused" => MayConnect(s, header)
             /\ CASE fate = "refused" -> UNCHANGED << ref, open, owner, history >>
                  [] fate = "unlisted" ->       \* list_tools fails: the open client is forgotten
                       /\ open' = open \cup {<< s, 1 >>}
                       /\ history' = [history EXCEPT !.leaked = @ \cup {<< s, 1 >>}]
                       /\ UNCHANGED << ref, owner >>
                  [] OTHER ->
                       /\ With(s, header)
                       /\ owner' = Register(s, offered)
                       /\ UNCHANGED history
    /\ todo' = Tail(todo)
    /\ UNCHANGED << cfg, call >>

-----------------------------------------------------------------------------
(* Calls.                                                                  *)

At(c, place) == call[c].at = place
Changed(c, new) == call' = [call EXCEPT ![c] = new]
Alive(c) == << call[c].server, call[c].client >> \in open

Sent(c, s, client) == [c EXCEPT !.at = "sent", !.server = s, !.client = client, !.tries = @ + 1]

Call(c, n) ==
    /\ At(c, "unused") /\ todo = << >> /\ owner[n] # "none"
    /\ LET s == owner[n] IN Changed(c, Sent([call[c] EXCEPT !.name = n], s, ref[s].client))
    /\ UNCHANGED << cfg, todo, env, idp, ref, open, owner, history >>

\* The server takes the call and runs it.
Execute(c) ==
    /\ At(c, "sent") /\ Alive(c)
    /\ Config(call[c].server).keyed => Accepted(ref[call[c].server].header)
    /\ Changed(c, [call[c] EXCEPT !.at = "running", !.ran = @ + 1])
    /\ UNCHANGED << cfg, todo, env, idp, ref, open, owner, history >>

\* What a failure does: one that looks like 401 or 403 (_is_auth_error) has a tool reconnect and
\* try once more; a prompt or resource does not.
Refused(c, refused) ==
    IF refused /\ call[c].name \in Tools /\ call[c].tries = 1
    THEN [call[c] EXCEPT !.at = "waiting", !.why = "auth"]
    ELSE [call[c] EXCEPT !.at = "failed", !.why = IF refused THEN "auth" ELSE "error"]

\* The token is not accepted (any more).
Reject(c) ==
    /\ At(c, "sent") /\ Alive(c)
    /\ Config(call[c].server).keyed /\ ~Accepted(ref[call[c].server].header)
    /\ Changed(c, Refused(c, TRUE))
    /\ UNCHANGED << cfg, todo, env, idp, ref, open, owner, history >>

\* The tool answers, or reports an error of its own, whose words may look like a refusal.
Answer(c) ==
    /\ At(c, "running") /\ Alive(c)
    /\ \/ Changed(c, [call[c] EXCEPT !.at = "done"])
       \/ Changed(c, Refused(c, FALSE))
       \/ Changed(c, [Refused(c, TRUE) EXCEPT !.seemed = TRUE])
    /\ UNCHANGED << cfg, todo, env, idp, ref, open, owner, history >>

\* A client that is closed fails its calls, with nothing in the message that looks like a refusal.
Dropped(c) ==
    /\ call[c].at \in {"sent", "running"} /\ ~Alive(c)
    /\ Changed(c, [Refused(c, FALSE) EXCEPT !.why = "closed"])
    /\ UNCHANGED << cfg, todo, env, idp, ref, open, owner, history >>

-----------------------------------------------------------------------------
(* _refresh_mcp_auth                                                       *)

TakeLock(c) ==
    /\ At(c, "waiting") /\ ref[call[c].server].lock = "free"
    /\ ref' = [ref EXCEPT ![call[c].server].lock = c]
    /\ Changed(c, [call[c] EXCEPT !.at = "hook"])
    /\ UNCHANGED << cfg, todo, env, idp, open, owner, history >>

FireHook(c) ==
    /\ At(c, "hook")
    /\ \E token \in Fetched : FetchToken(token)
    /\ Changed(c, [call[c] EXCEPT !.at = "closing"])
    /\ UNCHANGED << cfg, todo, ref, open, owner, history >>

\* The reconnection is over and has failed.
Unlock(c, why) ==
    LET s == call[c].server IN
    /\ ref' = [ref EXCEPT ![s].lock = "free"]
    /\ history' = [history EXCEPT !.lost = @ \cup {s}]
    /\ Changed(c, [call[c] EXCEPT !.at = "failed", !.why = why])

\* The old client is closed before there is another; a server without a URL gets none.
CloseOld(c) ==
    LET s == call[c].server IN
    /\ At(c, "closing")
    /\ open' = open \ {<< s, ref[s].client >>}
    /\ IF Config(s).http
       THEN Changed(c, [call[c] EXCEPT !.at = "connecting"]) /\ UNCHANGED << ref, history >>
       ELSE Unlock(c, "refresh")
    /\ UNCHANGED << cfg, todo, env, idp, owner >>

\* The call is sent again as soon as the new client is there, or not at all.
Reconnect(c) ==
    LET s == call[c].server IN
    /\ At(c, "connecting")
    /\ \/ /\ MayConnect(s, Header(s, env))
          /\ With(s, Header(s, env))
          /\ Changed(c, Sent(call[c], s, ref[s].made + 1))
          /\ history' = [history EXCEPT !.lost = @ \ {s}]
       \/ Unlock(c, "refresh") /\ UNCHANGED open
    /\ UNCHANGED << cfg, todo, env, idp, owner >>

\* The turn of a call is cancelled: its stream is closed, or the server stops.
Cancel(c) ==
    LET s == call[c].server IN
    /\ call[c].at \in {"sent", "running", "waiting", "hook", "closing", "connecting"}
    /\ IF At(c, "connecting") THEN Unlock(c, "cancelled")
       ELSE /\ Changed(c, [call[c] EXCEPT !.at = "failed", !.why = "cancelled"])
            /\ ref' = IF ref[s].lock = c THEN [ref EXCEPT ![s].lock = "free"] ELSE ref
            /\ UNCHANGED history
    /\ UNCHANGED << cfg, todo, env, idp, open, owner >>

\* shutdown(), when requests and event loops have ended: the references are closed and cleared.
Shutdown ==
    /\ todo = << >> /\ \A c \in Calls : call[c].at \in {"unused", "done", "failed"}
    /\ open' = open \ {<< s, ref[s].client >> : s \in Servers}
    /\ ref' = [s \in Servers |-> [ref[s] EXCEPT !.client = 0]]
    /\ owner' = [n \in Names |-> IF n \in Prompts THEN "none" ELSE owner[n]]
    /\ todo' = << "down" >>
    /\ history' = [history EXCEPT !.lost = {}]
    /\ UNCHANGED << cfg, env, idp, call >>

-----------------------------------------------------------------------------
Progress(c) ==
    Execute(c) \/ Reject(c) \/ Answer(c) \/ Dropped(c) \/ TakeLock(c) \/ FireHook(c) \/ CloseOld(c) \/ Reconnect(c)

Next ==
    \/ todo # << "down" >> /\ Connect
    \/ Expire \/ Shutdown
    \/ \E c \in Calls : Progress(c) \/ Cancel(c) \/ \E n \in Names : Call(c, n)

Spec == Init /\ [][Next]_vars

-----------------------------------------------------------------------------
(* Properties.                                                             *)

TypeOK ==
    /\ cfg \in Configs
    /\ env \in 0..idp.issued /\ idp.issued \in 0..MaxTokens /\ idp.oldest \in 1..MaxTokens + 1
    /\ \A s \in Servers : /\ ref[s].client \in 0..ref[s].made /\ ref[s].made \in 0..MaxClients
                          /\ ref[s].header \in 0..idp.issued /\ ref[s].lock \in Calls \cup {"free"}
    /\ open \subseteq Servers \X (1..MaxClients)
    /\ owner \in [Names -> Servers \cup {"none"}]
    /\ \A c \in Calls : call[c].tries \in 0..2 /\ call[c].ran \in 0..2

Reconnecting(s) == {c \in Calls : call[c].server = s /\ call[c].at \in {"hook", "closing", "connecting"}}

\* A tool runs once for a call, unless its own error looked like a refusal.
ToolsRunOnce == \A c \in Calls : call[c].ran = 2 => call[c].seemed

\* One call at a time reconnects a server, under its lock, and no client is left open that the
\* reference of its server does not name, but where setup() could not list the tools.
ClientsAreTakenCareOf ==
    /\ \A s \in Servers : Reconnecting(s) = {ref[s].lock} \ {"free"}
    /\ open \ history.leaked \subseteq {<< s, ref[s].client >> : s \in Servers}

\* A server that has been connected can be called, unless it is being reconnected just now or a
\* reconnection has closed its client and then failed, been cancelled or found no URL: such a
\* server is not connected again.
ServersStayInReach ==
    \A s \in Servers : ref[s].client # 0 /\ s \notin history.lost =>
        << s, ref[s].client >> \in open \/ \E c \in Reconnecting(s) : At(c, "connecting")

\* A call whose client was closed under it was sent before another call had reconnected, or
\* while one was about to, or to a server that is lost.
DropsAreExplained ==
    \A c \in Calls : call[c].why = "closed" =>
        LET s == call[c].server IN
        ref[s].made > call[c].client \/ s \in history.lost \/ Reconnecting(s) # {} \/ todo = << "down" >>

ConnectionsAreSound == ToolsRunOnce /\ ClientsAreTakenCareOf /\ ServersStayInReach /\ DropsAreExplained
=============================================================================
