---------------------------- MODULE MC_Services ----------------------------
(***************************************************************************)
(* Small instances of the components of Services, all checked in one run.  *)
(***************************************************************************)
EXTENDS Services, TLC

CONSTANTS s1, s2, w1, w2, i1, Nil

Symmetry == Permutations({s1, s2}) \cup Permutations({w1, w2})

-----------------------------------------------------------------------------
(* A calendar of 3 months, 3 weekdays and days of 4 minutes.               *)

Every == [kind |-> "any", lo |-> 0, hi |-> 0, step |-> 1]
EveryOther == [Every EXCEPT !.step = 2]
Value(x) == [Every EXCEPT !.kind = "value", !.lo = x]
FromTo(x, y) == [Every EXCEPT !.kind = "range", !.lo = x, !.hi = y]

Calendar == << 0, 3, 5, 8, 11, 14, 16, 19, 22, 25 >>
Schedules ==
    [minute : {{Every}, {Value(1)}}, hour : {{Every}, {Value(0)}},
     dom : {{Every}, {Value(2), Value(3)}, {EveryOther}},
     month : {{Every}, {FromTo(2, 3)}}, dow : {{Every}, {Value(3)}, {FromTo(1, 2)}}]

-----------------------------------------------------------------------------
(* Budgets, the gateway, uploads.                                          *)

Limits == {[session |-> 1, tenant |-> 0], [session |-> 0, tenant |-> 1]}

Ann == [sub |-> "ann", exp |-> 6, sound |-> TRUE]
Bob == [sub |-> "bob", exp |-> 2, sound |-> TRUE]
Unnamed == [sub |-> "nobody", exp |-> 6, sound |-> TRUE]
NoToken == [sub |-> "nobody", exp |-> 0, sound |-> FALSE]
Tokens == {Ann, Bob, Unnamed}

Setups ==
    [mode : {"anonymous", "proxy", "jwt"}, exchange : {FALSE}]
    \cup {[mode |-> "jwt", exchange |-> TRUE]}

Ask(route, token, user, subject) == [route |-> route, token |-> token, user |-> user, subject |-> subject]
Asks ==
    {Ask("chat", t, "nobody", "nobody") : t \in Tokens \cup {NoToken}}
    \cup {Ask("sessions", t, "bob", "ann") : t \in {Ann, Bob}}
    \cup {Ask("readyz", NoToken, "nobody", "bob")}

Part(file, allowed, size) == [file |-> file, allowed |-> allowed, size |-> size]
Field == Part(FALSE, FALSE, 1)
Good(size) == Part(TRUE, TRUE, size)
Bodies ==
    {<< Field >>, << Field, Good(1), Good(1) >>, << Part(TRUE, FALSE, 1) >>,
     << Good(1), Field, Part(TRUE, FALSE, 1) >>, << Good(2), Good(2) >>,
     << Field, Field, Field, Field, Good(1) >>}
Uploads == [parts : Bodies, known : BOOLEAN]

-----------------------------------------------------------------------------
(* The agent's ways to its tools, and of its words to the client.          *)

Server(name, http, keyed, template, offers) ==
    [name |-> name, http |-> http, keyed |-> keyed, template |-> template, offers |-> offers]
Broker(keyed, template, offers) == Server("broker", TRUE, keyed, template, offers)
Local == Server("local", FALSE, FALSE, FALSE, {"search", "run"})
Connected ==
    {[hooks |-> TRUE, servers |-> {Broker(TRUE, TRUE, {"search", "brief"}), Local}, order |-> << "broker", "local" >>],
     [hooks |-> FALSE, servers |-> {Broker(FALSE, FALSE, {"search"})}, order |-> << "broker" >>]}

OpenTag == << "<", "k" >>
CloseTag == << "<", "/", "k" >>
Pieces == {<< "a" >>, << "<" >>, << "k" >>, << "/", "k" >>, << "a", "<", "k", "b", "<" >>}
Fragment(index, id, named, data) == [index |-> index, id |-> id, named |-> named, data |-> data]
Turn(says, wire, pieces, fragments) == [model |-> says, wire |-> wire, pieces |-> pieces, deltas |-> fragments]
Fragments ==
    {Fragment(0, "same", TRUE, TRUE), Fragment(0, "fresh", TRUE, FALSE), Fragment(0, "none", FALSE, TRUE),
     Fragment(1, "fresh", TRUE, TRUE), Fragment(1, "fresh", FALSE, FALSE)}
Turns ==
    {Turn("tags", "openai", Pieces, {Fragment(0, "same", TRUE, TRUE)}),
     Turn("implicit", "anthropic", Pieces, {Fragment(0, "none", TRUE, TRUE)}),
     Turn("plain", "openai", {<< "a" >>}, Fragments), Turn("plain", "anthropic", {<< "a" >>}, Fragments)}

-----------------------------------------------------------------------------
(* Agents that work together, and what they learn.                         *)

Graph(entry, edges, conditional, error, remote, retries) ==
    [nodes |-> {"plan", "work", "repair"}, entry |-> entry, edges |-> edges, conditional |-> conditional,
     error |-> error, remote |-> remote, endpoints |-> remote, agents |-> {"plan", "work"},
     nodeRetries |-> retries, remoteRetries |-> 1]
Graphs ==
    {Graph("plan", "plan" :> "work", "work" :> {"plan", "END", "elsewhere"},
           "work" :> "repair" @@ "plan" :> "plan", {"work"}, 2),
     Graph("work", "repair" :> "work", "work" :> {"END", "work"}, "work" :> "repair", {"repair"}, 1),
     Graph("plan", "plan" :> "END", "plan" :> {"work"}, "plan" :> "work", {}, 1),
     Graph("unset", "plan" :> "END", "work" :> {"work"}, "plan" :> "work", {}, 1),
     Graph("plan", "plan" :> "END", "work" :> {"work"}, "plan" :> "work", {}, 0)}

Sub(to, kind, max) == [to |-> to, kind |-> kind, max |-> max]
Subagents ==
    "a" :> {Sub("b", "http", 2), Sub("c", "inprocess", 1)}
    @@ "b" :> {Sub("a", "http", 2)}
    @@ "c" :> {Sub("a", "http", 2), Sub("b", "http", 1)}

Autonomy(placed, level, parent, seed, maturation, apprenticeMax, specialistMin) ==
    [placed |-> placed, level |-> level, domains |-> {"mail"}, maxSkills |-> 1, parent |-> parent, overlap |-> TRUE,
     seed |-> seed, maturation |-> maturation, apprenticeMax |-> apprenticeMax, specialistMin |-> specialistMin]
Autonomies ==
    {Autonomy(TRUE, 4, 3, -1, TRUE, 1, 4), Autonomy(TRUE, 3, -1, -1, FALSE, 1, 4),
     Autonomy(FALSE, 4, 1, 5, TRUE, 0, 2)}
Thresholds == << 1, 2, 3, 4 >>

-----------------------------------------------------------------------------
(* Texts, a token to each 4 letters, and how they are cut.                 *)

Tokens4(sizes, i, j) ==
    LET chars[k \in 0..j] == IF k < i THEN 0 ELSE IF k = i THEN sizes[k] ELSE chars[k - 1] + sizes[k] + 1
    IN  IF chars[j] < 4 THEN 1 ELSE chars[j] \div 4
Section(level, sizes, paragraphs, sentences) ==
    [level |-> level, words |-> Len(sizes), paragraphs |-> paragraphs, sentences |-> sentences,
     count |-> [p \in (DOMAIN sizes) \X (DOMAIN sizes) |-> Tokens4(sizes, p[1], p[2])],
     weight |-> [k \in DOMAIN sizes |-> Tokens4(<< sizes[k] + 1 >>, 1, 1)]]
Title(level) == Section(level, << >>, {}, {})
Line(level) == Section(level, << 4 >>, {1}, {1})
Text(level, paragraphs, sentences) == Section(level, << 4, 4, 9, 4, 8 >>, paragraphs, sentences)
Texts ==
    {<< Text(0, p \cup {5}, p \cup s \cup {5}) >> : p \in SUBSET {2, 3}, s \in SUBSET {1, 4}}
    \cup {<< Line(0), Title(1), Line(3), Text(2, {5}, {2, 5}), Line(2), Title(2), Line(1) >>}
Sizes == [size : {1, 2, 3}, overlap : {0, 1, 2}] \cup {[size |-> 5, overlap |-> 2]}
=============================================================================
