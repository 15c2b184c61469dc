---------------------------- MODULE MCCatalogAPI ----------------------------
(* An instance of CatalogAPI: cards that differ in what the code tells apart. *)
EXTENDS CatalogAPI

Skill(id, name, asks) == [id |-> id, name |-> name, description |-> "d", reqs |-> asks]
Http(name, scheme) == [name |-> name, type |-> "http", http |-> scheme]
Asks(scheme, scopes) == [ok |-> TRUE, schemes |-> [k \in {scheme} |-> scopes]]
Garbled == [ok |-> FALSE, schemes |-> <<>>]

\* Version 0.3, with schemes in an array and requirements of a skill and overall
Translator ==
    [EmptyCard EXCEPT !.name = "translator", !.description = "d", !.version = "1",
        !.flag = "root", !.keys = {"skills"}, !.org = "acme",
        !.skills = <<Skill("s1", "translate", <<Asks("k", <<"r", "w">>), Garbled>>)>>,
        !.interfaces = <<[url |-> "u1", binding |-> "JSONRPC"]>>,
        !.form = "array",
        !.schemes = <<Http("", "Basic"), Http("", "Bearer"), [name |-> "", type |-> NoType, http |-> ""]>>,
        !.reqs = <<Asks("k", <<>>)>>]

\* The next version of the card at the same endpoint, for version 1.0, and long
Renewed ==
    [Translator EXCEPT !.version = "2", !.flag = "nested", !.long = TRUE,
        !.skills = <<Skill("s1", "translate", <<>>), Skill("s2", "speak", <<>>)>>,
        !.form = "map", !.schemes = <<Http("basic", "Basic"), [name |-> "x", type |-> "", http |-> ""]>>,
        !.extensions = <<"ext">>, !.signatures = <<[algorithm |-> "ES256", key |-> "k1"]>>]

\* Two bindings at one URL, which the names of rows do not tell apart
TwoBindings ==
    [EmptyCard EXCEPT !.name = "two", !.description = "d", !.version = "1", !.org = "acme",
        !.interfaces = <<[url |-> "u2", binding |-> "JSONRPC"], [url |-> "u2", binding |-> "GRPC"]>>]

\* For either parser; not valid for the API as an A2A card
Tools ==
    [EmptyCard EXCEPT !.name = "tools", !.version = "1", !.keys = {"tools"}, !.url = "u1",
        !.skills = <<Skill("", "", <<>>)>>,
        !.remotes = <<"u2">>, !.tools = <<"search">>, !.prompts = <<"ask">>,
        !.resources = <<[name |-> "", uri |-> "file"]>>]

SomeCards == {Translator, Renewed, TwoBindings, Tools}

SomeBodies == {[protocol |-> "a2ui", endpoint |-> "u1", version |-> ""],
               [protocol |-> "acp", endpoint |-> "u2", version |-> "1"],
               [protocol |-> "mcp", endpoint |-> "", version |-> "1"]}

Interchangeable == Permutations(Ids) \cup Permutations(Reqs)

SomeImports == {[valid |-> TRUE, path |-> "a2a", protocol |-> ""],
                [valid |-> TRUE, path |-> "other", protocol |-> ""],
                [valid |-> FALSE, path |-> "other", protocol |-> "mcp"]}
=============================================================================
