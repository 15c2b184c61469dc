----------------------------- MODULE AgentCards -----------------------------
(***************************************************************************)
(* What AgentLens makes of an agent card: validation and parsing           *)
(* (plugins/parsers), the rows of table capabilities and back              *)
(* (internal/store/sql_store.go), and what is computed from capabilities   *)
(* when an entry is shown (internal/model/agent.go).                       *)
(*                                                                         *)
(* A card is a record of the fields that either parser looks at; "" is a   *)
(* field that is absent. Descriptions and the fields that are only copied  *)
(* are left out. A name that the code joins from several strings is a      *)
(* record of them here, so that separators inside of them make no          *)
(* collisions.                                                             *)
(***************************************************************************)
EXTENDS Integers, Sequences, SequencesExt

\* The type of a security scheme that has none; it may also be "".
NoType == "<none>"

\* json: the bytes decode; keys: which of these keys there are; flag: where
\* supportsExtendedAgentCard is; long: more than maxCardBytes. A security
\* requirement is a function from scheme names to lists of scopes, ok unless it
\* does not decode.
EmptyCard ==
    [json |-> TRUE, keys |-> {}, long |-> FALSE, flag |-> "absent",
     name |-> "", description |-> "", version |-> "", url |-> "", org |-> "",
     skills |-> <<>>,        \* of [id, name, description, reqs]
     interfaces |-> <<>>,    \* of [url, binding]
     extensions |-> <<>>,    \* of URIs
     signatures |-> <<>>,    \* of [algorithm, key]
     form |-> "absent",      \* securitySchemes: absent, map, array or other
     schemes |-> <<>>,       \* of [name, type, http], sorted if form is map
     reqs |-> <<>>,          \* of [ok, schemes]
     remotes |-> <<>>,       \* of URLs
     tools |-> <<>>, prompts |-> <<>>,  \* of names
     resources |-> <<>>]     \* of [name, uri]

Each(s, Op(_)) == [i \in DOMAIN s |-> Op(s[i])]

\* One item of a list, or nothing if it is skipped
Where(kept, x) == IF kept THEN <<x>> ELSE <<>>

(***************************************************************************)
(* Capabilities                                                            *)
(***************************************************************************)
\* A name: a string, the type and index of a scheme without a name, or what
\* derivedNameFromSchemes makes of a requirement.
Name(text) == [text |-> text, index |-> 0, ref |-> "", scopes |-> <<>>]
NoName == Name("")

\* alt: strings that may stand in for the name; detail: other fields; schemes
\* and ref: of a security requirement.
Capability(kind, name, alt, detail) ==
    [kind |-> kind, name |-> name, alt |-> alt, detail |-> detail,
     schemes |-> <<>>, ref |-> ""]

Requirement(req, skill) ==
    [kind |-> "a2a.security_requirement", name |-> NoName, alt |-> <<>>, detail |-> <<>>,
     schemes |-> req.schemes, ref |-> skill]

\* Kinds whose JSON has a field "name"
NamedKinds == {"a2a.skill", "a2a.security_scheme", "mcp.tool", "mcp.resource", "mcp.prompt"}

\* DiscoverableKinds
DiscoverableKinds == {"a2a.skill", "mcp.tool", "mcp.resource", "mcp.prompt"}

(***************************************************************************)
(* plugins/parsers/a2a                                                     *)
(***************************************************************************)
\* detectSpecVersion
SpecVersion(c) == CASE c.flag = "root" -> "0.3" [] c.flag = "nested" -> "1.0" [] OTHER -> ""

\* ValidateCard
ValidateA2A(c) ==
    /\ c.json
    /\ c.name # "" /\ c.description # "" /\ c.version # ""
    /\ c.interfaces # <<>> \/ c.url # ""
    /\ \A i \in DOMAIN c.extensions : c.extensions[i] # ""
    /\ \A i \in DOMAIN c.skills :
           c.skills[i].id # "" /\ c.skills[i].name # "" /\ c.skills[i].description # ""

\* buildPreview, as far as it is counts
PreviewA2A(c) ==
    [spec |-> SpecVersion(c), skills |-> Len(c.skills),
     extensions |-> Len(c.extensions), interfaces |-> Len(c.interfaces)]

\* resolveEndpoint: the first interface before the url
EndpointA2A(c) ==
    IF c.interfaces # <<>> /\ c.interfaces[1].url # "" THEN c.interfaces[1].url ELSE c.url

\* buildSecurityRequirements, parseSkillSecurityRequirements: what does not
\* decode is skipped.
Requirements(reqs, skill) ==
    FlattenSeq(Each(reqs, LAMBDA r : Where(r.ok, Requirement(r, skill))))

SkillCaps(c) ==
    FlattenSeq(Each(c.skills, LAMBDA s :
        <<Capability("a2a.skill", Name(s.name), <<>>, <<>>)>> \o Requirements(s.reqs, s.name)))

MetaCaps(c) ==
    Each(c.extensions, LAMBDA u : Capability("a2a.extension", NoName, <<u>>, <<>>))
    \o Each(c.interfaces, LAMBDA f : Capability("a2a.interface", NoName, <<f.url>>, <<f.binding>>))
    \o Each(c.signatures, LAMBDA s : Capability("a2a.signature", NoName, <<s.algorithm>>, <<s.key>>))

SchemeCap(name, s) ==
    Capability("a2a.security_scheme", name, <<name.text, s.type>>, <<s.type, s.http>>)

\* buildSecurityCaps: a map of version 1.0 or an array of version 0.3, whose
\* schemes are named by type and index. What has no type is skipped.
SecurityCaps(c) ==
    CASE c.form = "map" ->
            FlattenSeq(Each(c.schemes, LAMBDA s :
                Where(s.type \notin {NoType, ""}, SchemeCap(Name(s.name), s))))
      [] c.form = "array" ->
            FlattenSeq([i \in DOMAIN c.schemes |->
                Where(c.schemes[i].type # NoType,
                      SchemeCap([Name(c.schemes[i].type) EXCEPT !.index = i], c.schemes[i]))])
      [] OTHER -> <<>>

\* Parse of the A2A plugin; a provider is always made, with the organization or "".
ParseA2A(c) ==
    [ok |-> c.json /\ c.name # "" /\ EndpointA2A(c) # "",
     protocol |-> "a2a", endpoint |-> EndpointA2A(c), version |-> c.version,
     spec |-> SpecVersion(c), provider |-> {c.org},
     caps |-> SkillCaps(c) \o MetaCaps(c) \o SecurityCaps(c) \o Requirements(c.reqs, "")]

(***************************************************************************)
(* plugins/parsers/mcp                                                     *)
(***************************************************************************)
EndpointMCP(c) == IF c.remotes = <<>> THEN "" ELSE c.remotes[1]

ValidateMCP(c) == c.json /\ c.name # "" /\ EndpointMCP(c) # ""

ParseMCP(c) ==
    [ok |-> ValidateMCP(c),
     protocol |-> "mcp", endpoint |-> EndpointMCP(c), version |-> c.version,
     spec |-> "", provider |-> {},
     caps |-> Each(c.tools, LAMBDA t : Capability("mcp.tool", Name(t), <<>>, <<>>))
              \o Each(c.resources,
                      LAMBDA r : Capability("mcp.resource", Name(r.name), <<r.uri>>, <<>>))
              \o Each(c.prompts, LAMBDA p : Capability("mcp.prompt", Name(p), <<>>, <<>>))]

\* The parsers that main registers
Parsers == {"a2a", "mcp"}
Validate(protocol, c) == IF protocol = "a2a" THEN ValidateA2A(c) ELSE ValidateMCP(c)
Parse(protocol, c) == IF protocol = "a2a" THEN ParseA2A(c) ELSE ParseMCP(c)

(***************************************************************************)
(* Rows of table capabilities: a capability with its name filled in        *)
(***************************************************************************)
\* derivedNameFromSchemes: scopes are sorted, so that their order is lost.
DerivedName(schemes, ref) ==
    IF DOMAIN schemes = {} THEN NoName
    ELSE [NoName EXCEPT !.ref = ref,
                        !.scopes = [k \in DOMAIN schemes |-> ToBag(schemes[k])]]

\* The name of a row whose capability has none
FallbackName(alt, schemes, ref) ==
    LET given == SelectSeq(alt, LAMBDA t : t # "")
    IN  IF given # <<>> THEN Name(given[1]) ELSE DerivedName(schemes, ref)

RowName(cap) ==
    IF cap.name # NoName THEN cap.name ELSE FallbackName(cap.alt, cap.schemes, cap.ref)

capabilityToRow(cap) == [cap EXCEPT !.name = RowName(cap)]

\* faulty variant: the column name is not put back
rowToCapabilityNameless(row) == [row EXCEPT !.name = NoName]

\* rowToCapability: the column goes into the field "name" if there is one.
rowToCapability(row) == IF row.kind \in NamedKinds THEN row ELSE [row EXCEPT !.name = NoName]

RowsOf(caps) == Each(caps, capabilityToRow)

\* faulty variant: no type is registered for one of the kinds
LoadCapabilitiesRegistered(rows) ==
    Each(SelectSeq(rows, LAMBDA r : r.kind # "a2a.extension"), rowToCapability)

\* loadCapabilities; rows of unknown kinds would be skipped
LoadCapabilities(rows) == Each(rows, rowToCapability)

\* The unique index on agent_type_id, kind and name
UniqueRows(rows) ==
    \A i, j \in DOMAIN rows :
        rows[i].kind = rows[j].kind /\ rows[i].name = rows[j].name => i = j

(***************************************************************************)
(* What an entry is shown with                                             *)
(***************************************************************************)
OfKind(caps, kind) == {c \in ToSet(caps) : c.kind = kind}

\* buildAuthSummary; nothing if there are no types
AuthSummary(caps) ==
    LET schemes == OfKind(caps, "a2a.security_scheme")
        TypeOf(d) == IF d[1] = "http" /\ d[2] # "" THEN d ELSE <<d[1]>>
    IN  IF schemes = {} THEN [types |-> {}, required |-> FALSE]
        ELSE [types |-> {TypeOf(s.detail) : s \in schemes},
              required |-> \E c \in OfKind(caps, "a2a.security_requirement") : c.ref = ""]

\* buildSecurityDetail
SecurityDetail(caps) ==
    [schemes |-> OfKind(caps, "a2a.security_scheme"),
     requirements |-> OfKind(caps, "a2a.security_requirement")]

\* buildCapabilitySnippet: the capability of that kind with that name, if any; names
\* are unique (UniqueRows).
Snippet(caps, kind, name) ==
    {c \in OfKind(caps, kind) : kind \in NamedKinds /\ c.name = name}
=============================================================================
