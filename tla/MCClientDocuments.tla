------------------------- MODULE MCClientDocuments -------------------------
(* ClientDocuments on small instances, with every endpoint of up to three segments. *)
EXTENDS ClientDocuments, TLC

Sym == Permutations(Conn)

Path == UNION {[1..n -> {"v1", "api", "chat", "completions", "messages"}] : n \in 0..3}

Content(protocol, path, query, models, key, enabled) ==
    [protocol |-> protocol, path |-> path, query |-> query, models |-> models,
     key |-> key, enabled |-> enabled]

\* A usable connection, and those without a key, a model, or a compatible endpoint.
MCUsual ==
    {Content("chat", <<"v1">>, FALSE, TRUE, TRUE, TRUE),
     Content("chat", <<"v1">>, FALSE, TRUE, FALSE, TRUE),
     Content("chat", <<"v1">>, FALSE, FALSE, TRUE, TRUE),
     Content("chat", <<"api">>, TRUE, TRUE, TRUE, FALSE)}

MCBody == MCUsual \cup
    {Content(protocol, path, FALSE, TRUE, TRUE, TRUE) :
        protocol \in {"chat", "messages"}, path \in Path}

Plugin(id, vendor, version) ==
    [wellformed |-> TRUE, id |-> id, name |-> <<"Copilot">>, vendor |-> vendor,
     version |-> version]

MCDescriptor ==
    {Plugin(<<"com.github.copilot">>, <<"GitHub">>, <<"1.19.0-252">>),
     Plugin(<<"com.github.copilot">>, <<"GitHub">>, <<"1.20.0-252">>),
     Plugin(<<"org.other">>, <<"GitHub">>, <<"1.19.0-252">>),
     Plugin(<<"com.github.copilot", "org.other">>, <<"GitHub">>, <<"1.19.0-252">>)}

MCRequest ==
    {<<t>> : t \in Target} \cup {<<Cli, App>>} \cup {<<t, DefaultProfile>> : t \in Ide}
        \cup UNION {{<<t, DefaultProfile>>, <<DefaultProfile, t>>} : t \in Profile}

\* An endpoint that is not usual is published once, and nothing else happens.
Once ==
    /\ left.all = MaxSteps - (MaxPlans - left.plan) /\ left.plan >= MaxPlans - 1
    /\ docs[DefaultProfile] = Missing /\ \A t \in Profile : client[t] = "own"

\* Connections have usual contents, and were published with usual contents.
Bounded ==
    \/ /\ \A c \in Conn : conns[c] \in Usual \cup {None}
       /\ \A t \in Target : \A n \in DOMAIN records[t] : records[t][n].body \in Usual \cup {None}
    \/ Once
=============================================================================
