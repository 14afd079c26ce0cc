--------------------------- MODULE MCRemoteAccount ---------------------------
(***************************************************************************)
(* RemoteAccount with two fields, two texts, and the documents of up to    *)
(* three elements, each of up to three children.                           *)
(***************************************************************************)
EXTENDS RemoteAccount

MCDefault == [f \in Fields |-> IF f = "url" THEN "text" ELSE ""]
\* None, one without a field, and a complete one that is not the default.
MCFiles == {NoFile, [f \in Fields |-> IF f = "url" THEN Missing ELSE "text"],
            [f \in Fields |-> "text"]}
MCAccounts == [Fields -> Texts]

Child(n, c) == [name |-> n, content |-> c]

\* Complete and incomplete, in either order, with a child twice, with a child
\* nobody knows.
CommandElements ==
  {<<Child("Name", n), Child("Value", "v1")>> : n \in {"ChangeKey", "KCV"}}
  \cup {<<Child("Value", "v2"), Child("Name", "ChangeKey")>>,
        <<Child("Name", "ChangeKey"), Child("Value", "v1"), Child("Value", "v2")>>,
        <<Child("Name", "KCV"), Child("Status", "v2"), Child("Value", "v1")>>,
        <<Child("Name", "ChangeKey")>>, <<Child("Value", "v2")>>}

KeyElements ==
  {<<Child("ID", id), Child("KSI", ksi)>> : id \in {"k1", "k2"}, ksi \in {"mine", "other", ""}}
  \cup {<<Child("KSI", "mine")>>, <<Child("ID", "k1")>>,
        <<Child("KSI", "mine"), Child("ID", "k1"), Child("ID", "k2")>>}

Answers(responses, elements) ==
  [response : responses, elements : UNION {[1 .. n -> elements] : n \in 0 .. 3}]

MCDocuments ==
  Answers({"GetKeyList", "Fault"}, KeyElements)
  \cup Answers(Actions \ {"GetKeyList"}, CommandElements)
=============================================================================
