---------------------------- MODULE MCGatewayRun ----------------------------
(***************************************************************************)
(* Instances of GatewayRun for TLC.                                        *)
(***************************************************************************)
EXTENDS GatewayRun

MCKeys == {"wfo", "upnp", "unify", "mode", "level", "quota", "partner", "container"}
MCRfcKeys == {"wfo", "upnp", "unify", "quota", "container"}

MCKind ==
  [k \in MCKeys |-> CASE k \in {"wfo", "upnp", "unify", "container"} -> "boolean"
                      [] k = "level" -> "number"
                      [] k = "quota" -> "long"
                      [] OTHER -> "string"]

MCRank ==
  [k \in MCKeys |-> CASE k = "quota" -> 1 [] k = "upnp" -> 2 [] k = "wfo" -> 3
                      [] k = "unify" -> 4 [] k = "partner" -> 5
                      [] k = "mode" -> 6 [] k = "level" -> 7
                      [] k = "container" -> 0]

MCTexts == {"true", "false", "1", "7", "DOCSIS", "Auto", "Unknown", "acme"}

MCNumeral == [t \in MCTexts |-> IF t \in {"1", "7"} THEN t ELSE None]

MCDefault ==
  [k \in MCKeys |-> CASE MCKind[k] = "boolean" -> "false"
                      [] MCKind[k] \in {"number", "long"} -> "1"
                      [] k = "mode" -> "Auto"
                      [] OTHER -> "Unknown"]

Data(pairs) ==
  [k \in MCKeys |-> IF \E p \in pairs : p[1] = k
                      THEN (CHOOSE p \in pairs : p[1] = k)[2] ELSE None]

F(valid, immediate, pairs) ==
  [valid |-> valid, immediate |-> immediate, data |-> Data(pairs)]

Switches == F(TRUE, FALSE, {<<"wfo", "true">>, <<"unify", "true">>})
Values1 == F(TRUE, TRUE, {<<"level", "7">>, <<"upnp", "true">>, <<"mode", "DOCSIS">>,
                        <<"container", "true">>})

\* Switches before what they divert; a key behind a feature without
\* configData, a partner that becomes known and a key with another rbus type;
\* a text that is no number; "1" for a Boolean that reads "true", a key named
\* twice and a feature without a name.
MCContent ==
  [c \in {"switches", "gap", "text", "twice", "bad", "none"} |->
     CASE c = "switches" -> <<Switches, Values1>>
       [] c = "gap" ->
            <<F(TRUE, FALSE, {<<"partner", "acme">>, <<"quota", "7">>}),
              [valid |-> TRUE, immediate |-> TRUE, data |-> NoData],
              F(TRUE, TRUE, {<<"level", "1">>, <<"upnp", "true">>})>>
       [] c = "text" ->
            <<F(TRUE, TRUE, {<<"level", "acme">>, <<"unify", "1">>})>>
       [] c = "twice" ->
            <<F(TRUE, TRUE, {<<"unify", "1">>, <<"level", "7">>}),
              F(FALSE, TRUE, {<<"level", "1">>, <<"upnp", "true">>})>>
       [] OTHER -> <<>>]

\* One configuration whose only value is "1" for a Boolean.
MCSpelled ==
  [c \in {"spelled", "bad", "none"} |->
     IF c = "spelled" THEN <<F(TRUE, TRUE, {<<"unify", "1">>})>> ELSE <<>>]
=============================================================================
