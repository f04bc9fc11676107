--------------------------- MODULE MCConfigApply ---------------------------
(***************************************************************************)
(* Instances of ConfigApply for TLC.                                       *)
(***************************************************************************)
EXTENDS ConfigApply

CONSTANTS rfc, outside, account, url, v1, v2

\* configData of one feature.
Data(r, o, a, u) ==
  [k \in Keys |-> CASE k = rfc -> r [] k = outside -> o
                    [] k = account -> a [] k = url -> u]

\* Keys that come, change and go, an account that is known or not, a key
\* named twice, an empty value, and a feature without configData in front of
\* another one.
MCResponses ==
  {<<Data(v1, v1, Unknown, None)>>,
   <<Data(v2, None, v2, v1), Data(v1, v2, None, None)>>,
   <<Data(Empty, v1, None, v2), NoData, Data(v2, None, None, v1)>>}
=============================================================================
