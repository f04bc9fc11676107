----------------------------- MODULE FeatureMap -----------------------------
(***************************************************************************)
(* CreateConfigDataValueMap: the parameters of a response, collected from  *)
(* the configData of its features.                                         *)
(***************************************************************************)
EXTENDS Naturals, Sequences

CONSTANTS
  Keys,   \* TR-181 parameters
  None,   \* no value
  NoData  \* a feature without configData

\* The loop breaks at the first feature without configData.
Parsed(fs) == {i \in DOMAIN fs : \A j \in 1 .. i : fs[j] # NoData}

\* All features with configData.
WithData(fs) == {i \in DOMAIN fs : fs[i] # NoData}

\* Later features overwrite the keys of earlier ones.
MapOf(fs, indices) ==
  [k \in Keys |->
     LET I == {i \in indices : fs[i][k] # None}
     IN  IF I = {} THEN None
         ELSE fs[CHOOSE i \in I : \A j \in I : j <= i][k]]

\* _RFCKeyAndValueMap
ConfigMap(fs) == MapOf(fs, Parsed(fs))

Named(map) == {k \in Keys : map[k] # None}
=============================================================================
