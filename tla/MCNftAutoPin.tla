---------------------------- MODULE MCNftAutoPin ----------------------------
(***************************************************************************)
(* Instances of NftAutoPin for TLC.  Two tokens of one collection: their   *)
(* files differ, the folder they are in is pinned for both.                *)
(***************************************************************************)
EXTENDS NftAutoPin

CONSTANTS t1, t2, file1, file2, folder

MCTokens == {t1, t2}

MCCids == {file1, file2, folder}

MCPinsOf ==
  [t \in MCTokens |->
     {<<IF t = t1 THEN file1 ELSE file2, "recursive">>, <<folder, "direct">>}]

=============================================================================
