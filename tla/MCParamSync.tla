----------------------------- MODULE MCParamSync -----------------------------
(***************************************************************************)
(* Instances of ParamSync for TLC.  "legacy" and "modern" are the two names *)
(* of one renamed parameter.  The images:                                  *)
(*   boot   a board that has not registered its whole table yet,           *)
(*   full   the same board and build with the table complete,              *)
(*   flash  the same board reflashed with a smaller build,                 *)
(*   plane  a board of another kind,                                        *)
(*   boot1, full2  boot and full with one parameter less.                    *)
(***************************************************************************)
EXTENDS ParamSync

MCParamId == {"legacy", "modern", "gain", "rate"}
MCAlias == [id \in MCParamId |->
              IF id = "legacy" THEN "modern" ELSE IF id = "modern" THEN "legacy" ELSE None]

MCTableOf == [boot  |-> <<"legacy", "rate">>,
              full  |-> <<"legacy", "gain", "rate">>,
              flash |-> <<"modern">>,
              plane |-> <<"rate">>,
              boot1 |-> <<"rate">>,
              full2 |-> <<"legacy", "rate">>]
MCKeyOf   == [boot |-> "copter", full |-> "copter", flash |-> "copter",
              plane |-> "plane", boot1 |-> "copter", full2 |-> "copter"]
MCLineOf  == [boot |-> "A", full |-> "A", flash |-> "B", plane |-> "D",
              boot1 |-> "A", full2 |-> "A"]

NoPairs   == {}
BootGrows == {<<"boot", "full">>}
Boot1Grows == {<<"boot1", "full2">>}
SmallParamId == {"legacy", "modern", "rate"}
SmallAlias == [id \in SmallParamId |-> MCAlias[id]]
SameImage == {<<img, img>> : img \in Image}
Replaced  == {<<"full", "flash">>, <<"full", "plane">>, <<"flash", "plane">>}
KeptOrReplaced == SameImage \cup Replaced
==============================================================================
