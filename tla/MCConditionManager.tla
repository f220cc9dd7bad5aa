------------------------- MODULE MCConditionManager -------------------------
(* A small instance of ConditionManager: two condition types, the statuses  *)
(* and reasons that the constructors of pkg/conditions combine.             *)
EXTENDS ConditionManager

MCTypes == {"SupplyChainReady", "ResourcesSubmitted"}
MCReasons == {"Ready", "NotFound", "StampFailure", "MissingValue"}

Made(t, s, r) == [type |-> t, status |-> s, reason |-> r]

MCProduced ==
    {Made("SupplyChainReady", "True", "Ready"),
     Made("SupplyChainReady", "False", "NotFound"),
     Made("ResourcesSubmitted", "True", "Ready"),
     Made("ResourcesSubmitted", "False", "StampFailure"),
     Made("ResourcesSubmitted", "False", "NotFound"),
     Made("ResourcesSubmitted", "Unknown", "MissingValue")}
=============================================================================
