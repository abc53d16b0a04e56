--------------------------- MODULE MCCheckEngine ---------------------------
(* Values for model checking CheckEngine: a name whose answers change, a   *)
(* literal on either side of the policy, and a defective URL.              *)
EXTENDS CheckEngine

CONSTANT name

Public == [mapped |-> FALSE, range |-> "unicast"]
PublicMapped == [mapped |-> TRUE, range |-> "unicast"]
Private == [mapped |-> TRUE, range |-> "private"]

MCAddresses == {Public, PublicMapped, Private}

Url(defect, host) == [defect |-> defect, host |-> host]

MCUrls ==
  {Url("none", name), Url("none", PublicMapped), Url("none", Private), Url("credentials", name)}

MCLimits == {-1, 0, 1, 2}
=============================================================================
