------------------------------ MODULE MCNetConf ------------------------------
(* Two values for each item, one of them no valid address for the          *)
(* interface, and messages with at most two items.                         *)
EXTENDS NetConf, FiniteSetsExt

MCValue == {"v1", "v2", "bad"}
MCMessage ==
  UNION {{m \in [Item -> MCValue \cup {Absent}] :
            /\ \A k \in Item : m[k] # Absent <=> k \in S
            /\ \A k \in Item \ {"ipaddr"} : m[k] # "bad"} :
         S \in kSubset(1, Item) \cup kSubset(2, Item)}
=============================================================================
