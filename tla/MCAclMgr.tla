------------------------------ MODULE MCAclMgr ------------------------------
(* AclMgr with interchangeable ACLs, rules and clients.                    *)
EXTENDS AclMgr, TLC

Symmetry == Permutations(Acl) \cup Permutations(Rule) \cup Permutations(Client)
=============================================================================
