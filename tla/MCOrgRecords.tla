-------------------------- MODULE MCOrgRecords --------------------------
EXTENDS OrgRecords, TLC
CONSTANTS u1, a1, a2, k1, k2, o1, t1, s1, c1, c2, c3, v1, v2, n1, n2
MCAccountOf == k1 :> a1 @@ k2 :> a1
MCInitially == {{}, Family(a1, {k1}) \cup {<<"func:temporal", a1>>}}
MCOfficeOf == s1 :> o1
MCTeamsOf == s1 :> {t1}
MCSymmetry == Permutations(Calls) \cup Permutations(Values) \cup Permutations(Slots)
=============================================================================
