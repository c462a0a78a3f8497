---------------------------- MODULE WizardProofs ----------------------------
(***************************************************************************)
(* Proofs about the wizard: a test that the user skipped does not fail,    *)
(* and the pass after a run shows how it went, for every number of faults  *)
(* and every size of the FIFO.                                             *)
(***************************************************************************)
EXTENDS Wizard, SequenceTheorems, WellFoundedInduction, TLAPS

\* A leaf that names no prover is given to SMT and then to Zenon.
USE SMTT(40), ZenonT(40)

-----------------------------------------------------------------------------
(* The table of the checks.                                                *)

\* What every check of the table has: no key is that of the end event, calls
\* alone cannot fail, and a check that may fail asks whether its own key is
\* skipped, with two kinds of exceptions.
Fits(c) ==
    /\ c.key # End.key /\ c.skipAs # End.key
    /\ c.key = NoKey => c.defines = {}
    /\ \/ c.guard = c.key \/ c.key \in CannotBeSkipped \/ c.key = NoKey
       \/ c.key = <<"open", 1>> /\ c.needs = Passed("create", 2) /\ ~c.entry
    /\ c.key = <<"create", 2>> => c.guard = <<"open", 1>>

\* A sequence of such checks.
Tests(s) == (\E A : s \in Seq(A)) /\ \A i \in 1..Len(s) : Fits(s[i])

\* The numbers of some keys differ.
LEMMA Distinct == 0 # 2 /\ 1 # 2 /\ 3 # 2
OBVIOUS

\* The forms of checks fit.
LEMMA EntryFits ==
    ASSUME NEW f, f # "__END", f # ""
    PROVE  Fits(Entry(f))
<1>1. /\ <<f, 0>> # <<"", 0>> /\ <<f, 0>> # <<"__END", 0>>
      /\ <<f, 0>> # <<"create", 2>>
  BY Distinct, Zenon
<1>2. /\ Entry(f).key = <<f, 0>> /\ Entry(f).skipAs = <<f, 0>>
      /\ Entry(f).guard = <<f, 0>>
  BY Zenon DEF Entry
<1>3. End.key = <<"__END", 0>>
  BY Zenon DEF End
<1> QED BY <1>1, <1>2, <1>3, Zenon DEF Fits, NoKey

\* A check fits if its keys are as Fits asks.
LEMMA GuardedFits ==
    ASSUME NEW guard, NEW skipAs, NEW needs, NEW calls, NEW key,
           key # <<"__END", 0>>, skipAs # <<"__END", 0>>,
           \/ guard = key \/ key \in CannotBeSkipped \/ key = NoKey
           \/ key = <<"open", 1>> /\ needs = Passed("create", 2),
           key = <<"create", 2>> => guard = <<"open", 1>>
    PROVE  Fits(GuardedBy(guard, skipAs, needs, calls, key))
<1> DEFINE c == GuardedBy(guard, skipAs, needs, calls, key)
<1>1. /\ c.key = key /\ c.skipAs = skipAs /\ c.guard = guard
      /\ c.needs = needs /\ c.defines = {} /\ c.entry = FALSE
  BY DEF GuardedBy
<1>2. End.key = <<"__END", 0>>
  BY DEF End
<1> HIDE DEF c
<1> QED BY <1>1, <1>2, Zenon DEF Fits, c

\* The regular check fits.
LEMMA CheckFits ==
    ASSUME NEW f, NEW n, f # "__END", f # "create" \/ n # 2,
           NEW needs, NEW calls
    PROVE  Fits(Check(f, n, needs, calls))
<1>1. <<f, n>> # <<"__END", 0>> /\ <<f, n>> # <<"create", 2>>
  BY Zenon
<1> QED BY <1>1, GuardedFits, Zenon DEF Check

\* Calls alone fit.
LEMMA CallsFit ==
    ASSUME NEW needs, NEW calls
    PROVE  Fits(Calls(needs, calls))
<1>1. NoKey # <<"__END", 0>> /\ NoKey # <<"create", 2>>
  BY Zenon DEF NoKey
<1> QED BY <1>1, GuardedFits, Zenon DEF Calls

\* A check that asks nobody fits if its key is one of the exceptions.
LEMMA UnguardedFits ==
    ASSUME NEW f, NEW n, f # "__END", f # "create" \/ n # 2,
           NEW needs, NEW calls,
           \/ <<f, n>> \in CannotBeSkipped
           \/ <<f, n>> = <<"open", 1>> /\ needs = Passed("create", 2)
    PROVE  Fits(Unguarded(f, n, needs, calls))
<1>1. <<f, n>> # <<"__END", 0>> /\ <<f, n>> # <<"create", 2>>
  BY Zenon
<1>2. NoKey # <<"__END", 0>>
  BY Zenon DEF NoKey
<1> QED BY <1>1, <1>2, GuardedFits, Zenon DEF Unguarded

\* Sequences of tests can be put one after the other.
LEMMA TestsJoined ==
    ASSUME NEW s, NEW t, Tests(s), Tests(t)
    PROVE  /\ Tests(s \o t) /\ Len(s) \in Nat /\ Len(t) \in Nat
           /\ Len(s \o t) = Len(s) + Len(t)
           /\ \A i \in 1..Len(s) : (s \o t)[i] = s[i]
           /\ \A i \in 1..Len(t) : (s \o t)[Len(s) + i] = t[i]
<1>1. PICK A : s \in Seq(A)
  BY Zenon DEF Tests
<1>2. PICK B : t \in Seq(B)
  BY Zenon DEF Tests
<1> DEFINE C == A \cup B
<1>3. s \in Seq(C) /\ t \in Seq(C)
  BY <1>1, <1>2
<1> HIDE DEF C
<1>4. /\ s \o t \in Seq(C) /\ Len(s) \in Nat /\ Len(t) \in Nat
      /\ Len(s \o t) = Len(s) + Len(t)
      /\ \A i \in 1..Len(s) : (s \o t)[i] = s[i]
      /\ \A i \in 1..Len(t) : (s \o t)[Len(s) + i] = t[i]
  BY <1>3
<1>5. ASSUME NEW i \in 1..Len(s \o t) PROVE Fits((s \o t)[i])
  <2>1. CASE i \in 1..Len(s)
    BY <1>4, <2>1, Zenon DEF Tests
  <2>2. CASE i \notin 1..Len(s)
    <3>1. i - Len(s) \in 1..Len(t) /\ Len(s) + (i - Len(s)) = i
      BY <1>4, <2>2
    <3>2. (s \o t)[Len(s) + (i - Len(s))] = t[i - Len(s)]
      BY <1>4, <3>1, Zenon
    <3> QED BY <3>1, <3>2, Zenon DEF Tests
  <2> QED BY <2>1, <2>2
<1> QED BY <1>4, <1>5, Zenon DEF Tests

\* The beginning of a table stays when tests are added.
Begins(s) == Tests(s) /\ Len(s) > 0 /\ s[1] = test_operations[1]

\* A longer sequence begins with the same checks.
LEMMA BeginsStill ==
    ASSUME NEW s, Begins(s), NEW t, Tests(t)
    PROVE  Begins(s \o t)
<1>1. /\ Tests(s \o t) /\ Len(s) \in Nat /\ Len(t) \in Nat
      /\ Len(s \o t) = Len(s) + Len(t)
      /\ \A i \in 1..Len(s) : (s \o t)[i] = s[i]
  BY TestsJoined DEF Begins
<1>2. Len(s) > 0 /\ s[1] = test_operations[1]
  BY DEF Begins
<1>3. Len(s \o t) > 0 /\ 1 \in 1..Len(s)
  BY <1>1, <1>2
<1> QED BY <1>1, <1>2, <1>3, Zenon DEF Begins

\* A tuple of checks that fit, for every length that a test function has.
LEMMA TestsOf1 ==
    ASSUME NEW a,
           Fits(a)
    PROVE  Tests(<<a>>)
<1> DEFINE s == <<a>>
<1>1. s \in Seq({a}) /\ Len(s) = 1
  OBVIOUS
<1>2. ASSUME NEW i \in 1..1 PROVE Fits(s[i])
  <2>1. s[1] = a
    OBVIOUS
  <2>2. i = 1
    OBVIOUS
  <2> QED BY <2>1, <2>2, Zenon
<1> HIDE DEF s
<1> QED BY <1>1, <1>2, Zenon DEF Tests, s

\* The same for two checks.
LEMMA TestsOf2 ==
    ASSUME NEW a, NEW b,
           Fits(a), Fits(b)
    PROVE  Tests(<<a, b>>)
<1> DEFINE s == <<a, b>>
<1>1. s \in Seq({a, b}) /\ Len(s) = 2
  OBVIOUS
<1>2. ASSUME NEW i \in 1..2 PROVE Fits(s[i])
  <2>1. s[1] = a
    OBVIOUS
  <2>2. s[2] = b
    OBVIOUS
  <2>3. i = 1 \/ i = 2
    OBVIOUS
  <2> QED BY <2>1, <2>2, <2>3, Zenon
<1> HIDE DEF s
<1> QED BY <1>1, <1>2, Zenon DEF Tests, s

\* The same for three checks.
LEMMA TestsOf3 ==
    ASSUME NEW a, NEW b, NEW c,
           Fits(a), Fits(b), Fits(c)
    PROVE  Tests(<<a, b, c>>)
<1> DEFINE s == <<a, b, c>>
<1>1. s \in Seq({a, b, c}) /\ Len(s) = 3
  OBVIOUS
<1>2. ASSUME NEW i \in 1..3 PROVE Fits(s[i])
  <2>1. s[1] = a
    OBVIOUS
  <2>2. s[2] = b
    OBVIOUS
  <2>3. s[3] = c
    OBVIOUS
  <2>4. i = 1 \/ i = 2 \/ i = 3
    OBVIOUS
  <2> QED BY <2>1, <2>2, <2>3, <2>4, ZenonT(40)
<1> HIDE DEF s
<1> QED BY <1>1, <1>2, Zenon DEF Tests, s

\* The same for four checks.
LEMMA TestsOf4 ==
    ASSUME NEW a, NEW b, NEW c, NEW d,
           Fits(a), Fits(b), Fits(c), Fits(d)
    PROVE  Tests(<<a, b, c, d>>)
<1> DEFINE s == <<a, b, c, d>>
<1>1. s \in Seq({a, b, c, d}) /\ Len(s) = 4
  OBVIOUS
<1>2. ASSUME NEW i \in 1..4 PROVE Fits(s[i])
  <2>1. s[1] = a
    OBVIOUS
  <2>2. s[2] = b
    OBVIOUS
  <2>3. s[3] = c
    OBVIOUS
  <2>4. s[4] = d
    OBVIOUS
  <2>5. i = 1 \/ i = 2 \/ i = 3 \/ i = 4
    OBVIOUS
  <2> QED BY <2>1, <2>2, <2>3, <2>4, <2>5, ZenonT(40)
<1> HIDE DEF s
<1> QED BY <1>1, <1>2, Zenon DEF Tests, s

\* The same for five checks.
LEMMA TestsOf5 ==
    ASSUME NEW a, NEW b, NEW c, NEW d, NEW e,
           Fits(a), Fits(b), Fits(c), Fits(d), Fits(e)
    PROVE  Tests(<<a, b, c, d, e>>)
<1> DEFINE s == <<a, b, c, d, e>>
<1>1. s \in Seq({a, b, c, d, e}) /\ Len(s) = 5
  OBVIOUS
<1>2. ASSUME NEW i \in 1..5 PROVE Fits(s[i])
  <2>1. s[1] = a
    OBVIOUS
  <2>2. s[2] = b
    OBVIOUS
  <2>3. s[3] = c
    OBVIOUS
  <2>4. s[4] = d
    OBVIOUS
  <2>5. s[5] = e
    OBVIOUS
  <2>6. i = 1 \/ i = 2 \/ i = 3 \/ i = 4 \/ i = 5
    OBVIOUS
  <2> QED BY <2>1, <2>2, <2>3, <2>4, <2>5, <2>6, ZenonT(40)
<1> HIDE DEF s
<1> QED BY <1>1, <1>2, Zenon DEF Tests, s

\* The same for eight checks.
LEMMA TestsOf8 ==
    ASSUME NEW a, NEW b, NEW c, NEW d, NEW e, NEW f, NEW g, NEW h,
           Fits(a), Fits(b), Fits(c), Fits(d), Fits(e), Fits(f), Fits(g), Fits(h)
    PROVE  Tests(<<a, b, c, d, e, f, g, h>>)
<1> DEFINE s == <<a, b, c, d, e, f, g, h>>
<1>1. s \in Seq({a, b, c, d, e, f, g, h}) /\ Len(s) = 8
  OBVIOUS
<1>2. ASSUME NEW i \in 1..8 PROVE Fits(s[i])
  <2>1. s[1] = a
    OBVIOUS
  <2>2. s[2] = b
    OBVIOUS
  <2>3. s[3] = c
    OBVIOUS
  <2>4. s[4] = d
    OBVIOUS
  <2>5. s[5] = e
    OBVIOUS
  <2>6. s[6] = f
    OBVIOUS
  <2>7. s[7] = g
    OBVIOUS
  <2>8. s[8] = h
    OBVIOUS
  <2>9. i = 1 \/ i = 2 \/ i = 3 \/ i = 4 \/ i = 5 \/ i = 6 \/ i = 7 \/ i = 8
    OBVIOUS
  <2> QED BY <2>1, <2>2, <2>3, <2>4, <2>5, <2>6, <2>7, <2>8, <2>9, ZenonT(40)
<1> HIDE DEF s
<1> QED BY <1>1, <1>2, Zenon DEF Tests, s

\* The same for nine checks.
LEMMA TestsOf9 ==
    ASSUME NEW a, NEW b, NEW c, NEW d, NEW e, NEW f, NEW g, NEW h, NEW z,
           Fits(a), Fits(b), Fits(c), Fits(d), Fits(e), Fits(f), Fits(g), Fits(h), Fits(z)
    PROVE  Tests(<<a, b, c, d, e, f, g, h, z>>)
<1> DEFINE s == <<a, b, c, d, e, f, g, h, z>>
<1>1. s \in Seq({a, b, c, d, e, f, g, h, z}) /\ Len(s) = 9
  OBVIOUS
<1>2. ASSUME NEW i \in 1..9 PROVE Fits(s[i])
  <2>1. s[1] = a
    OBVIOUS
  <2>2. s[2] = b
    OBVIOUS
  <2>3. s[3] = c
    OBVIOUS
  <2>4. s[4] = d
    OBVIOUS
  <2>5. s[5] = e
    OBVIOUS
  <2>6. s[6] = f
    OBVIOUS
  <2>7. s[7] = g
    OBVIOUS
  <2>8. s[8] = h
    OBVIOUS
  <2>9. s[9] = z
    OBVIOUS
  <2>10. i = 1 \/ i = 2 \/ i = 3 \/ i = 4 \/ i = 5 \/ i = 6 \/ i = 7 \/ i = 8 \/ i = 9
    OBVIOUS
  <2> QED BY <2>1, <2>2, <2>3, <2>4, <2>5, <2>6, <2>7, <2>8, <2>9, <2>10, ZenonT(40)
<1> HIDE DEF s
<1> QED BY <1>1, <1>2, Zenon DEF Tests, s

\* Every test function is a sequence of checks that fit.
LEMMA TestsFit ==
    /\ Tests(test_operations)
    /\ Tests(test_init)
    /\ Tests(test_getattr)
    /\ Tests(test_access)
    /\ Tests(test_rmdir)
    /\ Tests(test_mkdir)
    /\ Tests(test_unlink)
    /\ Tests(test_create)
    /\ Tests(test_fgetattr)
    /\ Tests(test_flush)
    /\ Tests(test_release)
    /\ Tests(test_opendir)
    /\ Tests(test_readdir)
    /\ Tests(test_releasedir)
    /\ Tests(test_open)
    /\ Tests(test_read_and_write)
    /\ Tests(test_symlink)
    /\ Tests(test_readlink)
    /\ Tests(test_link)
    /\ Tests(test_rename)
    /\ Tests(test_truncate)
    /\ Tests(test_utimens)
<1>1. Tests(test_operations)
  <2>1. Fits([Entry("operations") EXCEPT !.defines = {}])
    <3> DEFINE c == [Entry("operations") EXCEPT !.defines = {}]
    <3> SUFFICES Fits(c)
      OBVIOUS
    <3>1. /\ c.key = <<"operations", 0>> /\ c.skipAs = <<"operations", 0>>
          /\ c.guard = <<"operations", 0>>
      BY DEF Entry
    <3>2. End.key = <<"__END", 0>>
      BY DEF End
    <3> HIDE DEF c
    <3>3. /\ <<"operations", 0>> # <<"", 0>> /\ <<"operations", 0>> # <<"__END", 0>>
          /\ <<"operations", 0>> # <<"create", 2>>
      BY Zenon
    <3> QED BY <3>1, <3>2, <3>3, Zenon DEF Fits, NoKey
  <2> QED BY <2>1, TestsOf1, Zenon DEF test_operations
<1>2. Tests(test_init)
  BY TestsOf1, EntryFits, Zenon DEF test_init
<1>3. Tests(test_getattr)
  BY TestsOf3, EntryFits, CheckFits, Zenon DEF test_getattr
<1>4. Tests(test_access)
  BY TestsOf4, EntryFits, CheckFits, Zenon DEF test_access
<1>5. Tests(test_rmdir)
  BY TestsOf4, EntryFits, CheckFits, CallsFit, ZenonT(40) DEF test_rmdir
<1>6. Tests(test_mkdir)
  <2>1. Fits(Unguarded("mkdir", 3, Passed("mkdir", 2), {}))
    BY UnguardedFits, Zenon DEF CannotBeSkipped
  <2>2. Fits(GuardedBy(<<"mkdir", 3>>, <<"mkdir", 3>>, Made("mkdir", 2), {"rmdir"}, <<"rmdir", 3>>))
    BY GuardedFits, Zenon DEF CannotBeSkipped
  <2> QED BY <2>1, <2>2, TestsOf5, EntryFits, CheckFits, ZenonT(40) DEF test_mkdir
<1>7. Tests(test_unlink)
  BY TestsOf4, EntryFits, CheckFits, CallsFit, ZenonT(40) DEF test_unlink
<1>8. Tests(test_create)
  <2>1. Fits(Check("create", 1, Passed("create", 0), {"create"}))
    BY CheckFits, Distinct, Zenon
  <2> QED BY <2>1, TestsOf3, EntryFits, CheckFits, ZenonT(40) DEF test_create
<1>9. Tests(test_fgetattr)
  BY TestsOf3, EntryFits, CheckFits, CallsFit, ZenonT(40) DEF test_fgetattr
<1>10. Tests(test_flush)
  BY TestsOf1, EntryFits, Zenon DEF test_flush
<1>11. Tests(test_release)
  BY TestsOf1, EntryFits, Zenon DEF test_release
<1>12. Tests(test_opendir)
  BY TestsOf3, EntryFits, CheckFits, Zenon DEF test_opendir
<1>13. Tests(test_readdir)
  <2>1. Fits(GuardedBy(<<"readdir", 1>>, NoKey, Passed("readdir", 0),
                       {"create", "opendir", "readdir"}, <<"readdir", 1>>))
    BY GuardedFits, Zenon DEF NoKey
  <2> QED BY <2>1, TestsOf9, EntryFits, CheckFits, CallsFit, ZenonT(40) DEF test_readdir
<1>14. Tests(test_releasedir)
  BY TestsOf1, EntryFits, Zenon DEF test_releasedir
<1>15. Tests(test_open)
  <2>1. Fits(GuardedBy(<<"open", 1>>, <<"open", 1>>, Passed("open", 0), {"create"}, <<"create", 2>>))
    BY GuardedFits, Zenon DEF CannotBeSkipped
  <2>2. Fits(Unguarded("open", 1, Passed("create", 2), {"open"}))
    BY UnguardedFits, Zenon DEF CannotBeSkipped
  <2>3. Fits(Unguarded("unlink", 4, Passed("create", 2), {"unlink"}))
    BY UnguardedFits, Zenon DEF CannotBeSkipped
  <2> QED BY <2>1, <2>2, <2>3, TestsOf5, EntryFits, CheckFits, ZenonT(40) DEF test_open
<1>16. Tests(test_read_and_write)
  <2>1. Fits(GuardedBy(<<"create", 3>>, <<"write", 1>>, Passed("write", 0),
                       {"create"}, <<"create", 3>>))
    BY GuardedFits, Distinct, Zenon
  <2>2. Fits(Unguarded("open", 2, Passed("create", 3), {"open"}))
    BY UnguardedFits, Zenon DEF CannotBeSkipped
  <2>3. Fits([Check("read", 0, Made("write", 2), {})
                EXCEPT !.defines = {"read"}])
    <3> DEFINE c == [Check("read", 0, Made("write", 2), {})
                       EXCEPT !.defines = {"read"}]
    <3> SUFFICES Fits(c)
      OBVIOUS
    <3>1. /\ c.key = <<"read", 0>> /\ c.skipAs = <<"read", 0>>
          /\ c.guard = <<"read", 0>>
      BY DEF Check, GuardedBy
    <3>2. End.key = <<"__END", 0>>
      BY DEF End
    <3> HIDE DEF c
    <3>3. /\ <<"read", 0>> # <<"", 0>> /\ <<"read", 0>> # <<"__END", 0>>
          /\ <<"read", 0>> # <<"create", 2>>
      BY Zenon
    <3> QED BY <3>1, <3>2, <3>3, ZenonT(40) DEF Fits, NoKey
  <2>4. Fits(Unguarded("unlink", 5, Passed("create", 3), {"unlink"}))
    BY UnguardedFits, Zenon DEF CannotBeSkipped
  <2> QED BY <2>1, <2>2, <2>3, <2>4, TestsOf8, EntryFits, CheckFits, ZenonT(40) DEF test_read_and_write
<1>17. Tests(test_symlink)
  BY TestsOf4, EntryFits, CallsFit, CheckFits, ZenonT(40) DEF test_symlink
<1>18. Tests(test_readlink)
  BY TestsOf2, EntryFits, CheckFits, Zenon DEF test_readlink
<1>19. Tests(test_link)
  BY TestsOf4, EntryFits, CallsFit, CheckFits, ZenonT(40) DEF test_link
<1>20. Tests(test_rename)
  BY TestsOf4, EntryFits, CallsFit, CheckFits, ZenonT(40) DEF test_rename
<1>21. Tests(test_truncate)
  BY TestsOf3, EntryFits, CheckFits, CallsFit, ZenonT(40) DEF test_truncate
<1>22. Tests(test_utimens)
  BY TestsOf3, EntryFits, CheckFits, CallsFit, ZenonT(40) DEF test_utimens
<1> QED
  BY <1>1, <1>2, <1>3, <1>4, <1>5, <1>6, <1>7, <1>8,
     <1>9, <1>10, <1>11, <1>12, <1>13, <1>14, <1>15, <1>16,
     <1>17, <1>18, <1>19, <1>20, <1>21, <1>22, ZenonT(40)

\* All tests together: they begin with the check of the structure, which calls
\* nothing and reports whatever happens.
LEMMA Table ==
    /\ Tests(fwizard_init) /\ N \in Nat /\ N > 0
    /\ fwizard_init[1].entry /\ fwizard_init[1].calls = {}
    /\ fwizard_init[1].key # NoKey /\ fwizard_init[1].skipAs # NoKey
    /\ NoKey \in Keys
<1>1. Begins(test_operations)
  BY TestsFit DEF Begins, test_operations
<1> DEFINE s2 == test_operations \o test_init
           s3 == s2 \o test_getattr
           s4 == s3 \o test_access
           s5 == s4 \o test_rmdir
           s6 == s5 \o test_mkdir
           s7 == s6 \o test_unlink
           s8 == s7 \o test_create
           s9 == s8 \o test_fgetattr
           s10 == s9 \o test_flush
           s11 == s10 \o test_release
           s12 == s11 \o test_opendir
           s13 == s12 \o test_readdir
           s14 == s13 \o test_releasedir
           s15 == s14 \o test_open
           s16 == s15 \o test_read_and_write
           s17 == s16 \o test_symlink
           s18 == s17 \o test_readlink
           s19 == s18 \o test_link
           s20 == s19 \o test_rename
           before == s20 \o test_truncate
<1>2. Begins(s2)
  BY <1>1, TestsFit, BeginsStill
<1>3. Begins(s3)
  BY <1>2, TestsFit, BeginsStill
<1>4. Begins(s4)
  BY <1>3, TestsFit, BeginsStill
<1>5. Begins(s5)
  BY <1>4, TestsFit, BeginsStill
<1>6. Begins(s6)
  BY <1>5, TestsFit, BeginsStill
<1>7. Begins(s7)
  BY <1>6, TestsFit, BeginsStill
<1>8. Begins(s8)
  BY <1>7, TestsFit, BeginsStill
<1>9. Begins(s9)
  BY <1>8, TestsFit, BeginsStill
<1>10. Begins(s10)
  BY <1>9, TestsFit, BeginsStill
<1>11. Begins(s11)
  BY <1>10, TestsFit, BeginsStill
<1>12. Begins(s12)
  BY <1>11, TestsFit, BeginsStill
<1>13. Begins(s13)
  BY <1>12, TestsFit, BeginsStill
<1>14. Begins(s14)
  BY <1>13, TestsFit, BeginsStill
<1>15. Begins(s15)
  BY <1>14, TestsFit, BeginsStill
<1>16. Begins(s16)
  BY <1>15, TestsFit, BeginsStill
<1>17. Begins(s17)
  BY <1>16, TestsFit, BeginsStill
<1>18. Begins(s18)
  BY <1>17, TestsFit, BeginsStill
<1>19. Begins(s19)
  BY <1>18, TestsFit, BeginsStill
<1>20. Begins(s20)
  BY <1>19, TestsFit, BeginsStill
<1>21. Begins(before)
  BY <1>20, TestsFit, BeginsStill
<1>22. Begins(fwizard_init)
  BY <1>21, TestsFit, BeginsStill DEF fwizard_init
<1> DEFINE first == test_operations[1]
<1>30. /\ first.entry /\ first.calls = {}
       /\ first.key = <<"operations", 0>> /\ first.skipAs = <<"operations", 0>>
  BY Zenon DEF test_operations, Entry
<1>31. <<"operations", 0>> # NoKey
  BY DEF NoKey
<1>32. /\ Tests(fwizard_init) /\ Len(fwizard_init) \in Nat
       /\ Len(fwizard_init) > 0 /\ fwizard_init[1] = first
  BY <1>22 DEF Begins
<1>33. NoKey \in Keys
  <2>1. Tests(before) /\ Tests(test_utimens)
    BY <1>21, TestsFit, ZenonT(40) DEF Begins
  <2>a. fwizard_init = before \o test_utimens
    BY Zenon DEF fwizard_init
  <2>2. Len(test_utimens) = 3 /\ test_utimens[3].key = NoKey
    BY DEF test_utimens, Calls, GuardedBy
  <2> HIDE DEF before
  <2>3. /\ Len(before) + 3 \in 1..Len(fwizard_init)
        /\ fwizard_init[Len(before) + 3] = test_utimens[3]
    <3>1. /\ Len(before) \in Nat
          /\ Len(before \o test_utimens) = Len(before) + Len(test_utimens)
          /\ \A i \in 1..Len(test_utimens) :
               (before \o test_utimens)[Len(before) + i] = test_utimens[i]
      BY <2>1, TestsJoined
    <3>2. 3 \in 1..3
      OBVIOUS
    <3>3. /\ fwizard_init[Len(before) + 3] = test_utimens[3]
          /\ Len(fwizard_init) = Len(before) + 3
      BY <2>a, <2>2, <3>1, <3>2, ZenonT(40)
    <3> QED BY <3>1, <3>3
  <2> QED BY <2>2, <2>3, ZenonT(40) DEF Keys, N
<1> HIDE DEF first
<1> QED BY <1>30, <1>31, <1>32, <1>33, ZenonT(40) DEF N

\* What a check of the table is known to have.
LEMMA Checks ==
    ASSUME NEW i \in 1..N
    PROVE  /\ Fits(fwizard_init[i])
           /\ fwizard_init[i].key \in Keys /\ fwizard_init[i].skipAs \in Keys
<1>1. Fits(fwizard_init[i])
  BY Table, Zenon DEF N, Tests
<1> QED BY <1>1, Zenon DEF Keys

\* No test reports under the name of the end event.
LEMMA EndIsNoKey == End.key \notin Keys
<1>1. \A i \in 1..N : fwizard_init[i].key # End.key
                        /\ fwizard_init[i].skipAs # End.key
  BY Checks, Zenon DEF Fits
<1> QED BY <1>1, Zenon DEF Keys

-----------------------------------------------------------------------------
(* Minima and sequences.                                                   *)

\* A set of natural numbers has a least element.
LEMMA Least ==
  ASSUME NEW T \in SUBSET Nat, T # {}
  PROVE  \E x \in T : \A y \in T : x <= y
<1> DEFINE R == OpToRel(<, Nat)
<1>1. IsWellFoundedOn(R, Nat)
  BY NatLessThanWellFounded, Zenon
<1>2. \A x, y \in Nat : x < y => <<x, y>> \in R
  BY DEF OpToRel
<1> HIDE DEF R
<1>3. PICK x \in T : \A y \in T : ~(<<y, x>> \in R)
  BY <1>1, WFMin, Zenon
<1>4. ASSUME NEW y \in T PROVE x <= y
  <2>1. x \in Nat /\ y \in Nat
    OBVIOUS
  <2>2. ~(y < x)
    BY <1>2, <1>3, <2>1, ZenonT(40)
  <2> QED BY <2>1, <2>2
<1> QED BY <1>4

\* Min is in its set.
LEMMA MinIsIn ==
  ASSUME NEW T \in SUBSET Nat, T # {}
  PROVE  Min(T) \in T
BY Least, Zenon DEF Min

\* The elements of a sequence with one more.
LEMMA AppendElements ==
  ASSUME NEW S, NEW s \in Seq(S), NEW e \in S
  PROVE  ToSet(Append(s, e)) = ToSet(s) \cup {e}
<1>1. /\ DOMAIN s = 1..Len(s) /\ DOMAIN Append(s, e) = 1..(Len(s) + 1)
      /\ Append(s, e)[Len(s) + 1] = e
      /\ Len(s) + 1 \in 1..(Len(s) + 1)
      /\ \A i \in 1..Len(s) :
           i \in 1..(Len(s) + 1) /\ Append(s, e)[i] = s[i]
      /\ \A i \in 1..(Len(s) + 1) : i \in 1..Len(s) \/ i = Len(s) + 1
  OBVIOUS
<1>2. ToSet(Append(s, e)) \subseteq ToSet(s) \cup {e}
  BY <1>1, Zenon DEF ToSet
<1>3. ToSet(s) \subseteq ToSet(Append(s, e))
  BY <1>1, ZenonT(40) DEF ToSet
<1>4. e \in ToSet(Append(s, e))
  BY <1>1, Zenon DEF ToSet
<1> QED BY <1>2, <1>3, <1>4, ZenonT(40)

\* The elements of a sequence are its head and those of its tail.
LEMMA TailElements ==
  ASSUME NEW S, NEW s \in Seq(S), s # <<>>
  PROVE  ToSet(s) = {Head(s)} \cup ToSet(Tail(s))
<1>1. ASSUME NEW i \in DOMAIN s
      PROVE  s[i] = Head(s) \/ s[i] \in ToSet(Tail(s))
  <2>1. CASE i = 1
    BY <2>1
  <2>2. CASE i # 1
    <3>1. i - 1 \in DOMAIN Tail(s) /\ Tail(s)[i - 1] = s[i]
      BY <2>2
    <3> QED BY <3>1, Zenon DEF ToSet
  <2> QED BY <2>1, <2>2
<1>2. ASSUME NEW i \in DOMAIN Tail(s)
      PROVE  i + 1 \in DOMAIN s /\ Tail(s)[i] = s[i + 1]
  BY <1>2
<1>3. 1 \in DOMAIN s /\ Head(s) = s[1]
  OBVIOUS
<1>4. ToSet(s) \subseteq {Head(s)} \cup ToSet(Tail(s))
  BY <1>1, Zenon DEF ToSet
<1>5. ToSet(Tail(s)) \subseteq ToSet(s)
  BY <1>2, Zenon DEF ToSet
<1>6. Head(s) \in ToSet(s)
  BY <1>3, Zenon DEF ToSet
<1> QED BY <1>4, <1>5, <1>6, ZenonT(40)

-----------------------------------------------------------------------------
(* The inductive invariant.                                                *)

\* The results of tests, and the lists of them.
EventSet == [key : Keys \ {NoKey}, is : {"pass", "fail", "skip"}]
Types ==
    /\ TypeOK
    /\ fifo \in Seq(EventSet \cup {End})
    /\ wizard_events \in Seq(EventSet)

\* How far the process, the reader and the tests are.
Phases ==
    /\ fs = "opening" <=> reader = "opening"
    /\ fs = "testing" => reader \in {"reset", "reading"}
    /\ reader = "none" => fs = "none"
    /\ reader \in {"reset", "reading"} => fs \in {"testing", "ended", "crashed"}
    /\ reader = "done" => fs \in {"ended", "crashed"}
    /\ reader \in {"none", "opening", "done"} => fifo = <<>>
    /\ fs \in {"none", "opening"} => pc = 1
    /\ fs = "ended" => pc = N + 1
    /\ fs = "crashed" => pc > 1

\* The events of the current run.
Reported ==
    ToSet(fifo) \cup (IF ListIsCurrent THEN ToSet(wizard_events) ELSE {})

\* The process' view of the run and what it reported of it agree.
Reports ==
    /\ test_failed <=> \E e \in Reported : e.is = "fail"
    /\ fs = "ended" <=> (recv_end_event \/ End \in Reported)
    /\ pc > 1 => \E e \in Reported : e # End
    /\ ListIsCurrent => \/ notification_event = NoKey
                        \/ \E e \in ToSet(wizard_events) : e.is = "fail"

\* Only the six exceptions are reported as failures of a skipped test.
FailsRightly(e) ==
    e.is = "fail" /\ e.key \in skipped_tests => e.key \in CannotBeSkipped
Failures == \A e \in Reported : FailsRightly(e)

\* The next check is due: the one it needs came out right.  create:2 passes
\* only when open:1, which its guard asks about, is not skipped.
Due ==
    /\ pc <= N /\ ~fwizard_init[pc].entry =>
         /\ fwizard_init[pc].needs.of \in DOMAIN outcome
         /\ outcome[fwizard_init[pc].needs.of] \in fwizard_init[pc].needs.was
    /\ <<"create", 2>> \in DOMAIN outcome
         /\ outcome[<<"create", 2>>] = "pass" =>
           <<"open", 1>> \notin skipped_tests

IInv == Types /\ Phases /\ Reports /\ Failures /\ Due

-----------------------------------------------------------------------------
(* A check of the tests.                                                   *)

Results == {"pass", "fail", "skip"}

\* A check came out as `res` and was reported under `key`, if it has one.
CheckStep(key, res) ==
    /\ pc \in 1..N /\ fs = "testing"
    /\ GoOn(res)
    /\ \/ key = NoKey /\ fifo' = fifo
       \/ /\ key # NoKey /\ Len(fifo) < FifoSize
          /\ fifo' = Append(fifo, [key |-> key, is |-> res])
    /\ res = "fail" => /\ key # NoKey
                       /\ key \in skipped_tests => key \in CannotBeSkipped
    /\ pc = 1 => key # NoKey
    /\ fwizard_init[pc].key = <<"create", 2>> /\ res = "pass" =>
         <<"open", 1>> \notin skipped_tests
    /\ UNCHANGED <<faults, skipped_tests, fs>>

\* What the faults of a file system are about.
LEMMA FaultsFit ==
    ASSUME NEW i
    PROVE  /\ <<"wrong", i>> \in Faults =>
                i \in 1..N /\ fwizard_init[i].key # NoKey
           /\ <<"fatal", i>> \in Faults =>
                i \in 1..N /\ fwizard_init[i].calls # {}
<1>1. <<"wrong", i>> \in Faults => i \in Fallible
  BY DEF Faults
<1>2. <<"fatal", i>> \in Faults =>
        i \in {j \in 1..N : fwizard_init[j].calls # {}}
  BY DEF Faults
<1> QED BY <1>1, <1>2, ZenonT(40) DEF Fallible

\* Only checks with a key fail.
LEMMA FailuresAreReported ==
    ASSUME TypeOK, NEW i \in 1..N, Result(i) = "fail"
    PROVE  fwizard_init[i].key # NoKey
<1>1. CASE <<"wrong", i>> \in faults
  BY <1>1, FaultsFit, Zenon DEF TypeOK, TestTypeOK
<1>2. CASE fwizard_init[i].defines \cap missing # {}
  BY <1>2, Checks, Zenon DEF Fits
<1> QED BY <1>1, <1>2, Zenon DEF Result

\* Making a check and skipping it are both of this form.
LEMMA ChecksAreMade ==
    ASSUME IInv, SkipCheck \/ MakeCheck
    PROVE  \E key \in Keys, res \in Results : CheckStep(key, res)
<1> DEFINE c == fwizard_init[pc]
<1>1. fs = "testing" /\ pc \in 1..N
  <2>1. fs = "testing" /\ pc <= N /\ pc \in 1..(N + 1)
    BY Zenon DEF SkipCheck, MakeCheck, IInv, Types, TypeOK, TestTypeOK
  <2> QED BY <2>1, Table
<1>2. Fits(c) /\ c.key \in Keys /\ c.skipAs \in Keys
  BY <1>1, Checks
<1>3. pc = 1 => c.key # NoKey /\ c.skipAs # NoKey
  BY Table
<1>4. CASE SkipCheck
  <2>1. /\ c.skipAs = NoKey => fifo' = fifo
        /\ c.skipAs # NoKey =>
             /\ Len(fifo) < FifoSize
             /\ fifo' = Append(fifo, [key |-> c.skipAs, is |-> "skip"])
        /\ GoOn("skip") /\ UNCHANGED <<faults, skipped_tests, fs>>
    BY <1>4, Zenon DEF SkipCheck, report_wizard_event
  <2>2. "skip" # "fail" /\ "skip" # "pass"
    OBVIOUS
  <2>3. CheckStep(c.skipAs, "skip")
    BY <1>1, <1>3, <2>1, <2>2, ZenonT(40) DEF CheckStep
  <2> QED BY <1>2, <2>3, ZenonT(40) DEF Results
<1>5. CASE MakeCheck
  <2> DEFINE res == Result(pc)
  <2>1. /\ c.key = NoKey => fifo' = fifo
        /\ c.key # NoKey =>
             /\ Len(fifo) < FifoSize
             /\ fifo' = Append(fifo, [key |-> c.key, is |-> res])
        /\ GoOn(res) /\ UNCHANGED <<faults, skipped_tests, fs>>
        /\ c.guard # NoKey => c.guard \notin skipped_tests
    BY <1>5, Zenon DEF MakeCheck, report_wizard_event, is_skipped
  <2>2. res = "fail" => c.key # NoKey
    BY <1>1, FailuresAreReported DEF IInv, Types
  <2>3. res \in Results
    BY DEF Result, Results
  <2>4. c.key # NoKey /\ c.key \in skipped_tests => c.key \in CannotBeSkipped
    <3>1. CASE c.key = <<"open", 1>> /\ c.needs = Passed("create", 2)
                 /\ ~c.entry
      <4>1. /\ c.needs.of = <<"create", 2>> /\ c.needs.was = {"pass"}
        BY <3>1 DEF Passed
      <4>2. c.needs.of \in DOMAIN outcome
              /\ outcome[c.needs.of] \in c.needs.was
        BY <1>1, <3>1 DEF IInv, Due
      <4>3. <<"open", 1>> \notin skipped_tests
        BY <4>1, <4>2, ZenonT(40) DEF IInv, Due
      <4> QED BY <3>1, <4>3, ZenonT(40)
    <3>2. CASE c.guard = c.key \/ c.key \in CannotBeSkipped \/ c.key = NoKey
      BY <2>1, <3>2, ZenonT(40)
    <3> QED BY <1>2, <3>1, <3>2, ZenonT(40) DEF Fits
  <2>5. c.key = <<"create", 2>> => <<"open", 1>> \notin skipped_tests
    <3>1. <<"open", 1>> # NoKey
      BY DEF NoKey
    <3> QED BY <1>2, <2>1, <3>1, ZenonT(40) DEF Fits
  <2> HIDE DEF res
  <2>6. CheckStep(c.key, res)
    BY <1>1, <1>3, <2>1, <2>2, <2>4, <2>5, ZenonT(40) DEF CheckStep
  <2> QED BY <1>2, <2>3, <2>6, ZenonT(40)
<1> QED BY <1>4, <1>5

\* The next check comes later, and is due.
LEMMA NextIsDue ==
    ASSUME NEW i \in 1..N, NEW seen, NEW failed
    PROVE  LET next == Following(i, seen, failed)
           IN  /\ next \in (i + 1)..(N + 1)
               /\ next <= N /\ ~fwizard_init[next].entry =>
                    /\ fwizard_init[next].needs.of \in DOMAIN seen
                    /\ seen[fwizard_init[next].needs.of]
                         \in fwizard_init[next].needs.was
<1> DEFINE IsDue(j) == \/ fwizard_init[j].entry /\ ~failed
                       \/ /\ EntryOf[j] = EntryOf[i]
                          /\ fwizard_init[j].needs.of \in DOMAIN seen
                          /\ seen[fwizard_init[j].needs.of]
                               \in fwizard_init[j].needs.was
           S == {j \in (i + 1)..N : IsDue(j)} \cup {N + 1}
           next == Following(i, seen, failed)
<1>1. next = Min(S)
  BY Zenon DEF Following
<1>2. S \in SUBSET Nat /\ S # {}
  BY Table
<1>3. next \in S
  BY <1>1, <1>2, MinIsIn, ZenonT(40)
<1>4. N + 1 \in (i + 1)..(N + 1) /\ ~(N + 1 <= N)
      /\ \A j \in (i + 1)..N : j \in (i + 1)..(N + 1)
  BY Table
<1> HIDE DEF next
<1> QED BY <1>3, <1>4, ZenonT(40) DEF next

\* What a check does to the tests' own state.
LEMMA TestsGoOn ==
    ASSUME IInv, NEW key \in Keys, NEW res \in Results, CheckStep(key, res)
    PROVE  /\ pc' \in 1..(N + 1) /\ pc' > 1
           /\ test_failed' <=> test_failed \/ res = "fail"
           /\ test_failed' \in BOOLEAN
           /\ DOMAIN outcome' \subseteq Keys
           /\ \A k \in DOMAIN outcome' : outcome'[k] \in Results
           /\ Due'
<1> DEFINE check == fwizard_init[pc]
           before == IF check.entry THEN <<>> ELSE outcome
           seen == [k \in DOMAIN before \cup {check.key} |->
                      IF k = check.key THEN res ELSE before[k]]
           failed == test_failed \/ res = "fail"
           next == Following(pc, seen, failed)
<1>1. /\ test_failed' = failed /\ pc' = next
      /\ outcome' = IF next <= N /\ fwizard_init[next].entry
                    THEN <<>> ELSE seen
      /\ skipped_tests' = skipped_tests
  BY Zenon DEF CheckStep, GoOn
<1>2. DOMAIN <<>> = {}
  OBVIOUS
<1>3. pc \in 1..N /\ check.key \in Keys
  BY Checks DEF CheckStep
<1>4. DOMAIN before \subseteq Keys /\ \A k \in DOMAIN before :
        k \in DOMAIN outcome /\ before[k] = outcome[k] /\ before[k] \in Results
  BY <1>2, Zenon DEF IInv, Types, TypeOK, TestTypeOK, Results
<1>5. /\ DOMAIN seen = DOMAIN before \cup {check.key}
      /\ seen[check.key] = res
      /\ \A k \in DOMAIN before : k # check.key => seen[k] = before[k]
  BY Zenon
<1>6. <<"create", 2>> \in DOMAIN seen /\ seen[<<"create", 2>>] = "pass" =>
        <<"open", 1>> \notin skipped_tests
  <2> HIDE DEF before, seen
  <2>1. CASE check.key = <<"create", 2>>
    BY <1>5, <2>1, ZenonT(40) DEF CheckStep
  <2>2. CASE check.key # <<"create", 2>>
    BY <1>4, <1>5, <2>2, ZenonT(40) DEF IInv, Due
  <2> QED BY <2>1, <2>2, ZenonT(40)
<1> HIDE DEF before, seen, failed
<1>7. /\ next \in (pc + 1)..(N + 1)
      /\ next <= N /\ ~fwizard_init[next].entry =>
           /\ fwizard_init[next].needs.of \in DOMAIN seen
           /\ seen[fwizard_init[next].needs.of] \in fwizard_init[next].needs.was
  BY <1>3, NextIsDue, ZenonT(40)
<1>8. pc' \in 1..(N + 1) /\ pc' > 1
  <2> HIDE DEF next
  <2> QED BY <1>1, <1>3, <1>7, Table
<1>9. DOMAIN seen \subseteq Keys /\ \A k \in DOMAIN seen : seen[k] \in Results
  BY <1>3, <1>4, <1>5, ZenonT(40)
<1> HIDE DEF next
<1>10. /\ DOMAIN outcome' \subseteq Keys
       /\ \A k \in DOMAIN outcome' : outcome'[k] \in Results
  BY <1>1, <1>2, <1>9, ZenonT(40)
<1>11. Due'
  <2>1. CASE next <= N /\ fwizard_init[next].entry
    <3>1. outcome' = <<>>
      BY <1>1, <2>1, ZenonT(40)
    <3> QED BY <1>1, <1>2, <2>1, <3>1, ZenonT(40) DEF Due
  <2>2. CASE ~(next <= N /\ fwizard_init[next].entry)
    <3>1. outcome' = seen
      BY <1>1, <2>2, Zenon
    <3> QED BY <1>1, <1>6, <1>7, <2>2, <3>1, ZenonT(40) DEF Due
  <2> QED BY <2>1, <2>2, Zenon
<1>12. /\ test_failed' <=> test_failed \/ res = "fail"
       /\ test_failed' \in BOOLEAN
  BY <1>1, Zenon DEF failed
<1> QED BY <1>8, <1>10, <1>11, <1>12, ZenonT(40)

-----------------------------------------------------------------------------
(* The rows and the notification.                                          *)

\* The pass of the idle callback finds a failure exactly if one is listed.
LEMMA Noticed ==
    ASSUME Types
    PROVE  /\ (\E e \in ToSet(wizard_events) : e.is = "fail") =>
                Notified \in Keys \ {NoKey}
           /\ ~(\E e \in ToSet(wizard_events) : e.is = "fail") =>
                Notified = notification_event
<1> DEFINE failing == FunctionsWith({"fail"})
           Where(f, res) == {i \in 1..Len(wizard_events) :
                               /\ wizard_events[i].key[1] = f
                               /\ wizard_events[i].is \in res}
           all == {"pass", "fail", "skip"}
           Age(f) == FirstEvent(f, all)
           oldest == CHOOSE f \in failing : \A g \in failing : Age(f) <= Age(g)
<1>1. /\ failing = {} => Notified = notification_event
      /\ failing # {} =>
           Notified = wizard_events[FirstEvent(oldest, {"fail"})].key
  BY Zenon DEF Notified
<1>2. failing # {} <=> \E e \in ToSet(wizard_events) : e.is = "fail"
  BY Zenon DEF FunctionsWith
<1>3. /\ wizard_events \in Seq(EventSet) /\ Len(wizard_events) \in Nat
      /\ DOMAIN wizard_events = 1..Len(wizard_events)
  BY DEF Types
<1>4. ASSUME NEW f \in failing
      PROVE  Where(f, {"fail"}) # {} /\ Where(f, all) # {}
  <2>1. PICK e \in ToSet(wizard_events) : e.is = "fail" /\ e.key[1] = f
    BY Zenon DEF FunctionsWith
  <2>2. PICK i \in 1..Len(wizard_events) : wizard_events[i] = e
    BY <1>3, <2>1, Zenon DEF ToSet
  <2> QED BY <2>1, <2>2, Zenon
<1>5. ASSUME NEW f \in failing, NEW res \in {{"fail"}, all}
      PROVE  FirstEvent(f, res) \in 1..Len(wizard_events)
  <2>1. FirstEvent(f, res) = Min(Where(f, res))
    BY Zenon DEF FirstEvent
  <2>2. Where(f, res) # {}
    BY <1>4, <1>5, Zenon
  <2>3. Where(f, res) \in SUBSET Nat
    BY <1>3
  <2>4. Min(Where(f, res)) \in Where(f, res)
    BY <2>2, <2>3, MinIsIn, ZenonT(40)
  <2> QED BY <2>1, <2>4, Zenon
<1>6. ASSUME failing # {} PROVE oldest \in failing
  <2> DEFINE ages == {Age(f) : f \in failing}
  <2>1. \A f \in failing : Age(f) \in 1..Len(wizard_events)
    BY <1>5, Zenon
  <2> HIDE DEF failing, Age
  <2>2. ages \in SUBSET Nat /\ ages # {}
    BY <1>3, <1>6, <2>1
  <2>3. PICK a \in ages : \A b \in ages : a <= b
    BY <2>2, Least, ZenonT(40)
  <2>4. \E f \in failing : \A g \in failing : Age(f) <= Age(g)
    BY <2>3, Zenon
  <2> QED BY <2>4, Zenon
<1>7. ASSUME failing # {}
      PROVE  Notified \in Keys \ {NoKey}
  <2>1. FirstEvent(oldest, {"fail"}) \in 1..Len(wizard_events)
    BY <1>5, <1>6, <1>7, ZenonT(40)
  <2>2. \A i \in 1..Len(wizard_events) :
          wizard_events[i].key \in Keys \ {NoKey}
    BY Zenon DEF Types, TypeOK
  <2> QED BY <1>1, <1>7, <2>1, <2>2, ZenonT(40)
<1> QED BY <1>1, <1>2, <1>7, ZenonT(40)

\* The rows that are kept do not say "Done".
LEMMA RowsFit ==
    \A f \in DOMAIN UpdatedRows :
      UpdatedRows[f] \in {"Skipped", "Needs fixing", "Needs defining"}
<1> SUFFICES ASSUME NEW f \in FunctionsWith({"fail", "skip"})
             PROVE  getFunctionStatus(f)
                      \in {"Skipped", "Needs fixing", "Needs defining"}
  BY Zenon DEF UpdatedRows
<1>1. PICK e \in ToSet(wizard_events) :
        e.is \in {"fail", "skip"} /\ e.key[1] = f
  BY Zenon DEF FunctionsWith
<1> QED BY <1>1, Zenon DEF getFunctionStatus

\* The messages that there are.
LEMMA MessagesFit ==
    ASSUME NEW notified, NEW some \in BOOLEAN
    PROVE  MessageFor(notified, some)
             \in {"Wizard", "function", "Running tests", "Success",
                  "Filesystem crashed"}
BY DEF MessageFor

-----------------------------------------------------------------------------
(* Each action keeps the invariant.                                        *)

\* A listed result has a key.
LEMMA ListFits ==
    ASSUME NEW s \in Seq(EventSet)
    PROVE  \A i \in 1..Len(s) : s[i].key \in Keys \ {NoKey}
<1>1. \A i \in 1..Len(s) : s[i] \in EventSet
  OBVIOUS
<1> QED BY <1>1, Zenon DEF EventSet

\* A check.
LEMMA CheckKeeps ==
    ASSUME IInv, SkipCheck \/ MakeCheck, UNCHANGED viewVars
    PROVE  IInv'
<1>1. PICK key \in Keys, res \in Results : CheckStep(key, res)
  BY ChecksAreMade, Zenon
<1> DEFINE e == [key |-> key, is |-> res]
<1>2. /\ pc' \in 1..(N + 1) /\ pc' > 1
      /\ test_failed' <=> test_failed \/ res = "fail"
      /\ test_failed' \in BOOLEAN
      /\ DOMAIN outcome' \subseteq Keys
      /\ \A k \in DOMAIN outcome' : outcome'[k] \in Results
      /\ Due'
  BY <1>1, TestsGoOn
<1>3. /\ UNCHANGED <<faults, skipped_tests, fs>>
      /\ fs = "testing" /\ reader \in {"reset", "reading"}
      /\ UNCHANGED <<reader, recv_end_event, fs_mounted, wizard_events,
                     displayed, notification_event, rows, gui, message>>
  BY <1>1, Zenon DEF CheckStep, viewVars, IInv, Phases
<1>4. /\ e.key = key /\ e.is = res
      /\ key # NoKey => e \in EventSet /\ e # End
  <2>1. e.key = key /\ e.is = res
    OBVIOUS
  <2>2. key # NoKey => e \in EventSet
    BY DEF EventSet, Results
  <2>3. e # End
    BY <2>1, EndIsNoKey, ZenonT(40)
  <2> QED BY <2>1, <2>2, <2>3, ZenonT(40)
<1> HIDE DEF e
<1>5. fifo \in Seq(EventSet \cup {End}) /\ Len(fifo) <= FifoSize
      /\ FifoSize \in Nat
  BY WizardTestsAssumption, Zenon DEF IInv, Types, TypeOK, TestTypeOK
<1>6. /\ fifo' \in Seq(EventSet \cup {End}) /\ Len(fifo') <= FifoSize
      /\ Reported' = Reported \cup (IF key = NoKey THEN {} ELSE {e})
  <2>1. CASE key = NoKey
    <3>1. fifo' = fifo
      BY <1>1, <2>1, Zenon DEF CheckStep
    <3> QED BY <1>3, <1>5, <2>1, <3>1, ZenonT(40) DEF Reported, ListIsCurrent
  <2>2. CASE key # NoKey
    <3>1. fifo' = Append(fifo, e) /\ Len(fifo) < FifoSize
      BY <1>1, <2>2, Zenon DEF CheckStep, e
    <3>2. e \in EventSet \cup {End}
      BY <1>4, <2>2, ZenonT(40)
    <3>3. ToSet(fifo') = ToSet(fifo) \cup {e}
      BY <1>5, <3>1, <3>2, AppendElements
    <3>4. Append(fifo, e) \in Seq(EventSet \cup {End})
          /\ Len(Append(fifo, e)) = Len(fifo) + 1 /\ Len(fifo) \in Nat
      BY <1>5, <3>2
    <3>5. Len(fifo') <= FifoSize
      BY <1>5, <3>1, <3>4
    <3> QED BY <1>3, <2>2, <3>1, <3>3, <3>4, <3>5, ZenonT(40)
              DEF Reported, ListIsCurrent
  <2> QED BY <2>1, <2>2, ZenonT(40)
<1>7. Types'
  BY <1>2, <1>3, <1>6, ZenonT(40) DEF IInv, Types, TypeOK, TestTypeOK, Results
<1>8. Phases'
  BY <1>3, Zenon DEF IInv, Phases
<1>9. /\ res = "fail" => /\ key # NoKey
                         /\ key \in skipped_tests => key \in CannotBeSkipped
      /\ pc = 1 => key # NoKey
  BY <1>1, Zenon DEF CheckStep
<1>10. Failures'
  BY <1>3, <1>4, <1>6, <1>9, ZenonT(40) DEF IInv, Failures, FailsRightly
<1>11. Reports'
  <2>1. test_failed' <=> \E x \in Reported' : x.is = "fail"
    BY <1>2, <1>4, <1>6, <1>9, ZenonT(40) DEF IInv, Reports
  <2>2. fs' = "ended" <=> (recv_end_event' \/ End \in Reported')
    BY <1>3, <1>4, <1>6, ZenonT(40) DEF IInv, Reports
  <2>3. \E x \in Reported' : x # End
    <3>1. pc = 1 \/ pc > 1
      BY <1>1, Table DEF CheckStep
    <3> QED BY <1>4, <1>6, <1>9, <3>1, ZenonT(40) DEF IInv, Reports
  <2> QED BY <1>3, <2>1, <2>2, <2>3, ZenonT(40)
            DEF IInv, Reports, ListIsCurrent
<1> QED BY <1>2, <1>7, <1>8, <1>10, <1>11, ZenonT(40) DEF IInv

\* A crash: the check that crashes calls something, so it is not the first.
LEMMA CrashKeeps ==
    ASSUME IInv, CallUndefined \/ CrashInOperation, UNCHANGED viewVars
    PROVE  IInv'
<1>1. /\ fs = "testing" /\ fs' = "crashed" /\ pc <= N /\ pc \in 1..(N + 1)
      /\ UNCHANGED <<faults, skipped_tests, pc, outcome, test_failed, fifo>>
      /\ UNCHANGED <<reader, recv_end_event, fs_mounted, wizard_events,
                     displayed, notification_event, rows, gui, message>>
  BY Zenon DEF CallUndefined, CrashInOperation, viewVars, IInv, Types, TypeOK,
               TestTypeOK
<1>2. fwizard_init[pc].calls # {}
  <2>1. CASE CallUndefined
    BY <2>1, Zenon DEF CallUndefined
  <2>2. CASE CrashInOperation
    BY <2>2, FaultsFit, ZenonT(40)
       DEF CrashInOperation, IInv, Types, TypeOK, TestTypeOK
  <2> QED BY <2>1, <2>2, Zenon
<1>3. pc > 1
  <2>1. pc # 1
    BY <1>2, Table
  <2> QED BY <1>1, <2>1, Table
<1>4. Types'
  BY <1>1, ZenonT(40) DEF IInv, Types, TypeOK, TestTypeOK
<1>5. Phases'
  BY <1>1, <1>3, Zenon DEF IInv, Phases
<1>6. Reported' = Reported
  BY <1>1, Zenon DEF Reported, ListIsCurrent
<1>7. Reports' /\ Failures'
  BY <1>1, <1>6, Zenon
     DEF IInv, Reports, Failures, FailsRightly, ListIsCurrent
<1>8. Due'
  BY <1>1, Zenon DEF IInv, Due
<1> QED BY <1>4, <1>5, <1>7, <1>8, ZenonT(40) DEF IInv

\* The end of the tests.
LEMMA EndKeeps ==
    ASSUME IInv, tests_end, UNCHANGED viewVars
    PROVE  IInv'
<1>1. /\ fs = "testing" /\ fs' = "ended" /\ pc = N + 1
      /\ Len(fifo) < FifoSize /\ fifo' = Append(fifo, End)
      /\ UNCHANGED <<faults, skipped_tests, pc, outcome, test_failed>>
      /\ UNCHANGED <<reader, recv_end_event, fs_mounted, wizard_events,
                     displayed, notification_event, rows, gui, message>>
  BY Zenon DEF tests_end, viewVars
<1>2. fifo \in Seq(EventSet \cup {End}) /\ FifoSize \in Nat
      /\ End \in EventSet \cup {End}
  BY WizardTestsAssumption, Zenon DEF IInv, Types
<1>3. /\ Append(fifo, End) \in Seq(EventSet \cup {End})
      /\ Len(Append(fifo, End)) = Len(fifo) + 1 /\ Len(fifo) \in Nat
  BY <1>2
<1>4. Len(fifo') <= FifoSize
  BY <1>1, <1>2, <1>3
<1>5. Types'
  BY <1>1, <1>3, <1>4, ZenonT(40) DEF IInv, Types, TypeOK, TestTypeOK
<1>6. Phases'
  BY <1>1, ZenonT(40) DEF IInv, Phases
<1>7. ToSet(fifo') = ToSet(fifo) \cup {End}
  BY <1>1, <1>2, AppendElements
<1>8. Reported' = Reported \cup {End}
  BY <1>1, <1>7, Zenon DEF Reported, ListIsCurrent
<1>9. End.is = "pass" /\ "pass" # "fail"
  BY DEF End
<1>10. Failures'
  BY <1>1, <1>8, <1>9, Zenon DEF IInv, Failures, FailsRightly
<1>11. Reports'
  BY <1>1, <1>8, <1>9, Zenon DEF IInv, Reports, ListIsCurrent
<1>12. Due'
  BY <1>1, Zenon DEF IInv, Due
<1> QED BY <1>5, <1>6, <1>10, <1>11, <1>12, ZenonT(40) DEF IInv

\* The reader opens the FIFO, resets the lists, and comes to the end.
LEMMA ReaderKeeps ==
    ASSUME IInv, OpenFifo \/ doStartWizard \/ ReadEof
    PROVE  IInv'
<1>1. /\ UNCHANGED <<faults, skipped_tests, pc, outcome, test_failed, fifo,
                     recv_end_event, fs_mounted, gui, message>>
      /\ reader' \in {"none", "opening", "reset", "reading", "done"}
      /\ fs' \in {"none", "opening", "testing", "ended", "crashed"}
      /\ fs' = "ended" <=> fs = "ended"
  BY Zenon DEF OpenFifo, doStartWizard, ReadEof, testVars, IInv, Types,
               TypeOK, TestTypeOK
<1>2. Due'
  BY <1>1, Zenon DEF IInv, Due
<1>3. CASE OpenFifo \/ ReadEof
  <2>1. /\ UNCHANGED <<wizard_events, displayed, notification_event, rows>>
        /\ ListIsCurrent' <=> ListIsCurrent
    BY <1>3, Zenon DEF OpenFifo, ReadEof, ListIsCurrent
  <2>2. Types'
    BY <1>1, <2>1, ZenonT(40) DEF IInv, Types, TypeOK, TestTypeOK
  <2>3. Phases'
    BY <1>1, <1>3, ZenonT(40) DEF OpenFifo, ReadEof, testVars, IInv, Phases
  <2>4. Reported' = Reported
    BY <1>1, <2>1, Zenon DEF Reported
  <2>5. Reports' /\ Failures'
    BY <1>1, <2>1, <2>4, ZenonT(40) DEF IInv, Reports, Failures, FailsRightly
  <2> QED BY <1>2, <2>2, <2>3, <2>5, ZenonT(40) DEF IInv
<1>4. CASE doStartWizard
  <2>1. /\ reader = "reset" /\ reader' = "reading" /\ fs' = fs
        /\ wizard_events' = <<>> /\ displayed' = FALSE
        /\ rows' = <<>> /\ notification_event' = NoKey
        /\ ListIsCurrent' /\ ~ListIsCurrent
    BY <1>4, Zenon DEF doStartWizard, testVars, ListIsCurrent
  <2>2. /\ ToSet(<<>>) = {} /\ <<>> \in Seq(EventSet)
        /\ Len(<<>>) = 0 /\ 1..0 = {} /\ DOMAIN <<>> = {}
    BY DEF ToSet
  <2>3. Types'
    BY <1>1, <2>1, <2>2, Table, ZenonT(40) DEF IInv, Types, TypeOK, TestTypeOK
  <2>4. Phases'
    BY <1>1, <2>1, Zenon DEF IInv, Phases
  <2>5. Reported' = Reported
    BY <1>1, <2>1, <2>2, ZenonT(40) DEF Reported
  <2>6. Reports' /\ Failures'
    BY <1>1, <2>1, <2>5, ZenonT(40) DEF IInv, Reports, Failures, FailsRightly
  <2> QED BY <1>2, <2>3, <2>4, <2>6, Zenon DEF IInv
<1> QED BY <1>3, <1>4

\* The reader takes an event off the FIFO.
LEMMA ReadKeeps ==
    ASSUME IInv, handleWizardEvent
    PROVE  IInv'
<1> DEFINE e == Head(fifo)
<1>1. /\ reader = "reading" /\ fifo # <<>> /\ fifo' = Tail(fifo)
      /\ e = End => recv_end_event' = TRUE /\ wizard_events' = wizard_events
      /\ e # End => /\ recv_end_event' = recv_end_event
                    /\ wizard_events' = Append(wizard_events, e)
      /\ UNCHANGED <<faults, skipped_tests, fs, pc, outcome, test_failed,
                     reader, fs_mounted, displayed, rows,
                     notification_event, gui, message>>
      /\ ListIsCurrent /\ ListIsCurrent'
  BY Zenon DEF handleWizardEvent, ListIsCurrent
<1>2. /\ fifo \in Seq(EventSet \cup {End}) /\ FifoSize \in Nat
      /\ wizard_events \in Seq(EventSet) /\ Len(fifo) <= FifoSize
  BY WizardTestsAssumption, Zenon DEF IInv, Types, TypeOK, TestTypeOK
<1>3. /\ Tail(fifo) \in Seq(EventSet \cup {End}) /\ e \in EventSet \cup {End}
      /\ Len(Tail(fifo)) = Len(fifo) - 1 /\ Len(fifo) \in Nat
  BY <1>1, <1>2
<1>4. Len(fifo') <= FifoSize
  BY <1>1, <1>2, <1>3
<1>5. ToSet(fifo) = {e} \cup ToSet(fifo')
  BY <1>1, <1>2, TailElements, ZenonT(40)
<1> HIDE DEF e
<1>6. /\ wizard_events' \in Seq(EventSet)
      /\ e = End => ToSet(wizard_events') = ToSet(wizard_events)
      /\ e # End => ToSet(wizard_events') = ToSet(wizard_events) \cup {e}
  <2>1. CASE e = End
    BY <1>1, <1>2, <2>1, ZenonT(40)
  <2>2. CASE e # End
    <3>1. e \in EventSet
      BY <1>3, <2>2
    <3>2. Append(wizard_events, e) \in Seq(EventSet)
      BY <1>2, <3>1
    <3>3. ToSet(Append(wizard_events, e)) = ToSet(wizard_events) \cup {e}
      BY <1>2, <3>1, AppendElements
    <3> QED BY <1>1, <2>2, <3>2, <3>3, ZenonT(40)
  <2> QED BY <2>1, <2>2, ZenonT(40)
<1>7. Types'
  <2>1. \A i \in 1..Len(wizard_events') :
          wizard_events'[i].key \in Keys \ {NoKey}
    BY <1>6, ListFits
  <2>2. recv_end_event' \in BOOLEAN
    BY <1>1, Zenon DEF IInv, Types, TypeOK
  <2> QED BY <1>1, <1>3, <1>4, <1>6, <2>1, <2>2, ZenonT(40)
            DEF IInv, Types, TypeOK, TestTypeOK
<1>8. Phases'
  <2>1. reader' \notin {"none", "opening", "done"}
    BY <1>1
  <2> QED BY <1>1, <2>1, ZenonT(40) DEF IInv, Phases
<1>9. End.is = "pass" /\ "pass" # "fail"
  BY DEF End
<1>10. /\ Reported = {e} \cup ToSet(fifo') \cup ToSet(wizard_events)
       /\ Reported' = ToSet(fifo') \cup ToSet(wizard_events')
  BY <1>1, <1>5, Zenon DEF Reported
<1>11. /\ Reported' \subseteq Reported
       /\ \A x \in Reported : x # End => x \in Reported'
       /\ e # End => (End \in Reported' <=> End \in Reported)
       /\ e = End => End \in Reported
  BY <1>6, <1>10, ZenonT(40)
<1>12. Failures'
  BY <1>1, <1>11, ZenonT(40) DEF IInv, Failures, FailsRightly
<1>13. Reports'
  <2>1. test_failed' <=> \E x \in Reported' : x.is = "fail"
    BY <1>1, <1>9, <1>11, ZenonT(40) DEF IInv, Reports
  <2>2. fs' = "ended" <=> (recv_end_event' \/ End \in Reported')
    <3>1. fs = "ended" <=> (recv_end_event \/ End \in Reported)
      BY Zenon DEF IInv, Reports
    <3>2. CASE e = End
      BY <1>1, <1>11, <3>1, <3>2, ZenonT(40)
    <3>3. CASE e # End
      <4>1. recv_end_event' = recv_end_event /\ fs' = fs
        BY <1>1, <3>3, ZenonT(40)
      <4>2. End \in Reported' <=> End \in Reported
        BY <1>11, <3>3, ZenonT(40)
      <4> QED BY <3>1, <4>1, <4>2, ZenonT(40)
    <3> QED BY <3>2, <3>3, ZenonT(40)
  <2>3. pc' > 1 => \E x \in Reported' : x # End
    BY <1>1, <1>11, ZenonT(40) DEF IInv, Reports
  <2>4. \/ notification_event' = NoKey
        \/ \E x \in ToSet(wizard_events') : x.is = "fail"
    BY <1>1, <1>6, ZenonT(40) DEF IInv, Reports
  <2> QED BY <2>1, <2>2, <2>3, <2>4, ZenonT(40) DEF Reports
<1>14. Due'
  BY <1>1, Zenon DEF IInv, Due
<1> QED BY <1>7, <1>8, <1>12, <1>13, <1>14, ZenonT(40) DEF IInv

\* The window, and the end of the process.
LEMMA WindowKeeps ==
    ASSUME IInv, childKilled \/ UpdateRows \/ UpdateMessage
    PROVE  IInv'
<1>1. /\ UNCHANGED <<faults, skipped_tests, fs, pc, outcome, test_failed, fifo,
                     reader, recv_end_event, wizard_events>>
      /\ ListIsCurrent' <=> ListIsCurrent
  BY Zenon DEF childKilled, UpdateRows, UpdateMessage, testVars, ListIsCurrent
<1>2. /\ notification_event' \in Keys
      /\ notification_event' = notification_event
           \/ \E e \in ToSet(wizard_events) : e.is = "fail"
  <2>1. CASE UpdateRows
    BY <2>1, Noticed, ZenonT(40) DEF UpdateRows, IInv, Types, TypeOK
  <2>2. CASE childKilled \/ UpdateMessage
    BY <2>2, Zenon DEF childKilled, UpdateMessage, IInv, Types, TypeOK
  <2> QED BY <2>1, <2>2
<1>3. Types'
  <2>1. /\ fs_mounted' \in BOOLEAN /\ displayed' \in BOOLEAN
        /\ gui' \in {"idle", "rows"}
    BY Zenon DEF childKilled, UpdateRows, UpdateMessage, IInv, Types, TypeOK
  <2>2. \A f \in DOMAIN rows' :
          rows'[f] \in {"Skipped", "Needs fixing", "Needs defining"}
    BY RowsFit, Zenon
       DEF childKilled, UpdateRows, UpdateMessage, IInv, Types, TypeOK
  <2>3. message' \in {"Wizard", "function", "Running tests", "Success",
                      "Filesystem crashed"}
    BY MessagesFit, Zenon
       DEF childKilled, UpdateRows, UpdateMessage, IInv, Types, TypeOK
  <2> QED BY <1>1, <1>2, <2>1, <2>2, <2>3, ZenonT(40)
            DEF IInv, Types, TypeOK, TestTypeOK
<1>4. Phases'
  BY <1>1, Zenon DEF IInv, Phases
<1>5. Reported' = Reported
  BY <1>1, Zenon DEF Reported
<1>6. Reports' /\ Failures'
  BY <1>1, <1>2, <1>5, ZenonT(40) DEF IInv, Reports, Failures, FailsRightly
<1>7. Due'
  BY <1>1, Zenon DEF IInv, Due
<1> QED BY <1>3, <1>4, <1>6, <1>7, ZenonT(40) DEF IInv

\* The user starts the wizard again, with or without another skipped test.
LEMMA StartKeeps ==
    ASSUME IInv, start_btn_handler \/ skip_btn_handler
    PROVE  IInv'
<1>1. /\ reader \in {"none", "done"}
      /\ fs' = "opening" /\ fs_mounted' = TRUE
      /\ recv_end_event' = FALSE /\ reader' = "opening"
      /\ pc' = 1 /\ outcome' = <<>> /\ test_failed' = FALSE
      /\ UNCHANGED <<fifo, wizard_events, displayed, rows,
                     notification_event, gui, message>>
  BY Zenon DEF start_btn_handler, skip_btn_handler, StartWizard
<1>2. faults' \subseteq Faults /\ skipped_tests' \subseteq Keys
  BY Zenon DEF start_btn_handler, skip_btn_handler, IInv, Types, TypeOK,
               TestTypeOK
<1>3. ToSet(<<>>) = {} /\ DOMAIN <<>> = {}
  BY DEF ToSet
<1>4. 1 \in 1..(N + 1) /\ ~(1 > 1)
  BY Table
<1>5. fifo' = <<>> /\ ~ListIsCurrent'
  <2>1. fifo = <<>>
    BY <1>1, Zenon DEF IInv, Phases
  <2>2. "opening" \notin {"reading", "done"}
    OBVIOUS
  <2> QED BY <1>1, <2>1, <2>2, ZenonT(40) DEF ListIsCurrent
<1>6. Reported' = {}
  BY <1>3, <1>5, ZenonT(40) DEF Reported
<1>7. Types'
  BY <1>1, <1>2, <1>3, <1>4, ZenonT(40) DEF IInv, Types, TypeOK, TestTypeOK
<1>8. Phases'
  <2>1. /\ "opening" # "testing" /\ "opening" # "none" /\ "opening" # "ended"
        /\ "opening" # "crashed"
    OBVIOUS
  <2> QED BY <1>1, <1>5, <2>1, ZenonT(40) DEF Phases
<1>9. Reports' /\ Failures'
  <2>1. "opening" # "ended"
    OBVIOUS
  <2> QED BY <1>1, <1>4, <1>5, <1>6, <2>1, ZenonT(40) DEF Reports, Failures
<1>10. Due'
  BY <1>1, <1>3, Table, ZenonT(40) DEF Due
<1> QED BY <1>7, <1>8, <1>9, <1>10, ZenonT(40) DEF IInv

\* The invariant holds when the window is opened.
LEMMA InvAtStart == Init => IInv
<1> SUFFICES ASSUME Init PROVE IInv
  OBVIOUS
<1>1. /\ skipped_tests = {} /\ fs = "none" /\ pc = 1 /\ outcome = <<>>
      /\ test_failed = FALSE /\ fifo = <<>> /\ reader = "none"
      /\ recv_end_event = FALSE /\ fs_mounted = FALSE
      /\ wizard_events = <<>> /\ displayed = FALSE
      /\ notification_event = NoKey /\ rows = <<>>
      /\ gui = "idle" /\ message = "Wizard"
  BY Zenon DEF Init, TestInit
<1>2. faults \subseteq Faults
  <2>1. PICK f \in [1..MaxFaults -> Faults \cup {<<>>}] :
          faults = {f[k] : k \in 1..MaxFaults} \ {<<>>}
    BY Zenon DEF Init, TestInit
  <2>2. \A k \in 1..MaxFaults : f[k] \in Faults \cup {<<>>}
    BY <2>1, Zenon
  <2> QED BY <2>1, <2>2, ZenonT(40)
<1>3. /\ ToSet(<<>>) = {} /\ DOMAIN <<>> = {} /\ Len(<<>>) = 0 /\ 1..0 = {}
      /\ <<>> \in Seq(EventSet) /\ <<>> \in Seq(EventSet \cup {End})
  BY DEF ToSet
<1>4. 1 \in 1..(N + 1) /\ ~(1 > 1) /\ 0 <= FifoSize
  BY Table, WizardTestsAssumption
<1>5. Reported = {} /\ ~ListIsCurrent
  BY <1>1, <1>3 DEF Reported, ListIsCurrent
<1>6. Types
  BY <1>1, <1>2, <1>3, <1>4, Table, ZenonT(40) DEF Types, TypeOK, TestTypeOK
<1>7. Phases
  BY <1>1, Zenon DEF Phases
<1>8. Reports /\ Failures
  BY <1>1, <1>4, <1>5, ZenonT(40) DEF Reports, Failures
<1>9. Due
  BY <1>1, <1>3, Table, ZenonT(40) DEF Due
<1> QED BY <1>6, <1>7, <1>8, <1>9, ZenonT(40) DEF IInv

\* No step breaks the invariant.
LEMMA InvIsKept == IInv /\ [Next]_vars => IInv'
<1> SUFFICES ASSUME IInv, [Next]_vars PROVE IInv'
  OBVIOUS
<1>1. CASE UNCHANGED vars
  <2>1. UNCHANGED <<faults, skipped_tests, fs, pc, outcome, test_failed, fifo,
                    reader, recv_end_event, fs_mounted, wizard_events,
                    displayed, notification_event, rows, gui, message>>
    BY <1>1, Zenon DEF vars, testVars, viewVars
  <2>2. ListIsCurrent' <=> ListIsCurrent
    BY <2>1, Zenon DEF ListIsCurrent
  <2>3. Reported' = Reported
    BY <2>1, <2>2, Zenon DEF Reported
  <2>4. Types' /\ Phases' /\ Due'
    <3>1. TestTypeOK'
      BY <2>1, Zenon DEF IInv, Types, TypeOK, TestTypeOK
    <3>a. Types'
      BY <2>1, <3>1, ZenonT(40) DEF IInv, Types, TypeOK
    <3>2. Phases'
      BY <2>1, Zenon DEF IInv, Phases
    <3>3. Due'
      BY <2>1, Zenon DEF IInv, Due
    <3> QED BY <3>a, <3>2, <3>3, ZenonT(40)
  <2>5. Reports' /\ Failures'
    BY <2>1, <2>2, <2>3, ZenonT(40) DEF IInv, Reports, Failures, FailsRightly
  <2> QED BY <2>4, <2>5, ZenonT(40) DEF IInv
<1>2. CASE TestStep /\ UNCHANGED viewVars
  BY <1>2, CheckKeeps, CrashKeeps, EndKeeps, ZenonT(40) DEF TestStep
<1>3. CASE Next /\ ~(TestStep /\ UNCHANGED viewVars)
  BY <1>3, ReaderKeeps, ReadKeeps, WindowKeeps, StartKeeps, ZenonT(40) DEF Next
<1> QED BY <1>1, <1>2, <1>3, ZenonT(40)

-----------------------------------------------------------------------------
(* The theorems.                                                           *)

\* The process, the reader, the lists and the window agree on the current run
\* in every reachable state.
THEOREM WizardInvariant == Spec => []IInv
BY InvAtStart, InvIsKept, PTL DEF Spec

\* Type correctness: the process reports only keys of its table, the list
\* never holds the end event, and the FIFO is never overfull.
THEOREM WizardTypes == Spec => []TypeOK
<1>1. IInv => TypeOK
  BY ZenonT(40) DEF IInv, Types
<1> QED BY <1>1, WizardInvariant, PTL

\* Skip makes progress: a test that the user skipped is not reported as failed
\* by a later run, with six exceptions.
THEOREM SkipMakesProgress == Spec => []SkippedTestsDoNotFail
<1>1. IInv => SkippedTestsDoNotFail
  BY ZenonT(40) DEF IInv, Failures, FailsRightly, Reported, SkippedTestsDoNotFail
<1> QED BY <1>1, WizardInvariant, PTL

\* After a run the next pass of the idle callback shows how it went.
THEOREM RunsAreJudged == Spec => []VerdictIsShown
<1>1. IInv => VerdictIsShown
  <2> SUFFICES ASSUME IInv, RunIsOver
               PROVE  MessageFor(Notified, wizard_events # <<>>) = Verdict
    BY DEF VerdictIsShown
  <2> DEFINE some == wizard_events # <<>>
  <2>1. /\ reader = "done" /\ ~fs_mounted /\ ListIsCurrent /\ fifo = <<>>
        /\ fs \in {"ended", "crashed"}
    BY Zenon DEF RunIsOver, ListIsCurrent, IInv, Phases
  <2>2. ToSet(<<>>) = {}
    BY DEF ToSet
  <2>3. Reported = ToSet(wizard_events)
    BY <2>1, <2>2, ZenonT(40) DEF Reported
  <2>4. pc > 1
    BY <2>1, Table DEF IInv, Phases
  <2>5. some = TRUE
    BY <2>2, <2>3, <2>4, ZenonT(40) DEF IInv, Reports
  <2>6. fs = "ended" <=> recv_end_event
    <3>1. ToSet(wizard_events) \subseteq EventSet
      BY DEF IInv, Types, ToSet
    <3>2. End \notin EventSet
      BY EndIsNoKey, Zenon DEF EventSet
    <3> QED BY <2>3, <3>1, <3>2, ZenonT(40) DEF IInv, Reports
  <2>7. CASE test_failed
    <3>1. Notified # NoKey
      BY <2>3, <2>7, Noticed, ZenonT(40) DEF IInv, Reports
    <3>2. MessageFor(Notified, some) = "function"
      BY <3>1 DEF MessageFor
    <3> QED BY <2>7, <3>2, Zenon DEF Verdict
  <2>8. CASE ~test_failed
    <3>1. Notified = NoKey
      BY <2>1, <2>3, <2>8, Noticed, ZenonT(40) DEF IInv, Reports
    <3>2. MessageFor(NoKey, TRUE) =
            IF recv_end_event THEN "Success" ELSE "Filesystem crashed"
      BY <2>1 DEF MessageFor
    <3>3. MessageFor(Notified, some) =
            IF recv_end_event THEN "Success" ELSE "Filesystem crashed"
      BY <2>5, <3>1, <3>2, ZenonT(40)
    <3> QED BY <2>6, <2>8, <3>3, ZenonT(40) DEF Verdict
  <2> QED BY <2>7, <2>8
<1> QED BY <1>1, WizardInvariant, PTL
=============================================================================
