---------------------------- MODULE OverlayProofs -----------------------------
(***************************************************************************)
(* What the user sets on the pages of the overlay is what the sysmodule    *)
(* keeps: for any settings, pages, clocks, applications and number of      *)
(* changes, and any call failing.                                          *)
(***************************************************************************)
EXTENDS Overlay, SequenceTheorems, TLAPS

-------------------------------------------------------------------------------
(* The pages, by their kinds.                                              *)

MainSet     == [kind : {"Main"}, app : Apps]
FatalSet    == [kind : {"Fatal"}]
ChoiceSet   == [kind : {"Choice"}, item : Keys \cup Clocks]
SettingsSet == [kind : SettingsPages, list : ConfigList, save : BOOLEAN,
                fresh : BOOLEAN, items : BOOLEAN]
ProfileSet  == [kind : {"Profile"}, app : Titles, list : ProfileList, items : BOOLEAN]
OverrideSet == [kind : {"Override"}, list : ProfileList, fresh : BOOLEAN, items : BOOLEAN]
GovernorProfileSet  == [kind : {"GovernorProfile"}, items : BOOLEAN]
GovernorOverrideSet == [kind : {"GovernorOverride"}, items : BOOLEAN, packed : Packed]

Page == MainSet \cup FatalSet \cup ChoiceSet \cup SettingsSet \cup ProfileSet
          \cup OverrideSet \cup GovernorProfileSet \cup GovernorOverrideSet

OtherKinds == {"Main", "Fatal", "Choice", "Profile", "Override", "GovernorProfile",
               "GovernorOverride"}

LEMMA KindsApart == OtherKinds \cap SettingsPages = {}
BY DEF OtherKinds, SettingsPages, Submenus

LEMMA SubmenusArePages == \A kind : Submenus(kind) \subseteq SettingsPages
BY DEF SettingsPages, Submenus

LEMMA PageOf ==
    ASSUME NEW p \in Page
    PROVE  /\ p.kind \in OtherKinds \cup SettingsPages
           /\ p.kind = "Main" => p \in MainSet
           /\ p.kind = "Fatal" => p \in FatalSet
           /\ p.kind = "Choice" => p \in ChoiceSet
           /\ p.kind \in SettingsPages => p \in SettingsSet
           /\ p.kind = "Profile" => p \in ProfileSet
           /\ p.kind = "Override" => p \in OverrideSet
           /\ p.kind = "GovernorProfile" => p \in GovernorProfileSet
           /\ p.kind = "GovernorOverride" => p \in GovernorOverrideSet
<1>1. p \in SettingsSet => p.kind \in SettingsPages
  BY DEF SettingsSet
<1>2. p \in SettingsSet \/ p.kind \in OtherKinds
  BY DEF Page, MainSet, FatalSet, ChoiceSet, ProfileSet, OverrideSet,
         GovernorProfileSet, GovernorOverrideSet, OtherKinds
<1>3. CASE p \in SettingsSet
  BY <1>1, <1>3, KindsApart DEF OtherKinds
<1>4. CASE p.kind \in OtherKinds
  <2>1. p.kind \notin SettingsPages
    BY <1>4, KindsApart
  <2>2. p \notin SettingsSet
    BY <1>1, <2>1
  <2>3. QED
    BY <1>4, <2>1, <2>2 DEF Page, MainSet, FatalSet, ChoiceSet, ProfileSet, OverrideSet,
         GovernorProfileSet, GovernorOverrideSet
<1>5. QED
  BY <1>2, <1>3, <1>4

-------------------------------------------------------------------------------
(* The stack.                                                              *)

\* What page p can lie directly on q: nothing but an error is opened over a
\* choice or a submenu of governors, nothing else than these over a profile.
MayLieOn(p, q) ==
    /\ q.kind \in {"Choice", "GovernorProfile", "GovernorOverride"} => p.kind = "Fatal"
    /\ q.kind = "Profile" => p.kind \in {"Choice", "GovernorProfile", "Fatal"}
    /\ p.kind = "Choice" => q.kind \in SettingsPages \cup {"Profile", "Override"}
    /\ p.kind = "GovernorProfile" /\ p.items => q.kind = "Profile"

StackRight(s) ==
    /\ s \in Seq(Page)
    /\ s # <<>> => s[1].kind \in {"Main", "Fatal"}
    /\ \A j \in 2..Len(s) : MayLieOn(s[j], s[j - 1])

LEMMA StackFacts ==
    ASSUME NEW s, StackRight(s)
    PROVE  /\ Len(s) \in Nat /\ DOMAIN s = 1..Len(s)
           /\ \A i \in 1..Len(s) : s[i] \in Page
           /\ s # <<>> => Len(s) \in 1..Len(s)
BY LenProperties, ElementOfSeq, EmptySeq DEF StackRight

LEMMA FatalIsPage == Fatal \in Page /\ \A q : MayLieOn(Fatal, q)
BY DEF Fatal, Page, FatalSet, MayLieOn

LEMMA PushRight ==
    ASSUME NEW s, StackRight(s), s # <<>>, NEW p \in Page, MayLieOn(p, s[Len(s)])
    PROVE  /\ StackRight(Append(s, p)) /\ Append(s, p) # <<>>
           /\ Len(Append(s, p)) = Len(s) + 1
           /\ \A j \in 1..Len(s) : Append(s, p)[j] = s[j]
           /\ Append(s, p)[Len(s) + 1] = p
<1> DEFINE t == Append(s, p)
<1>1. /\ t \in Seq(Page) /\ t # <<>> /\ Len(t) = Len(s) + 1
      /\ \A j \in 1..Len(s) : t[j] = s[j]
      /\ t[Len(s) + 1] = p
  BY AppendProperties DEF StackRight
<1>2. Len(s) \in Nat /\ 1 \in 1..Len(s)
  BY StackFacts
<1> HIDE DEF t
<1>3. t[1].kind \in {"Main", "Fatal"}
  BY <1>1, <1>2 DEF StackRight
<1>4. ASSUME NEW j \in 2..Len(t)  PROVE MayLieOn(t[j], t[j - 1])
  <2>1. CASE j <= Len(s)
    <3>1. t[j] = s[j] /\ t[j - 1] = s[j - 1]
      BY <1>1, <1>2, <2>1
    <3>2. QED
      BY <3>1, <2>1, <1>2 DEF StackRight
  <2>2. CASE j > Len(s)
    <3>1. t[j] = p /\ t[j - 1] = s[Len(s)]
      BY <1>1, <1>2, <2>2
    <3>2. QED
      BY <3>1
  <2>3. QED
    BY <2>1, <2>2, <1>1, <1>2
<1>5. StackRight(t)
  BY <1>1, <1>3, <1>4 DEF StackRight
<1>6. QED
  BY <1>1, <1>5 DEF t

\* A page built after a read that failed lies over the error.
LEMMA CoverRight ==
    ASSUME NEW s, StackRight(s), s # <<>>, NEW p \in Page, MayLieOn(p, Fatal)
    PROVE  LET t == Append(s, Fatal) \o <<p>>
           IN  /\ StackRight(t) /\ t # <<>> /\ Len(t) = Len(s) + 2
               /\ \A j \in 1..Len(s) : t[j] = s[j]
               /\ t[Len(s) + 1] = Fatal /\ t[Len(s) + 2] = p
<1> DEFINE f == Append(s, Fatal)
<1>1. /\ StackRight(f) /\ f # <<>> /\ Len(f) = Len(s) + 1
      /\ \A j \in 1..Len(s) : f[j] = s[j]
      /\ f[Len(s) + 1] = Fatal
  BY PushRight, FatalIsPage
<1> HIDE DEF f
<1>2. f \o <<p>> = Append(f, p)
  BY <1>1, AppendIsConcat DEF StackRight
<1>3. /\ StackRight(Append(f, p)) /\ Append(f, p) # <<>> /\ Len(Append(f, p)) = Len(f) + 1
      /\ \A j \in 1..Len(f) : Append(f, p)[j] = f[j]
      /\ Append(f, p)[Len(f) + 1] = p
  BY <1>1, PushRight
<1>4. Len(s) \in Nat
  BY StackFacts
<1> DEFINE t == Append(f, p)
<1>5. t = Append(f, p)
  OBVIOUS
<1> HIDE DEF t
<1>6. Len(t) = Len(s) + 2 /\ \A j \in 1..Len(s) : t[j] = s[j]
  BY <1>1, <1>3, <1>4, <1>5
<1>7. t[Len(s) + 1] = Fatal /\ t[Len(s) + 2] = p
  BY <1>1, <1>3, <1>4, <1>5
<1>8. QED
  BY <1>2, <1>3, <1>5, <1>6, <1>7 DEF f

\* Pages may go from the end, and be replaced by others of their kind.
LEMMA SameKindsRight ==
    ASSUME NEW s, StackRight(s), NEW t \in Seq(Page), Len(t) \in 1..Len(s),
           \A j \in 1..Len(t) : t[j].kind = s[j].kind
                               /\ (t[j].kind = "GovernorProfile" => t[j] = s[j])
    PROVE  StackRight(t) /\ t # <<>>
<1>1. Len(s) \in Nat /\ s # <<>> /\ 1 \in 1..Len(t)
  BY StackFacts, EmptySeq
<1>2. t # <<>>
  BY <1>1, EmptySeq
<1>3. t[1].kind \in {"Main", "Fatal"}
  BY <1>1 DEF StackRight
<1>4. ASSUME NEW j \in 2..Len(t)  PROVE MayLieOn(t[j], t[j - 1])
  <2>1. j \in 1..Len(t) /\ j - 1 \in 1..Len(t) /\ j \in 2..Len(s)
    BY <1>1
  <2>2. MayLieOn(s[j], s[j - 1])
    BY <2>1 DEF StackRight
  <2>3. QED
    BY <2>1, <2>2 DEF MayLieOn
<1>5. QED
  BY <1>2, <1>3, <1>4 DEF StackRight

LEMMA ReplaceRight ==
    ASSUME NEW s, StackRight(s), NEW i \in 1..Len(s), NEW p \in Page,
           p.kind = s[i].kind, p.kind # "GovernorProfile"
    PROVE  /\ StackRight([s EXCEPT ![i] = p]) /\ [s EXCEPT ![i] = p] # <<>>
           /\ Len([s EXCEPT ![i] = p]) = Len(s)
           /\ \A j \in 1..Len(s) : [s EXCEPT ![i] = p][j] = IF j = i THEN p ELSE s[j]
<1> DEFINE t == [s EXCEPT ![i] = p]
<1>1. /\ t \in Seq(Page) /\ Len(t) = Len(s)
      /\ \A j \in 1..Len(s) : t[j] = IF j = i THEN p ELSE s[j]
  BY ExceptSeq DEF StackRight
<1>2. Len(s) \in Nat /\ s # <<>> /\ Len(s) \in 1..Len(s)
  BY StackFacts, EmptySeq
<1> HIDE DEF t
<1>3. StackRight(t) /\ t # <<>>
  BY <1>1, <1>2, SameKindsRight
<1>4. QED
  BY <1>1, <1>3 DEF t

\* What is left when the pages after the i-th go.
LEMMA CutRight ==
    ASSUME NEW s, StackRight(s), NEW i \in 1..Len(s)
    PROVE  /\ StackRight(SubSeq(s, 1, i)) /\ SubSeq(s, 1, i) # <<>> /\ Len(SubSeq(s, 1, i)) = i
           /\ \A j \in 1..i : SubSeq(s, 1, i)[j] = s[j]
<1> DEFINE t == SubSeq(s, 1, i)
<1>1. Len(s) \in Nat /\ (\A j \in 1..i : s[j] \in Page) /\ i \in Nat
  BY StackFacts
<1>2. t \in Seq(Page) /\ Len(t) = i /\ \A j \in 1..i : t[j] = s[j]
  BY <1>1, SubSeqProperties
<1> HIDE DEF t
<1>3. StackRight(t) /\ t # <<>>
  BY <1>1, <1>2, SameKindsRight
<1>4. QED
  BY <1>2, <1>3 DEF t

LEMMA CutReplaceRight ==
    ASSUME NEW s, StackRight(s), NEW i \in 1..Len(s), NEW p \in Page,
           p.kind = s[i].kind, p.kind # "GovernorProfile"
    PROVE  LET t == Append(SubSeq(s, 1, i - 1), p)
           IN  /\ StackRight(t) /\ t # <<>> /\ Len(t) = i
               /\ \A j \in 1..i : t[j] = IF j = i THEN p ELSE s[j]
<1> DEFINE b == SubSeq(s, 1, i - 1)
           t == Append(b, p)
<1>1. Len(s) \in Nat /\ i \in Nat /\ i - 1 \in Int /\ \A j \in 1..(i - 1) : s[j] \in Page
  BY StackFacts
<1>2. b \in Seq(Page) /\ Len(b) = i - 1 /\ \A j \in 1..(i - 1) : b[j] = s[j]
  <2>1. /\ b \in Seq(Page) /\ Len(b) = IF 1 <= i - 1 THEN (i - 1) - 1 + 1 ELSE 0
        /\ \A j \in 1..((i - 1) - 1 + 1) : b[j] = s[1 + j - 1]
    BY <1>1, SubSeqProperties
  <2> HIDE DEF b
  <2>2. \A j \in 1..(i - 1) : b[j] = s[j]
    BY <2>1, <1>1
  <2>3. QED
    BY <2>1, <2>2, <1>1
<1> HIDE DEF b
<1>3. /\ t \in Seq(Page) /\ Len(t) = Len(b) + 1
      /\ \A j \in 1..Len(b) : t[j] = b[j]
      /\ t[Len(b) + 1] = p
  BY <1>2, AppendProperties
<1> HIDE DEF t
<1>4. Len(t) = i /\ \A j \in 1..i : t[j] = IF j = i THEN p ELSE s[j]
  BY <1>1, <1>2, <1>3
<1>5. StackRight(t) /\ t # <<>>
  BY <1>1, <1>3, <1>4, SameKindsRight
<1>6. QED
  BY <1>4, <1>5 DEF t, b

-------------------------------------------------------------------------------
(* The inductive invariant.                                                *)

ServerRight ==
    /\ config \in ConfigList /\ profiles \in [Titles -> ProfileList]
    /\ kip \in [KipKeys -> Values] /\ overrides \in ProfileList /\ app \in Apps
    /\ wanted \in [config : ConfigList, profiles : [Titles -> ProfileList],
                   overrides : ProfileList]
    /\ hasty \in BOOLEAN /\ unsaved \in BOOLEAN /\ edits \in 0..MaxEdits

\* The pages whose list a control can change now.
Usable(s, i) ==
    \/ i = Len(s)
    \/ i = Len(s) - 1 /\ s[Len(s)].kind \in {"Choice", "GovernorProfile"}

\* What a page in use holds is what the sysmodule has; of settings and
\* overrides, once it has been read again.
CopyRight(p) ==
    /\ p.kind = "Profile" => p.list = profiles[p.app]
    /\ ~hasty =>
        /\ p.kind \in SettingsPages /\ p.items /\ p.fresh => p.list = config
        /\ p.kind = "Override" /\ p.fresh => p.list = overrides
        /\ p.kind = "GovernorOverride" /\ p.items =>
              \A b \in GovBytes : p.packed[b] = overrides[b]

CopiesRight == \A i \in 1..Len(stack) : Usable(stack, i) => CopyRight(stack[i])

OverlayIInv ==
    /\ ServerRight /\ StackRight(stack) /\ CopiesRight
    /\ ProfilesKept /\ ConfigKept /\ OverridesKept /\ KipSaved

Pending(s) == \E i \in 1..Len(s) : s[i].kind \in SettingsPages /\ s[i].save

LEMMA PendingKept ==
    ASSUME NEW s, NEW t, Len(s) \in Nat, Len(t) \in Nat, Len(s) <= Len(t),
           \A j \in 1..Len(s) : s[j].kind \in SettingsPages /\ s[j].save =>
               t[j].kind \in SettingsPages /\ t[j].save
    PROVE  Pending(s) => Pending(t)
BY DEF Pending

LEMMA KipSavedIs ==
    ASSUME StackRight(stack)
    PROVE  KipSaved <=> hasty \/ unsaved \/ Pending(stack) \/ kip = [k \in KipKeys |-> config[k]]
<1>1. DOMAIN stack = 1..Len(stack)
  BY StackFacts
<1>2. QED
  BY <1>1 DEF KipSaved, Pending

\* What a step that changes only the stack has to show.
LEMMA StackStep ==
    ASSUME OverlayIInv, StackRight(stack'),
           UNCHANGED <<config, profiles, kip, overrides, wanted, unsaved>>,
           edits' \in 0..MaxEdits, app' \in Apps, hasty' \in BOOLEAN, hasty => hasty',
           Pending(stack) => Pending(stack'), CopiesRight'
    PROVE  OverlayIInv'
<1>1. ServerRight'
  BY DEF OverlayIInv, ServerRight
<1>2. ProfilesKept' /\ ConfigKept' /\ OverridesKept'
  BY DEF OverlayIInv, ProfilesKept, ConfigKept, OverridesKept
<1>3. hasty \/ unsaved \/ Pending(stack) \/ kip = [k \in KipKeys |-> config[k]]
  BY KipSavedIs DEF OverlayIInv
<1>4. hasty' \/ unsaved' \/ Pending(stack') \/ kip' = [k \in KipKeys |-> config'[k]]
  BY <1>3
<1>5. KipSaved'
  <2>1. DOMAIN stack' = 1..Len(stack')
    BY StackFacts
  <2>2. QED
    BY <1>4, <2>1 DEF KipSaved, Pending
<1>6. QED
  BY <1>1, <1>2, <1>5 DEF OverlayIInv

\* The page in use when the last one is no choice and no submenu of governors,
\* and the two when it is.
LEMMA CopiesOfTop ==
    ASSUME Len(stack') \in Nat, CopyRight(stack[Len(stack)])',
           stack'[Len(stack')].kind \in {"Choice", "GovernorProfile"} =>
               CopyRight(stack[Len(stack) - 1])'
    PROVE  CopiesRight'
BY DEF CopiesRight, Usable

LEMMA PushStep ==
    ASSUME OverlayIInv, stack # <<>>, NEW p \in Page, MayLieOn(p, Top),
           stack' = Append(stack, p), CopyRight(p)',
           UNCHANGED <<config, profiles, kip, overrides, wanted, unsaved>>,
           edits' \in 0..MaxEdits, app' \in Apps, hasty' \in BOOLEAN, hasty => hasty'
    PROVE  OverlayIInv'
<1>1. /\ StackRight(stack) /\ Len(stack) \in Nat /\ Len(stack) \in 1..Len(stack)
  BY StackFacts DEF OverlayIInv
<1>2. /\ StackRight(stack') /\ Len(stack') = Len(stack) + 1
      /\ \A j \in 1..Len(stack) : stack'[j] = stack[j]
      /\ stack'[Len(stack) + 1] = p
  BY <1>1, PushRight DEF Top
<1>3. CopyRight(Top)
  BY <1>1 DEF OverlayIInv, CopiesRight, Usable, Top
<1>4. stack'[Len(stack')] = p /\ stack'[Len(stack') - 1] = Top /\ Len(stack') \in Nat
  BY <1>1, <1>2 DEF Top
<1>5. CopyRight(stack[Len(stack)])'
  BY <1>4 DEF CopyRight
<1>6. CopyRight(stack[Len(stack) - 1])'
  BY <1>3, <1>4 DEF CopyRight
<1>7. CopiesRight'
  BY <1>4, <1>5, <1>6, CopiesOfTop
<1>8. Pending(stack) => Pending(stack')
  <2>1. /\ Len(stack) <= Len(stack')
        /\ \A j \in 1..Len(stack) : stack[j].kind \in SettingsPages /\ stack[j].save =>
               stack'[j].kind \in SettingsPages /\ stack'[j].save
    BY <1>1, <1>2
  <2>2. QED
    BY <1>1, <1>4, <2>1, PendingKept
<1>9. QED
  BY <1>2, <1>7, <1>8, StackStep

LEMMA CoverStep ==
    ASSUME OverlayIInv, stack # <<>>, NEW p \in Page, MayLieOn(p, Fatal),
           stack' = Append(stack, Fatal) \o <<p>>, CopyRight(p)',
           UNCHANGED <<config, profiles, kip, overrides, wanted, unsaved>>,
           edits' \in 0..MaxEdits, app' \in Apps, hasty' \in BOOLEAN, hasty => hasty'
    PROVE  OverlayIInv'
<1>1. /\ StackRight(stack) /\ Len(stack) \in Nat
  BY StackFacts DEF OverlayIInv
<1>2. /\ StackRight(stack') /\ Len(stack') = Len(stack) + 2
      /\ \A j \in 1..Len(stack) : stack'[j] = stack[j]
      /\ stack'[Len(stack) + 1] = Fatal /\ stack'[Len(stack) + 2] = p
  BY <1>1, CoverRight
<1>3. stack'[Len(stack')] = p /\ stack'[Len(stack') - 1] = Fatal /\ Len(stack') \in Nat
  BY <1>1, <1>2
<1>4. CopyRight(stack[Len(stack)])'
  BY <1>3 DEF CopyRight
<1>5. CopyRight(stack[Len(stack) - 1])'
  BY <1>3, KindsApart DEF CopyRight, Fatal, OtherKinds
<1>6. CopiesRight'
  BY <1>3, <1>4, <1>5, CopiesOfTop
<1>7. Pending(stack) => Pending(stack')
  <2>1. /\ Len(stack) <= Len(stack')
        /\ \A j \in 1..Len(stack) : stack[j].kind \in SettingsPages /\ stack[j].save =>
               stack'[j].kind \in SettingsPages /\ stack'[j].save
    BY <1>1, <1>2
  <2>2. QED
    BY <1>1, <1>3, <2>1, PendingKept
<1>8. QED
  BY <1>2, <1>6, <1>7, StackStep

LEMMA FatalStep ==
    ASSUME OverlayIInv, stack # <<>>, stack' = Append(stack, Fatal),
           UNCHANGED <<config, profiles, kip, overrides, wanted, unsaved>>,
           edits' \in 0..MaxEdits, app' \in Apps, hasty' \in BOOLEAN, hasty => hasty'
    PROVE  OverlayIInv'
<1>1. CopyRight(Fatal)'
  BY KindsApart DEF CopyRight, Fatal, OtherKinds
<1>2. QED
  BY <1>1, FatalIsPage, PushStep

\* The error a call that fails opens over the page whose copy it changed.
LEMMA FailStep ==
    ASSUME OverlayIInv, NEW i \in 1..Len(stack), NEW p \in Page,
           p.kind = stack[i].kind, p.kind # "GovernorProfile",
           p.kind \in SettingsPages /\ stack[i].save => p.save,
           stack' = Append([stack EXCEPT ![i] = p], Fatal),
           UNCHANGED <<config, profiles, kip, overrides, wanted, unsaved>>,
           edits' \in 0..MaxEdits, app' \in Apps, hasty' \in BOOLEAN, hasty => hasty'
    PROVE  OverlayIInv'
<1> DEFINE t == [stack EXCEPT ![i] = p]
<1>1. StackRight(stack) /\ Len(stack) \in Nat
  BY StackFacts DEF OverlayIInv
<1>2. /\ StackRight(t) /\ t # <<>> /\ Len(t) = Len(stack)
      /\ \A j \in 1..Len(stack) : t[j] = IF j = i THEN p ELSE stack[j]
  BY <1>1, ReplaceRight
<1>3. stack' = Append(t, Fatal)
  OBVIOUS
<1> HIDE DEF t
<1>4. /\ StackRight(stack') /\ Len(stack') = Len(t) + 1
      /\ \A j \in 1..Len(t) : stack'[j] = t[j]
      /\ stack'[Len(t) + 1] = Fatal
  <2>1. Fatal \in Page /\ MayLieOn(Fatal, t[Len(t)])
    BY FatalIsPage
  <2>2. /\ StackRight(Append(t, Fatal)) /\ Len(Append(t, Fatal)) = Len(t) + 1
        /\ \A j \in 1..Len(t) : Append(t, Fatal)[j] = t[j]
        /\ Append(t, Fatal)[Len(t) + 1] = Fatal
    BY <1>2, <2>1, PushRight
  <2>3. QED
    BY <1>3, <2>2
<1>5. stack'[Len(stack')] = Fatal /\ Len(stack') \in Nat
  BY <1>1, <1>2, <1>4
<1>6. CopiesRight'
  <2>1. CopyRight(stack[Len(stack)])'
    BY <1>5, KindsApart DEF CopyRight, Fatal, OtherKinds
  <2>2. QED
    BY <1>5, <2>1, CopiesOfTop DEF Fatal
<1>7. Pending(stack) => Pending(stack')
  <2>1. /\ Len(stack) <= Len(stack')
        /\ \A j \in 1..Len(stack) : stack[j].kind \in SettingsPages /\ stack[j].save =>
               stack'[j].kind \in SettingsPages /\ stack'[j].save
    BY <1>1, <1>2, <1>4
  <2>2. QED
    BY <1>1, <1>5, <2>1, PendingKept
<1>8. QED
  BY <1>4, <1>6, <1>7, StackStep

-------------------------------------------------------------------------------
(* Opening pages.                                                          *)

LEMMA TopIsPage ==
    ASSUME OverlayIInv, stack # <<>>
    PROVE  /\ Top \in Page /\ CopyRight(Top) /\ Len(stack) \in 1..Len(stack)
           /\ edits \in 0..MaxEdits /\ app \in Apps /\ hasty \in BOOLEAN
<1>1. Len(stack) \in Nat /\ Len(stack) \in 1..Len(stack) /\ stack[Len(stack)] \in Page
  BY StackFacts DEF OverlayIInv
<1>2. QED
  BY <1>1 DEF OverlayIInv, ServerRight, CopiesRight, Usable, Top

\* A settings page lies on the main page, on another or on an error.
LEMMA SettingsMayLie ==
    ASSUME NEW p, p.kind \in SettingsPages, NEW q, q.kind \in {"Main", "Fatal"} \cup SettingsPages
    PROVE  MayLieOn(p, q)
BY KindsApart DEF MayLieOn, OtherKinds

LEMMA StartRight ==
    ASSUME OverlayIInv, Start PROVE OverlayIInv'
<1>1. PICK p \in Page : stack' = <<p>> /\ p.kind \in {"Main", "Fatal"}
  BY FatalIsPage DEF Start, Main, Fatal, Page, MainSet, OverlayIInv, ServerRight
<1>2. stack = <<>> /\ Len(stack') = 1 /\ stack'[1] = p
  BY <1>1 DEF Start
<1>3. StackRight(stack')
  BY <1>1, <1>2 DEF StackRight
<1>4. CopiesRight'
  <2>1. CopyRight(stack[Len(stack)])'
    BY <1>1, <1>2, KindsApart DEF CopyRight, OtherKinds
  <2>2. QED
    BY <1>1, <1>2, <2>1, CopiesOfTop
<1>5. ~Pending(stack)
  BY <1>2 DEF Pending
<1>6. UNCHANGED <<config, profiles, kip, overrides, wanted, unsaved, edits, app, hasty>>
  BY DEF Start, server, history
<1>7. QED
  BY <1>3, <1>4, <1>5, <1>6, StackStep DEF OverlayIInv, ServerRight

LEMMA OpenSettingsRight ==
    ASSUME OverlayIInv, OpenSettings PROVE OverlayIInv'
<1> DEFINE Right(kind) == SettingsPage(kind, config, TRUE)
           Empty(kind) == SettingsPage(kind, [k \in Keys |-> 0], FALSE)
<1>1. PICK kind \in (IF Shows({"Main"}) THEN {"Misc"}
                 ELSE IF Shows(SettingsPages) /\ Top.items THEN Submenus(Top.kind) ELSE {}) :
         stack' = Append(stack, Right(kind)) \/ stack' = Append(stack, Fatal) \o <<Empty(kind)>>
  BY DEF OpenSettings, Push, OpenFatal
<1>2. /\ stack # <<>> /\ Top.kind \in {"Main"} \cup SettingsPages /\ kind \in SettingsPages
  BY <1>1, SubmenusArePages DEF Shows, SettingsPages
<1>3. UNCHANGED <<config, profiles, kip, overrides, wanted, unsaved, edits, app, hasty>>
  BY DEF OpenSettings, server, history
<1>4. /\ Right(kind) \in Page /\ Right(kind).kind = kind
      /\ Empty(kind) \in Page /\ Empty(kind).kind = kind
  <2>1. Right(kind) \in SettingsSet /\ Empty(kind) \in SettingsSet
    BY <1>2 DEF SettingsPage, SettingsSet, OverlayIInv, ServerRight, ConfigList, Values
  <2>2. QED
    BY <2>1 DEF Page, SettingsPage
<1>5. MayLieOn(Right(kind), Top) /\ MayLieOn(Empty(kind), Fatal)
  <2> HIDE DEF Right, Empty
  <2>1. Fatal.kind \in {"Main", "Fatal"} \cup SettingsPages
    BY DEF Fatal
  <2>2. Right(kind).kind \in SettingsPages /\ Empty(kind).kind \in SettingsPages
    BY <1>2, <1>4
  <2>3. Top.kind \in {"Main", "Fatal"} \cup SettingsPages
    BY <1>2
  <2>4. QED
    BY <2>1, <2>2, <2>3, SettingsMayLie, Zenon
<1>6. CASE stack' = Append(stack, Right(kind))
  <2>1. PICK r : r = Right(kind)
    OBVIOUS
  <2>2. r.list = config' /\ r.kind \in SettingsPages
    BY <1>2, <1>3, <2>1 DEF SettingsPage
  <2>3. CopyRight(r)'
    BY <2>2, KindsApart DEF CopyRight, OtherKinds
  <2> HIDE DEF Right
  <2>4. QED
    BY <1>2, <1>3, <1>4, <1>5, <1>6, <2>1, <2>3, TopIsPage, PushStep
<1>7. CASE stack' = Append(stack, Fatal) \o <<Empty(kind)>>
  <2>1. PICK r : r = Empty(kind)
    OBVIOUS
  <2>2. ~r.items /\ r.kind \in SettingsPages
    BY <1>2, <2>1 DEF SettingsPage
  <2>3. CopyRight(r)'
    BY <2>2, KindsApart DEF CopyRight, OtherKinds
  <2> HIDE DEF Empty
  <2>4. QED
    BY <1>2, <1>3, <1>4, <1>5, <1>7, <2>1, <2>3, TopIsPage, CoverStep
<1>8. QED
  BY <1>1, <1>6, <1>7

LEMMA OpenProfileRight ==
    ASSUME OverlayIInv, OpenProfile PROVE OverlayIInv'
<1>1. PICK a \in {Top.app, GLOBAL_PROFILE_TID}, items \in BOOLEAN :
         LET page == [kind |-> "Profile", app |-> a, list |-> profiles[a], items |-> items]
         IN  \/ stack' = Append(stack, page)
             \/ stack' = Append(stack, Fatal) \o <<page>>
             \/ stack' = Append(stack, Fatal)
  BY DEF OpenProfile, Push, OpenFatal
<1>2. PICK r : r = [kind |-> "Profile", app |-> a, list |-> profiles[a], items |-> items]
  OBVIOUS
<1>3. stack # <<>> /\ Top.kind = "Main"
  BY DEF OpenProfile, Shows
<1>4. UNCHANGED <<config, profiles, kip, overrides, wanted, unsaved, edits, app, hasty>>
  BY DEF OpenProfile, server, history
<1>5. r \in Page /\ r.kind = "Profile" /\ r.list = profiles'[r.app]
  <2>1. Top \in MainSet
    BY <1>3, TopIsPage, PageOf
  <2>2. a \in Titles
    BY <2>1 DEF MainSet, Titles
  <2>3. r \in ProfileSet
    BY <1>2, <2>2 DEF ProfileSet, OverlayIInv, ServerRight
  <2>4. QED
    BY <1>2, <1>4, <2>3 DEF Page
<1>6. CopyRight(r)'
  BY <1>5, KindsApart DEF CopyRight, OtherKinds
<1>7. MayLieOn(r, Top) /\ MayLieOn(r, Fatal)
  BY <1>3, <1>5 DEF MayLieOn, Fatal
<1>8. CASE stack' = Append(stack, r)
  BY <1>3, <1>4, <1>5, <1>6, <1>7, <1>8, TopIsPage, PushStep
<1>9. CASE stack' = Append(stack, Fatal) \o <<r>>
  BY <1>3, <1>4, <1>5, <1>6, <1>7, <1>9, TopIsPage, CoverStep
<1>10. CASE stack' = Append(stack, Fatal)
  BY <1>3, <1>4, <1>10, TopIsPage, FatalStep
<1>11. QED
  BY <1>1, <1>2, <1>8, <1>9, <1>10

LEMMA OpenOverrideRight ==
    ASSUME OverlayIInv, OpenOverride PROVE OverlayIInv'
<1>1. stack # <<>> /\ Top.kind = "Main"
  BY DEF OpenOverride, Shows
<1>2. UNCHANGED <<config, profiles, kip, overrides, wanted, unsaved, edits, app, hasty>>
  BY DEF OpenOverride, server, history
<1>3. CASE stack' = Append(stack, [kind |-> "Override", list |-> overrides, fresh |-> TRUE,
                                   items |-> TRUE])
  <2>1. PICK r : r = [kind |-> "Override", list |-> overrides, fresh |-> TRUE, items |-> TRUE]
    OBVIOUS
  <2>2. r \in Page /\ r.kind = "Override" /\ r.list = overrides'
    BY <1>2, <2>1 DEF Page, OverrideSet, OverlayIInv, ServerRight
  <2>3. CopyRight(r)'
    BY <2>2, KindsApart DEF CopyRight, OtherKinds
  <2>4. MayLieOn(r, Top)
    BY <1>1, <2>2 DEF MayLieOn
  <2>5. QED
    BY <1>1, <1>2, <1>3, <2>1, <2>2, <2>3, <2>4, TopIsPage, PushStep
<1>4. ASSUME NEW garbage \in Values, NEW items \in BOOLEAN,
             stack' = Append(stack, Fatal) \o
                        <<[kind |-> "Override", list |-> [e \in Entries |-> garbage],
                           fresh |-> FALSE, items |-> items]>>
      PROVE  OverlayIInv'
  <2>1. PICK r : r = [kind |-> "Override", list |-> [e \in Entries |-> garbage],
                      fresh |-> FALSE, items |-> items]
    OBVIOUS
  <2>2. r \in Page /\ r.kind = "Override" /\ ~r.fresh
    BY <2>1 DEF Page, OverrideSet, ProfileList
  <2>3. CopyRight(r)'
    BY <2>2, KindsApart DEF CopyRight, OtherKinds
  <2>4. MayLieOn(r, Fatal)
    BY <2>2 DEF MayLieOn, Fatal
  <2>5. QED
    BY <1>1, <1>2, <1>4, <2>1, <2>2, <2>3, <2>4, TopIsPage, CoverStep
<1>5. QED
  BY <1>3, <1>4 DEF OpenOverride, Push, OpenFatal

LEMMA OpenGovernorProfileRight ==
    ASSUME OverlayIInv, OpenGovernorProfile PROVE OverlayIInv'
<1>1. stack # <<>> /\ Top.kind = "Profile"
  BY DEF OpenGovernorProfile, Shows
<1>2. UNCHANGED <<config, profiles, kip, overrides, wanted, unsaved, edits, app, hasty>>
  BY DEF OpenGovernorProfile, server, history
<1>3. ASSUME NEW items \in BOOLEAN, NEW r, r = [kind |-> "GovernorProfile", items |-> items]
      PROVE  r \in Page /\ CopyRight(r)' /\ MayLieOn(r, Top) /\ (~items => MayLieOn(r, Fatal))
  <2>1. r \in Page /\ r.kind = "GovernorProfile" /\ r.items = items
    BY <1>3 DEF Page, GovernorProfileSet
  <2>2. QED
    BY <1>1, <2>1, KindsApart DEF CopyRight, MayLieOn, OtherKinds, Fatal
<1>4. CASE stack' = Append(stack, [kind |-> "GovernorProfile", items |-> TRUE])
  <2>1. PICK r : r = [kind |-> "GovernorProfile", items |-> TRUE]
    OBVIOUS
  <2>2. QED
    BY <1>1, <1>2, <1>3, <1>4, <2>1, TopIsPage, PushStep
<1>5. CASE stack' = Append(stack, Fatal) \o <<[kind |-> "GovernorProfile", items |-> FALSE]>>
  <2>1. PICK r : r = [kind |-> "GovernorProfile", items |-> FALSE]
    OBVIOUS
  <2>2. QED
    BY <1>1, <1>2, <1>3, <1>5, <2>1, TopIsPage, CoverStep
<1>6. QED
  BY <1>4, <1>5 DEF OpenGovernorProfile, Push, OpenFatal

LEMMA OpenGovernorOverrideRight ==
    ASSUME OverlayIInv, OpenGovernorOverride PROVE OverlayIInv'
<1> DEFINE page(items) == [kind |-> "GovernorOverride", items |-> items,
                           packed |-> [b \in GovBytes |-> Top.list[b]]]
<1>1. /\ stack # <<>> /\ Top.kind = "Override"
      /\ hasty' = (hasty \/ ~Top.fresh)
  BY DEF OpenGovernorOverride, Shows
<1>2. /\ UNCHANGED <<config, profiles, kip, overrides, wanted, unsaved, edits, app>>
      /\ hasty' \in BOOLEAN /\ (hasty => hasty')
  BY <1>1 DEF OpenGovernorOverride, server
<1>3. Top \in OverrideSet
  BY <1>1, TopIsPage, PageOf
<1>4. ASSUME NEW items \in BOOLEAN, NEW r, r = page(items)
      PROVE  r \in Page /\ CopyRight(r)' /\ MayLieOn(r, Top) /\ MayLieOn(r, Fatal)
  <2>1. r \in Page /\ r.kind = "GovernorOverride" /\ \A b \in GovBytes : r.packed[b] = Top.list[b]
    BY <1>3, <1>4 DEF Page, GovernorOverrideSet, OverrideSet, Packed, ProfileList, Entries
  <2>2. ~hasty' => Top.list = overrides
    BY <1>1, TopIsPage DEF CopyRight
  <2>3. CopyRight(r)'
    BY <1>2, <2>1, <2>2, KindsApart DEF CopyRight, OtherKinds
  <2>4. QED
    BY <1>1, <2>1, <2>3 DEF MayLieOn, Fatal
<1>5. CASE stack' = Append(stack, page(TRUE))
  <2>1. PICK r : r = page(TRUE)
    OBVIOUS
  <2>2. r \in Page /\ CopyRight(r)' /\ MayLieOn(r, Top)
    BY <1>4, <2>1
  <2> HIDE DEF page
  <2>3. QED
    BY <1>1, <1>2, <1>5, <2>1, <2>2, TopIsPage, PushStep
<1>6. CASE stack' = Append(stack, Fatal) \o <<page(FALSE)>>
  <2>1. PICK r : r = page(FALSE)
    OBVIOUS
  <2>2. r \in Page /\ CopyRight(r)' /\ MayLieOn(r, Fatal)
    BY <1>4, <2>1
  <2> HIDE DEF page
  <2>3. QED
    BY <1>1, <1>2, <1>6, <2>1, <2>2, TopIsPage, CoverStep
<1>7. QED
  BY <1>5, <1>6 DEF OpenGovernorOverride, Push, OpenFatal

LEMMA OpenChoiceRight ==
    ASSUME OverlayIInv, OpenChoice PROVE OverlayIInv'
<1>1. PICK item \in (IF Shows({"Profile", "Override"}) THEN Clocks
                    ELSE IF Shows(SettingsPages)
                         THEN {k \in Keys : Home[k] = Top.kind /\ Control[k] = "button"}
                    ELSE {}) :
         \/ stack' = Append(stack, [kind |-> "Choice", item |-> item])
         \/ stack' = Append(stack, Fatal)
  BY DEF OpenChoice, Push, OpenFatal
<1>2. /\ stack # <<>> /\ Top.kind \in SettingsPages \cup {"Profile", "Override"}
      /\ item \in Keys \cup Clocks
  BY <1>1 DEF Shows
<1>3. UNCHANGED <<config, profiles, kip, overrides, wanted, unsaved, edits, app, hasty>>
  BY DEF OpenChoice, server, history
<1>4. PICK r : r = [kind |-> "Choice", item |-> item]
  OBVIOUS
<1>5. r \in Page /\ r.kind = "Choice"
  BY <1>2, <1>4 DEF Page, ChoiceSet
<1>6. CopyRight(r)' /\ MayLieOn(r, Top)
  BY <1>2, <1>5, KindsApart DEF CopyRight, MayLieOn, OtherKinds
<1>7. CASE stack' = Append(stack, r)
  BY <1>2, <1>3, <1>5, <1>6, <1>7, TopIsPage, PushStep
<1>8. CASE stack' = Append(stack, Fatal)
  BY <1>2, <1>3, <1>8, TopIsPage, FatalStep
<1>9. QED
  BY <1>1, <1>4, <1>7, <1>8

-------------------------------------------------------------------------------
(* Editing.                                                                *)

\* The pages of a control that works on page i: i is in use, and what is over it
\* is a choice, a submenu of governors, or nothing.
LEMMA InUse ==
    ASSUME OverlayIInv, NEW i \in DOMAIN stack, Usable(stack, i)
    PROVE  /\ i \in 1..Len(stack) /\ stack[i] \in Page /\ CopyRight(stack[i]) /\ stack # <<>>
           /\ i = Len(stack) \/ i = Len(stack) - 1
           /\ i # Len(stack) => Top.kind \in {"Choice", "GovernorProfile"}
           /\ Top.kind \notin SettingsPages \/ i = Len(stack)
<1>1. i \in 1..Len(stack) /\ Len(stack) \in Nat /\ stack[i] \in Page
  BY StackFacts DEF OverlayIInv
<1>2. stack # <<>>
  BY <1>1, EmptySeq
<1>3. CopyRight(stack[i])
  BY <1>1 DEF OverlayIInv, CopiesRight
<1>4. QED
  BY <1>1, <1>2, <1>3, KindsApart DEF Usable, Top, OtherKinds

\* What remains of the pages once page i, in use, has become p and what is over
\* it is gone.
LEMMA CutStep ==
    ASSUME OverlayIInv, NEW i \in DOMAIN stack, Usable(stack, i), NEW p \in Page,
           p.kind = stack[i].kind, p.kind \notin {"Choice", "GovernorProfile"},
           stack' = Append(SubSeq(stack, 1, i - 1), p), CopyRight(p)'
    PROVE  /\ StackRight(stack') /\ CopiesRight' /\ Len(stack') = i /\ stack'[i] = p
           /\ (p.kind \in SettingsPages /\ stack[i].save => p.save) /\ Pending(stack)
                 => Pending(stack')
<1>1. /\ i \in 1..Len(stack) /\ StackRight(stack) /\ Len(stack) \in Nat
      /\ i = Len(stack) \/ i = Len(stack) - 1
      /\ i # Len(stack) => stack[Len(stack)].kind \notin SettingsPages
  BY InUse, StackFacts, KindsApart DEF OverlayIInv, Top, OtherKinds
<1>2. /\ StackRight(stack') /\ Len(stack') = i
      /\ \A j \in 1..i : stack'[j] = IF j = i THEN p ELSE stack[j]
  BY <1>1, CutReplaceRight
<1>3. stack'[Len(stack')] = p /\ Len(stack') \in Nat /\ stack'[i] = p
  BY <1>1, <1>2
<1>4. CopiesRight'
  <2>1. CopyRight(stack[Len(stack)])'
    BY <1>3 DEF CopyRight
  <2>2. QED
    BY <1>3, <2>1, CopiesOfTop
<1>5. ASSUME p.kind \in SettingsPages /\ stack[i].save => p.save, Pending(stack)
      PROVE  Pending(stack')
  <2>1. PICK j \in 1..Len(stack) : stack[j].kind \in SettingsPages /\ stack[j].save
    BY <1>5 DEF Pending
  <2>2. j \in 1..i
    BY <1>1, <2>1
  <2>3. stack'[j].kind \in SettingsPages /\ stack'[j].save
    BY <1>2, <1>5, <2>1, <2>2
  <2>4. QED
    BY <1>2, <2>2, <2>3 DEF Pending
<1>6. QED
  BY <1>2, <1>3, <1>4, <1>5

LEMMA EditSettingsRight ==
    ASSUME OverlayIInv, EditSettings PROVE OverlayIInv'
<1>1. PICK i \in DOMAIN stack, k \in Keys, v \in Values :
         stack[i].kind \in SettingsPages /\ EditsSettings(i, k) /\ SetConfigValues(i, k, v)
  BY DEF EditSettings
<1>2. /\ UNCHANGED <<kip, profiles, overrides, app, unsaved>>
      /\ edits < MaxEdits /\ edits' = edits + 1
  BY DEF EditSettings
<1>3. Usable(stack, i) /\ stack[i].items
  BY <1>1 DEF EditsSettings, Usable, Shows, Top
<1>4. /\ i \in 1..Len(stack) /\ stack[i] \in SettingsSet /\ CopyRight(stack[i])
      /\ stack # <<>>
  BY <1>1, <1>3, InUse, PageOf
<1> DEFINE list == [stack[i].list EXCEPT ![k] = v]
           page(ok) == [stack[i] EXCEPT !.list = list, !.save = SetsSaveFlag(stack[i], k, ok)]
<1>5. list \in ConfigList
  BY <1>4 DEF SettingsSet, ConfigList
<1>6. ASSUME NEW ok \in BOOLEAN, NEW r, r = page(ok)
      PROVE  /\ r \in Page /\ r.kind = stack[i].kind /\ r.list = list
             /\ r.save = SetsSaveFlag(stack[i], k, ok) /\ r.fresh = stack[i].fresh
             /\ stack[i].save => r.save
  <2>1. PICK b : b = SetsSaveFlag(stack[i], k, ok)
    OBVIOUS
  <2>2. b \in BOOLEAN /\ (stack[i].save => b)
    <3>1. /\ SetsSaveFlag(stack[i], k, ok) \in BOOLEAN
          /\ stack[i].save => SetsSaveFlag(stack[i], k, ok)
      BY Zenon DEF SetsSaveFlag
    <3>2. QED
      BY <2>1, <3>1
  <2>3. r = [stack[i] EXCEPT !.list = list, !.save = b]
    BY <1>6, <2>1
  <2> HIDE DEF list
  <2>4. r \in SettingsSet /\ r.kind = stack[i].kind /\ r.list = list /\ r.save = b
        /\ r.fresh = stack[i].fresh
    BY <1>4, <1>5, <2>2, <2>3 DEF SettingsSet
  <2>5. QED
    BY <2>1, <2>2, <2>4 DEF Page
<1>7. edits' \in 0..MaxEdits /\ app' \in Apps /\ hasty \in BOOLEAN
  BY <1>2, OverlayAssumption DEF OverlayIInv, ServerRight
<1>8. stack[i].kind # "GovernorProfile" /\ stack[i].kind # "Choice"
  BY <1>1, KindsApart DEF OtherKinds
<1>9. CASE /\ stack' = Append([stack EXCEPT ![i] = page(FALSE)], Fatal)
           /\ UNCHANGED <<config, wanted, hasty>>
  <2>1. PICK r : r = page(FALSE)
    OBVIOUS
  <2>2. r \in Page /\ r.kind = stack[i].kind /\ (stack[i].save => r.save)
    BY <1>6, <2>1
  <2> HIDE DEF page
  <2>3. stack' = Append([stack EXCEPT ![i] = r], Fatal)
    BY <1>9, <2>1
  <2>4. QED
    BY <1>2, <1>4, <1>7, <1>8, <1>9, <2>2, <2>3, FailStep
<1>10. CASE /\ stack' = Append(SubSeq(stack, 1, i - 1), page(TRUE))
            /\ config' = list
            /\ wanted' = [wanted EXCEPT !.config[k] = v]
            /\ hasty' = (hasty \/ ~stack[i].fresh)
  <2>1. PICK r : r = page(TRUE)
    OBVIOUS
  <2>2. /\ r \in Page /\ r.kind = stack[i].kind /\ r.list = list
        /\ r.save = SetsSaveFlag(stack[i], k, TRUE) /\ r.fresh = stack[i].fresh
        /\ stack[i].save => r.save
    BY <1>6, <2>1
  <2> HIDE DEF page
  <2>3. stack' = Append(SubSeq(stack, 1, i - 1), r)
    BY <1>10, <2>1
  <2>4. CopyRight(r)'
    BY <1>1, <1>10, <2>2, KindsApart DEF CopyRight, OtherKinds
  <2>5. /\ StackRight(stack') /\ CopiesRight' /\ Len(stack') = i /\ stack'[i] = r
        /\ Pending(stack) => Pending(stack')
    BY <1>3, <1>8, <2>2, <2>3, <2>4, CutStep
  <2>6. hasty' \in BOOLEAN /\ (hasty => hasty') /\ (~hasty' => stack[i].fresh)
    BY <1>7, <1>10
  <2>7. /\ wanted' \in [config : ConfigList, profiles : [Titles -> ProfileList],
                       overrides : ProfileList]
        /\ wanted'.config = [wanted.config EXCEPT ![k] = v]
        /\ wanted'.profiles = wanted.profiles /\ wanted'.overrides = wanted.overrides
    BY <1>10 DEF OverlayIInv, ServerRight, ConfigList
  <2>8. ~hasty' => config' = [config EXCEPT ![k] = v]
    BY <1>1, <1>3, <1>4, <1>10, <2>6 DEF CopyRight
  <2>9. ServerRight'
    BY <1>2, <1>5, <1>7, <1>10, <2>6, <2>7 DEF OverlayIInv, ServerRight
  <2>10. ProfilesKept' /\ OverridesKept'
    BY <1>2, <2>6, <2>7 DEF OverlayIInv, ProfilesKept, OverridesKept
  <2>11. ConfigKept'
    BY <2>6, <2>7, <2>8 DEF OverlayIInv, ConfigKept
  <2>12. hasty' \/ unsaved' \/ Pending(stack') \/ kip' = [q \in KipKeys |-> config'[q]]
    <3>1. CASE k \in KipKeys
      <4>1. r.save
        <5>1. SetsSaveFlag(stack[i], k, TRUE)
          BY <3>1, Zenon DEF SetsSaveFlag
        <5>2. QED
          BY <2>2, <5>1
      <4>2. i \in 1..Len(stack')
        BY <1>4, <2>5, StackFacts DEF OverlayIInv
      <4>3. QED
        BY <1>1, <2>2, <2>5, <4>1, <4>2 DEF Pending
    <3>2. CASE k \notin KipKeys /\ ~hasty'
      <4>1. hasty \/ unsaved \/ Pending(stack) \/ kip = [q \in KipKeys |-> config[q]]
        BY KipSavedIs DEF OverlayIInv
      <4>2. [q \in KipKeys |-> config'[q]] = [q \in KipKeys |-> config[q]]
        BY <2>8, <3>2, OverlayAssumption DEF OverlayIInv, ServerRight, ConfigList
      <4>3. QED
        BY <1>2, <2>5, <2>6, <3>2, <4>1, <4>2
    <3>3. QED
      BY <3>1, <3>2
  <2>13. KipSaved'
    <3>1. DOMAIN stack' = 1..Len(stack')
      BY <2>5, StackFacts
    <3>2. QED
      BY <2>12, <3>1 DEF KipSaved, Pending
  <2>14. QED
    BY <2>5, <2>9, <2>10, <2>11, <2>13 DEF OverlayIInv
<1>11. QED
  BY <1>1, <1>9, <1>10 DEF SetConfigValues

\* With the copies right, an edit that succeeds leaves the sysmodule with what the
\* user set: of the profiles and of the overrides.
LEMMA ProfilesStep ==
    ASSUME OverlayIInv, NEW a \in Titles, NEW e \in Entries, NEW v \in Values,
           NEW new \in ProfileList, new = [profiles[a] EXCEPT ![e] = v],
           profiles' = [profiles EXCEPT ![a] = new],
           wanted' = [wanted EXCEPT !.profiles[a][e] = v],
           StackRight(stack'), CopiesRight', Pending(stack) => Pending(stack'),
           UNCHANGED <<config, kip, overrides, app, hasty, unsaved>>,
           edits' \in 0..MaxEdits
    PROVE  OverlayIInv'
<1>1. /\ wanted'.profiles = profiles'
      /\ wanted'.config = wanted.config /\ wanted'.overrides = wanted.overrides
      /\ wanted' \in [config : ConfigList, profiles : [Titles -> ProfileList],
                      overrides : ProfileList]
  <2>1. wanted.profiles = profiles /\ profiles \in [Titles -> ProfileList]
        /\ wanted \in [config : ConfigList, profiles : [Titles -> ProfileList],
                      overrides : ProfileList]
    BY DEF OverlayIInv, ProfilesKept, ServerRight
  <2>2. wanted' = [wanted EXCEPT !.profiles = profiles']
    BY <2>1
  <2>3. profiles' \in [Titles -> ProfileList]
    BY <2>1
  <2>4. QED
    BY <2>1, <2>2, <2>3
<1>2. profiles' \in [Titles -> ProfileList]
  BY DEF OverlayIInv, ServerRight
<1>3. ServerRight'
  BY <1>1, <1>2 DEF OverlayIInv, ServerRight
<1>4. ProfilesKept' /\ ConfigKept' /\ OverridesKept'
  BY <1>1 DEF OverlayIInv, ProfilesKept, ConfigKept, OverridesKept
<1>5. KipSaved'
  <2>1. hasty \/ unsaved \/ Pending(stack) \/ kip = [k \in KipKeys |-> config[k]]
    BY KipSavedIs DEF OverlayIInv
  <2>2. DOMAIN stack' = 1..Len(stack')
    BY StackFacts
  <2>3. QED
    BY <2>1, <2>2 DEF KipSaved, Pending
<1>6. QED
  BY <1>3, <1>4, <1>5 DEF OverlayIInv

LEMMA OverridesStep ==
    ASSUME OverlayIInv, NEW e \in Entries, NEW v \in Values,
           overrides' \in ProfileList, ~hasty => overrides' = [overrides EXCEPT ![e] = v],
           wanted' = [wanted EXCEPT !.overrides[e] = v],
           StackRight(stack'), CopiesRight', Pending(stack) => Pending(stack'),
           UNCHANGED <<config, kip, profiles, app, hasty, unsaved>>,
           edits' \in 0..MaxEdits
    PROVE  OverlayIInv'
<1>1. /\ wanted'.overrides = [wanted.overrides EXCEPT ![e] = v]
      /\ wanted'.config = wanted.config /\ wanted'.profiles = wanted.profiles
      /\ wanted' \in [config : ConfigList, profiles : [Titles -> ProfileList],
                      overrides : ProfileList]
  BY DEF OverlayIInv, ServerRight, ProfileList
<1>2. ServerRight'
  BY <1>1 DEF OverlayIInv, ServerRight
<1>3. ProfilesKept' /\ ConfigKept' /\ OverridesKept'
  BY <1>1 DEF OverlayIInv, ProfilesKept, ConfigKept, OverridesKept
<1>4. KipSaved'
  <2>1. hasty \/ unsaved \/ Pending(stack) \/ kip = [k \in KipKeys |-> config[k]]
    BY KipSavedIs DEF OverlayIInv
  <2>2. DOMAIN stack' = 1..Len(stack')
    BY StackFacts
  <2>3. QED
    BY <2>1, <2>2 DEF KipSaved, Pending
<1>5. QED
  BY <1>2, <1>3, <1>4 DEF OverlayIInv

\* What the listener of page i, in use, leaves when its call succeeds.
LEMMA AfterStep ==
    ASSUME OverlayIInv, NEW i \in DOMAIN stack, Usable(stack, i), NEW p \in Page,
           p.kind = stack[i].kind, p.kind \in {"Profile", "Override"},
           stack' = After(i, p), CopyRight(p)'
    PROVE  StackRight(stack') /\ CopiesRight' /\ (Pending(stack) => Pending(stack'))
<1>1. p.kind \notin SettingsPages
  BY KindsApart DEF OtherKinds
<1>2. /\ i \in 1..Len(stack) /\ StackRight(stack) /\ Len(stack) \in Nat /\ stack # <<>>
      /\ i = Len(stack) \/ i = Len(stack) - 1
      /\ i # Len(stack) => Top.kind \in {"Choice", "GovernorProfile"}
  BY InUse, StackFacts DEF OverlayIInv
<1>3. CASE Shows({"Choice"})
  BY <1>1, <1>3, CutStep DEF After
<1>4. CASE ~Shows({"Choice"})
  <2>1. /\ StackRight(stack') /\ Len(stack') = Len(stack)
        /\ \A j \in 1..Len(stack) : stack'[j] = IF j = i THEN p ELSE stack[j]
    <3>1. /\ StackRight([stack EXCEPT ![i] = p]) /\ Len([stack EXCEPT ![i] = p]) = Len(stack)
          /\ \A j \in 1..Len(stack) :
                [stack EXCEPT ![i] = p][j] = IF j = i THEN p ELSE stack[j]
      BY <1>2, ReplaceRight
    <3>2. stack' = [stack EXCEPT ![i] = p]
      BY <1>4 DEF After
    <3>3. QED
      BY <3>1, <3>2
  <2>2. CopiesRight'
    <3>1. CASE i = Len(stack)
      <4>1. stack'[Len(stack')] = p /\ Len(stack') \in Nat
        BY <1>2, <2>1, <3>1
      <4>2. CopyRight(stack[Len(stack)])'
        BY <4>1 DEF CopyRight
      <4>3. QED
        BY <4>1, <4>2, CopiesOfTop
    <3>2. CASE i # Len(stack)
      <4>1. /\ stack'[Len(stack')] = Top /\ Top.kind = "GovernorProfile"
            /\ stack'[Len(stack') - 1] = p /\ Len(stack') \in Nat
        BY <1>2, <1>4, <2>1, <3>2 DEF Top, Shows
      <4>2. CopyRight(stack[Len(stack)])'
        BY <4>1, KindsApart DEF CopyRight, OtherKinds
      <4>3. CopyRight(stack[Len(stack) - 1])'
        BY <4>1 DEF CopyRight
      <4>4. QED
        BY <4>1, <4>2, <4>3, CopiesOfTop
    <3>3. QED
      BY <3>1, <3>2
  <2>3. /\ Len(stack) <= Len(stack') /\ Len(stack') \in Nat
        /\ \A j \in 1..Len(stack) : stack[j].kind \in SettingsPages /\ stack[j].save =>
               stack'[j].kind \in SettingsPages /\ stack'[j].save
    BY <1>1, <1>2, <2>1
  <2>4. Pending(stack) => Pending(stack')
    BY <1>2, <2>3, PendingKept
  <2>5. QED
    BY <2>1, <2>2, <2>4
<1>5. QED
  BY <1>3, <1>4

LEMMA EditProfileRight ==
    ASSUME OverlayIInv, EditProfile PROVE OverlayIInv'
<1>1. PICK i \in DOMAIN stack, e \in Entries, v \in Values :
         /\ stack[i].kind = "Profile"
         /\ EditsClock(i, e, v) \/ EditsGovernor(i, e, "GovernorProfile")
         /\ LET page == EditOfList(i, e, v)
                a    == page.app
            IN  \/ /\ stack' = After(i, page)
                   /\ profiles' = [profiles EXCEPT ![a] = [page.list EXCEPT ![e] = v]]
                   /\ wanted' = [wanted EXCEPT !.profiles[a][e] = v]
                \/ /\ stack' = Append([stack EXCEPT ![i] = page], Fatal)
                   /\ UNCHANGED <<profiles, wanted>>
  BY DEF EditProfile
<1>2. /\ UNCHANGED <<config, kip, overrides, app, hasty, unsaved>>
      /\ edits < MaxEdits /\ edits' = edits + 1
  BY DEF EditProfile
<1>3. Usable(stack, i)
  BY <1>1 DEF EditsClock, EditsGovernor, Usable, Shows, Top
<1>4. /\ i \in 1..Len(stack) /\ stack[i] \in ProfileSet /\ stack # <<>>
      /\ stack[i].list = profiles[stack[i].app]
  BY <1>1, <1>3, InUse, PageOf DEF CopyRight
<1>5. PICK p : p = EditOfList(i, e, v)
  OBVIOUS
<1>6. /\ p \in Page /\ p.kind = "Profile" /\ p.app = stack[i].app /\ p.app \in Titles
      /\ p.list = [profiles[p.app] EXCEPT ![e] = v] /\ p.list \in ProfileList
      /\ [p.list EXCEPT ![e] = v] = p.list
  <2>1. p = [stack[i] EXCEPT !.list = [stack[i].list EXCEPT ![e] = v]]
    BY <1>4, <1>5 DEF EditOfList, ProfileSet
  <2>2. PICK list : list = [stack[i].list EXCEPT ![e] = v]
    OBVIOUS
  <2>3. list \in ProfileList /\ [list EXCEPT ![e] = v] = list
    BY <1>4, <2>2 DEF ProfileSet, ProfileList
  <2>4. p \in ProfileSet /\ p.list = list /\ p.app = stack[i].app /\ p.kind = "Profile"
    BY <1>4, <2>1, <2>2, <2>3 DEF ProfileSet
  <2>5. QED
    BY <1>4, <2>2, <2>3, <2>4 DEF Page, ProfileSet
<1>7. edits' \in 0..MaxEdits /\ app' \in Apps /\ hasty' \in BOOLEAN
  BY <1>2, OverlayAssumption DEF OverlayIInv, ServerRight
<1>8. CASE /\ stack' = Append([stack EXCEPT ![i] = p], Fatal)
           /\ UNCHANGED <<profiles, wanted>>
  <2>1. p.kind = stack[i].kind /\ p.kind # "GovernorProfile" /\ p.kind \notin SettingsPages
    BY <1>1, <1>6, KindsApart DEF OtherKinds
  <2>2. QED
    BY <1>2, <1>4, <1>6, <1>7, <1>8, <2>1, FailStep
<1>9. CASE /\ stack' = After(i, p)
           /\ profiles' = [profiles EXCEPT ![p.app] = [p.list EXCEPT ![e] = v]]
           /\ wanted' = [wanted EXCEPT !.profiles[p.app][e] = v]
  <2>1. profiles'[p.app] = p.list
    BY <1>6, <1>9 DEF OverlayIInv, ServerRight
  <2>2. CopyRight(p)'
    BY <1>6, <2>1, KindsApart DEF CopyRight, OtherKinds
  <2>3. StackRight(stack') /\ CopiesRight' /\ (Pending(stack) => Pending(stack'))
    BY <1>1, <1>3, <1>6, <1>9, <2>2, AfterStep
  <2>4. profiles' = [profiles EXCEPT ![p.app] = p.list]
    BY <1>6, <1>9
  <2>5. QED
    BY <1>2, <1>6, <1>7, <1>9, <2>3, <2>4, ProfilesStep
<1>10. QED
  BY <1>1, <1>5, <1>8, <1>9

LEMMA EditOverrideRight ==
    ASSUME OverlayIInv, EditOverride PROVE OverlayIInv'
<1>1. PICK i \in DOMAIN stack, e \in Clocks, v \in Values :
         /\ stack[i].kind = "Override" /\ EditsClock(i, e, v)
         /\ LET page == EditOfList(i, e, v)
            IN  \/ /\ stack' = After(i, page)
                   /\ overrides' = [overrides EXCEPT ![e] = v]
                   /\ wanted' = [wanted EXCEPT !.overrides[e] = v]
                \/ /\ stack' = Append(IF e = "Display" THEN [stack EXCEPT ![i] = page] ELSE stack, Fatal)
                   /\ UNCHANGED <<overrides, wanted>>
  BY DEF EditOverride
<1>2. /\ UNCHANGED <<config, kip, profiles, app, hasty, unsaved>>
      /\ edits < MaxEdits /\ edits' = edits + 1
  BY DEF EditOverride
<1>3. Usable(stack, i) /\ e \in Entries
  BY <1>1 DEF EditsClock, Usable, Shows, Top, Entries
<1>4. /\ i \in 1..Len(stack) /\ stack[i] \in OverrideSet /\ stack # <<>>
      /\ CopyRight(stack[i])
  BY <1>1, <1>3, InUse, PageOf
<1>5. PICK p : p = EditOfList(i, e, v)
  OBVIOUS
<1>6. /\ p \in Page /\ p.kind = "Override" /\ p.fresh = stack[i].fresh
      /\ p.list = [stack[i].list EXCEPT ![e] = v]
  <2>1. p = [stack[i] EXCEPT !.list = [stack[i].list EXCEPT ![e] = v]]
    BY <1>4, <1>5 DEF EditOfList, OverrideSet
  <2>2. PICK list : list = [stack[i].list EXCEPT ![e] = v]
    OBVIOUS
  <2>3. list \in ProfileList
    BY <1>3, <1>4, <2>2 DEF OverrideSet, ProfileList
  <2>4. p \in OverrideSet /\ p.list = list /\ p.fresh = stack[i].fresh /\ p.kind = "Override"
    BY <1>4, <2>1, <2>2, <2>3 DEF OverrideSet
  <2>5. QED
    BY <2>2, <2>4 DEF Page
<1>7. edits' \in 0..MaxEdits /\ app' \in Apps /\ hasty' \in BOOLEAN
  BY <1>2, OverlayAssumption DEF OverlayIInv, ServerRight
<1>8. CASE /\ stack' = Append([stack EXCEPT ![i] = p], Fatal)
           /\ UNCHANGED <<overrides, wanted>>
  <2>1. p.kind = stack[i].kind /\ p.kind # "GovernorProfile" /\ p.kind \notin SettingsPages
    BY <1>1, <1>6, KindsApart DEF OtherKinds
  <2>2. QED
    BY <1>2, <1>4, <1>6, <1>7, <1>8, <2>1, FailStep
<1>9. CASE stack' = Append(stack, Fatal) /\ UNCHANGED <<overrides, wanted>>
  BY <1>2, <1>4, <1>7, <1>9, FatalStep
<1>10. CASE /\ stack' = After(i, p)
            /\ overrides' = [overrides EXCEPT ![e] = v]
            /\ wanted' = [wanted EXCEPT !.overrides[e] = v]
  <2>1. ~hasty /\ stack[i].fresh => stack[i].list = overrides
    BY <1>1, <1>4 DEF CopyRight
  <2>2. ~hasty /\ p.fresh => p.list = overrides'
    BY <1>6, <1>10, <2>1
  <2>3. CopyRight(p)'
    BY <1>2, <1>6, <2>2, KindsApart DEF CopyRight, OtherKinds
  <2>4. StackRight(stack') /\ CopiesRight' /\ (Pending(stack) => Pending(stack'))
    BY <1>1, <1>3, <1>6, <1>10, <2>3, AfterStep
  <2>5. overrides' \in ProfileList
    BY <1>3, <1>10 DEF OverlayIInv, ServerRight, ProfileList
  <2>6. QED
    BY <1>2, <1>3, <1>7, <1>10, <2>4, <2>5, OverridesStep
<1>11. QED
  BY <1>1, <1>5, <1>8, <1>9, <1>10

LEMMA EditGovernorOverrideRight ==
    ASSUME OverlayIInv, EditGovernorOverride PROVE OverlayIInv'
<1>1. PICK b \in GovBytes, v \in Values :
         LET page == [Top EXCEPT !.packed[b] = v]
             now  == [stack EXCEPT ![Len(stack)] = page]
         IN  \/ /\ stack' = now
                /\ overrides' = [e \in Entries |-> IF e \in GovBytes THEN page.packed[e] ELSE overrides[e]]
                /\ wanted' = [wanted EXCEPT !.overrides[b] = v]
             \/ /\ stack' = Append(now, Fatal)
                /\ UNCHANGED <<overrides, wanted>>
  BY DEF EditGovernorOverride
<1>2. /\ UNCHANGED <<config, kip, profiles, app, hasty, unsaved>>
      /\ edits < MaxEdits /\ edits' = edits + 1
      /\ stack # <<>> /\ Top.kind = "GovernorOverride" /\ Top.items
  BY DEF EditGovernorOverride, Shows
<1>3. /\ Top \in GovernorOverrideSet /\ CopyRight(Top) /\ Len(stack) \in 1..Len(stack)
      /\ Len(stack) \in Nat /\ StackRight(stack)
  BY <1>2, TopIsPage, PageOf, StackFacts DEF OverlayIInv
<1>4. PICK p : p = [Top EXCEPT !.packed[b] = v]
  OBVIOUS
<1>5. /\ p \in Page /\ p.kind = "GovernorOverride"
      /\ p.packed \in Packed /\ p.packed = [Top.packed EXCEPT ![b] = v]
  <2>1. PICK packed : packed = [Top.packed EXCEPT ![b] = v]
    OBVIOUS
  <2>2. p = [Top EXCEPT !.packed = packed] /\ packed \in Packed
    BY <1>3, <1>4, <2>1 DEF GovernorOverrideSet, Packed
  <2>3. p \in GovernorOverrideSet /\ p.packed = packed
    BY <1>3, <2>2 DEF GovernorOverrideSet
  <2>4. QED
    BY <2>1, <2>2, <2>3 DEF Page, GovernorOverrideSet
<1>6. edits' \in 0..MaxEdits /\ app' \in Apps /\ hasty' \in BOOLEAN /\ b \in Entries
  BY <1>2, OverlayAssumption DEF OverlayIInv, ServerRight, Entries
<1>7. p.kind = stack[Len(stack)].kind /\ p.kind # "GovernorProfile" /\ p.kind \notin SettingsPages
  BY <1>2, <1>5, KindsApart DEF OtherKinds, Top
<1>8. CASE /\ stack' = Append([stack EXCEPT ![Len(stack)] = p], Fatal)
           /\ UNCHANGED <<overrides, wanted>>
  BY <1>2, <1>3, <1>5, <1>6, <1>7, <1>8, FailStep
<1>9. CASE /\ stack' = [stack EXCEPT ![Len(stack)] = p]
           /\ overrides' = [e \in Entries |-> IF e \in GovBytes THEN p.packed[e] ELSE overrides[e]]
           /\ wanted' = [wanted EXCEPT !.overrides[b] = v]
  <2>1. /\ StackRight(stack') /\ Len(stack') = Len(stack)
        /\ \A j \in 1..Len(stack) : stack'[j] = IF j = Len(stack) THEN p ELSE stack[j]
    <3>1. LET now == [stack EXCEPT ![Len(stack)] = p]
          IN  /\ StackRight(now) /\ Len(now) = Len(stack)
              /\ \A j \in 1..Len(stack) : now[j] = IF j = Len(stack) THEN p ELSE stack[j]
      BY <1>3, <1>5, <1>7, ReplaceRight
    <3>2. QED
      BY <1>9, <3>1
  <2>2. stack'[Len(stack')] = p
    BY <1>3, <2>1
  <2>3. overrides' \in ProfileList /\ \A q \in GovBytes : p.packed[q] = overrides'[q]
    BY <1>5, <1>9 DEF OverlayIInv, ServerRight, ProfileList, Packed, Entries
  <2>4. CopyRight(stack[Len(stack)])'
    BY <1>5, <2>2, <2>3, KindsApart DEF CopyRight, OtherKinds
  <2>5. CopiesRight'
    BY <1>3, <1>5, <2>1, <2>2, <2>4, CopiesOfTop
  <2>6. ~hasty => overrides' = [overrides EXCEPT ![b] = v]
    <3>1. ~hasty => \A q \in GovBytes : Top.packed[q] = overrides[q]
      BY <1>2, <1>3 DEF CopyRight
    <3>2. overrides \in ProfileList /\ Top.packed \in Packed
      BY <1>3 DEF OverlayIInv, ServerRight, GovernorOverrideSet
    <3>3. QED
      BY <1>5, <1>6, <1>9, <3>1, <3>2 DEF ProfileList, Packed, Entries
  <2>7. Pending(stack) => Pending(stack')
    <3>1. /\ Len(stack) <= Len(stack') /\ Len(stack') \in Nat
          /\ \A j \in 1..Len(stack) : stack[j].kind \in SettingsPages /\ stack[j].save =>
                 stack'[j].kind \in SettingsPages /\ stack'[j].save
      BY <1>3, <1>7, <2>1
    <3>2. QED
      BY <1>3, <3>1, PendingKept
  <2>8. QED
    BY <1>2, <1>6, <1>9, <2>1, <2>3, <2>5, <2>6, <2>7, OverridesStep
<1>10. QED
  BY <1>1, <1>4, <1>8, <1>9

-------------------------------------------------------------------------------
(* Going back, and the refresh.                                            *)

\* The pages after the n-th go, and ~MiscGui saves for those that changed the kip.
LEMMA LeaveStep ==
    ASSUME OverlayIInv, NEW n \in 0..Len(stack), Destroy(n),
           UNCHANGED <<config, profiles, overrides, app, wanted, hasty, edits>>,
           StackRight(stack'), CopiesRight',
           \A j \in 1..n : stack[j].kind \in SettingsPages /\ stack[j].save => Pending(stack')
    PROVE  OverlayIInv'
<1>1. DOMAIN stack' = 1..Len(stack') /\ Len(stack) \in Nat
  BY StackFacts DEF OverlayIInv
<1>2. hasty \/ unsaved \/ Pending(stack) \/ kip = [k \in KipKeys |-> config[k]]
  BY KipSavedIs DEF OverlayIInv
<1>3. /\ kip' \in [KipKeys -> Values] /\ unsaved' \in BOOLEAN
      /\ hasty' \/ unsaved' \/ Pending(stack') \/ kip' = [k \in KipKeys |-> config'[k]]
  <2>1. CASE \E i \in (n + 1)..Len(stack) : stack[i].kind \in SettingsPages /\ stack[i].save
    <3>1. \/ kip' = [k \in KipKeys |-> config[k]] /\ unsaved' = FALSE
          \/ UNCHANGED kip /\ unsaved' = TRUE
      BY <2>1 DEF Destroy
    <3>2. [k \in KipKeys |-> config[k]] \in [KipKeys -> Values] /\ kip \in [KipKeys -> Values]
      BY OverlayAssumption DEF OverlayIInv, ServerRight, ConfigList
    <3>3. QED
      BY <3>1, <3>2
  <2>2. CASE ~\E i \in (n + 1)..Len(stack) : stack[i].kind \in SettingsPages /\ stack[i].save
    <3>1. UNCHANGED <<kip, unsaved>>
      BY <2>2 DEF Destroy
    <3>2. Pending(stack) => Pending(stack')
      <4>1. SUFFICES ASSUME NEW j \in 1..Len(stack), stack[j].kind \in SettingsPages, stack[j].save
                     PROVE  Pending(stack')
        BY DEF Pending
      <4>2. j \in 1..n
        BY <1>1, <2>2, <4>1
      <4>3. QED
        BY <4>1, <4>2
    <3>3. QED
      BY <1>2, <3>1, <3>2 DEF OverlayIInv, ServerRight
  <2>3. QED
    BY <2>1, <2>2
<1>4. ServerRight'
  BY <1>3 DEF OverlayIInv, ServerRight
<1>5. ProfilesKept' /\ ConfigKept' /\ OverridesKept'
  BY DEF OverlayIInv, ProfilesKept, ConfigKept, OverridesKept
<1>6. KipSaved'
  BY <1>1, <1>3 DEF KipSaved, Pending
<1>7. QED
  BY <1>4, <1>5, <1>6 DEF OverlayIInv

LEMMA NoPages == StackRight(<<>>)
BY EmptySeq DEF StackRight

LEMMA CloseFatalRight ==
    ASSUME OverlayIInv, CloseFatal PROVE OverlayIInv'
<1>1. /\ stack' = <<>> /\ Destroy(0)
      /\ UNCHANGED <<config, profiles, overrides, app, wanted, hasty, edits>>
  BY DEF CloseFatal
<1>2. StackRight(stack') /\ Len(stack') = 0 /\ 0 \in 0..Len(stack)
  BY <1>1, NoPages, StackFacts, EmptySeq DEF OverlayIInv
<1>3. CopiesRight'
  BY <1>2 DEF CopiesRight
<1>4. QED
  BY <1>1, <1>2, <1>3, LeaveStep

LEMMA BackRight ==
    ASSUME OverlayIInv, Back PROVE OverlayIInv'
<1> DEFINE n == Len(stack) - 1
<1>1. /\ stack # <<>> /\ Top.kind # "Fatal" /\ Destroy(n)
      /\ stack' = IF n = 0 THEN <<>>
                  ELSE IF Shows({"Choice"}) THEN SubSeq(stack, 1, n)
                  ELSE Append(SubSeq(stack, 1, n - 1), Uncovered(stack[n]))
      /\ UNCHANGED <<config, profiles, overrides, app, wanted, hasty, edits>>
  BY DEF Back, Shows
<1>2. /\ StackRight(stack) /\ Len(stack) \in Nat /\ Len(stack) \in 1..Len(stack)
      /\ n \in 0..Len(stack)
  BY <1>1, StackFacts DEF OverlayIInv
<1>3. CASE n = 0
  <2>1. StackRight(stack') /\ Len(stack') = 0 /\ stack' = <<>>
    BY <1>1, <1>3, NoPages, EmptySeq
  <2>2. CopiesRight'
    BY <2>1 DEF CopiesRight
  <2>3. \A j \in 1..n : stack[j].kind \in SettingsPages /\ stack[j].save => Pending(stack')
    BY <1>2, <1>3
  <2>4. QED
    BY <1>1, <1>2, <2>1, <2>2, <2>3, LeaveStep
<1>4. CASE n # 0
  <2>1. n \in 1..Len(stack) /\ Len(stack) \in 2..Len(stack) /\ stack[n] \in Page
    <3>1. n \in 1..Len(stack) /\ Len(stack) \in 2..Len(stack)
      <4>1. PICK l \in Nat : l = Len(stack)
        BY <1>2
      <4>2. l - 1 \in 1..l /\ l \in 2..l
        BY <1>2, <1>4, <4>1
      <4>3. QED
        BY <4>1, <4>2
    <3>2. QED
      BY <1>2, <3>1, StackFacts
  <2>2. MayLieOn(Top, stack[n])
    BY <1>2, <2>1 DEF StackRight, Top
  <2>3. /\ stack[n].kind \notin {"Choice", "GovernorProfile", "GovernorOverride"}
        /\ stack[n].kind = "Profile" => Top.kind \in {"Choice", "GovernorProfile"}
        /\ Top.kind = "Choice" => stack[n].kind \in SettingsPages \cup {"Profile", "Override"}
    BY <1>1, <2>2 DEF MayLieOn
  <2>4. Top.kind \in {"Choice", "GovernorProfile"} => CopyRight(stack[n])
    BY <2>1 DEF OverlayIInv, CopiesRight, Usable, Top
  <2>5. CASE Shows({"Choice"})
    <3>1. /\ StackRight(stack') /\ Len(stack') = n /\ \A j \in 1..n : stack'[j] = stack[j]
      <4>1. stack' = SubSeq(stack, 1, n)
        BY <1>1, <1>4, <2>5
      <4> HIDE DEF n
      <4>2. QED
        BY <1>2, <2>1, <4>1, CutRight
    <3>2. stack'[Len(stack')] = stack[n] /\ Len(stack') \in Nat
      BY <1>2, <2>1, <3>1
    <3>3. CopyRight(stack[Len(stack)])'
      BY <1>1, <2>4, <2>5, <3>2 DEF CopyRight, Shows
    <3>4. CopiesRight'
      BY <2>3, <3>2, <3>3, CopiesOfTop
    <3>5. ASSUME NEW j \in 1..n, stack[j].kind \in SettingsPages, stack[j].save
          PROVE  Pending(stack')
      BY <3>1, <3>5 DEF Pending
    <3>6. QED
      BY <1>1, <1>2, <3>1, <3>4, <3>5, LeaveStep
  <2>6. CASE ~Shows({"Choice"})
    <3>1. PICK p : p = Uncovered(stack[n])
      OBVIOUS
    <3>2. /\ p \in Page /\ p.kind = stack[n].kind
          /\ p.kind \in SettingsPages => p.save = stack[n].save
          /\ p.kind \in SettingsPages \cup {"Override"} => ~p.fresh
          /\ p.kind = "Profile" => p = stack[n]
      <4>1. CASE stack[n].kind \in SettingsPages
        <5>1. stack[n] \in SettingsSet
          BY <2>1, <4>1, PageOf
        <5>2. p = [stack[n] EXCEPT !.fresh = FALSE]
          BY <3>1, <4>1 DEF Uncovered
        <5>3. /\ p \in SettingsSet /\ p.kind = stack[n].kind /\ p.save = stack[n].save
              /\ ~p.fresh
          BY <5>1, <5>2 DEF SettingsSet
        <5>4. QED
          BY <4>1, <5>3, KindsApart DEF Page, OtherKinds
      <4>2. CASE stack[n].kind = "Override"
        <5>1. stack[n] \in OverrideSet
          BY <2>1, <4>2, PageOf
        <5>2. p = [stack[n] EXCEPT !.fresh = FALSE]
          BY <3>1, <4>2 DEF Uncovered
        <5>3. p \in OverrideSet /\ p.kind = stack[n].kind /\ ~p.fresh
          BY <5>1, <5>2 DEF OverrideSet
        <5>4. QED
          BY <4>2, <5>3, KindsApart DEF Page, OtherKinds
      <4>3. CASE stack[n].kind \notin SettingsPages \cup {"Override"}
        BY <2>1, <3>1, <4>3 DEF Uncovered
      <4>4. QED
        BY <4>1, <4>2, <4>3
    <3>3. CopyRight(p)'
      <4>1. p.kind = "Profile" => CopyRight(p)
        BY <2>3, <2>4, <3>2
      <4>2. QED
        BY <1>1, <2>3, <3>2, <4>1, KindsApart DEF CopyRight, OtherKinds
    <3>4. /\ StackRight(stack') /\ Len(stack') = n
          /\ \A j \in 1..n : stack'[j] = IF j = n THEN p ELSE stack[j]
      <4>1. stack' = Append(SubSeq(stack, 1, n - 1), p)
        BY <1>1, <1>4, <2>6, <3>1
      <4>2. p.kind # "GovernorProfile"
        BY <2>3, <3>2
      <4> HIDE DEF n
      <4>3. QED
        BY <1>2, <2>1, <3>2, <4>1, <4>2, CutReplaceRight
    <3>5. stack'[Len(stack')] = p /\ Len(stack') \in Nat
      BY <1>2, <2>1, <3>4
    <3>6. CopiesRight'
      <4>1. CopyRight(stack[Len(stack)])'
        BY <3>3, <3>5 DEF CopyRight
      <4>2. QED
        BY <2>3, <3>2, <3>5, <4>1, CopiesOfTop
    <3>7. ASSUME NEW j \in 1..n, stack[j].kind \in SettingsPages, stack[j].save
          PROVE  Pending(stack')
      BY <3>2, <3>4, <3>7 DEF Pending
    <3>8. QED
      BY <1>1, <1>2, <3>4, <3>6, <3>7, LeaveStep
  <2>7. QED
    BY <2>5, <2>6
<1>5. QED
  BY <1>3, <1>4

LEMMA RefreshRight ==
    ASSUME OverlayIInv, Refresh PROVE OverlayIInv'
<1>1. /\ stack # <<>> /\ Top.kind \in {"Main", "Override", "Profile"} \cup SettingsPages
      /\ stack' = IF OtherApp(Top) THEN Append([stack EXCEPT ![Len(stack)] = ReadAgain(Top)], Fatal)
                                   ELSE [stack EXCEPT ![Len(stack)] = ReadAgain(Top)]
      /\ UNCHANGED <<config, profiles, kip, overrides, wanted, unsaved, edits, app, hasty>>
  BY DEF Refresh, Shows, server, history
<1>2. /\ Top \in Page /\ CopyRight(Top) /\ Len(stack) \in 1..Len(stack) /\ Len(stack) \in Nat
      /\ edits \in 0..MaxEdits /\ app \in Apps /\ hasty \in BOOLEAN /\ StackRight(stack)
  BY <1>1, TopIsPage, StackFacts DEF OverlayIInv
<1>3. PICK p : p = ReadAgain(Top)
  OBVIOUS
<1>4. /\ p \in Page /\ p.kind = Top.kind
      /\ p.kind \in SettingsPages => p.save = Top.save /\ p.list = config
      /\ p.kind = "Override" => p.list = overrides
      /\ p.kind = "Profile" => p = Top
  <2>1. CASE Top.kind = "Main"
    <3>1. Top \in MainSet
      BY <1>2, <2>1, PageOf
    <3>2. p = [Top EXCEPT !.app = app]
      BY <1>3, <2>1 DEF ReadAgain
    <3>3. p \in MainSet /\ p.kind = "Main"
      BY <1>2, <3>1, <3>2 DEF MainSet
    <3>4. QED
      BY <2>1, <3>3, KindsApart DEF Page, OtherKinds
  <2>2. CASE Top.kind = "Override"
    <3>1. Top \in OverrideSet
      BY <1>2, <2>2, PageOf
    <3>2. p = [Top EXCEPT !.list = overrides, !.fresh = TRUE]
      BY <1>3, <2>2 DEF ReadAgain
    <3>3. p \in OverrideSet /\ p.kind = "Override" /\ p.list = overrides
      BY <3>1, <3>2 DEF OverrideSet, OverlayIInv, ServerRight
    <3>4. QED
      BY <2>2, <3>3, KindsApart DEF Page, OtherKinds
  <2>3. CASE Top.kind \in SettingsPages
    <3>1. Top \in SettingsSet /\ Top.kind \notin {"Main", "Override", "Profile"}
      BY <1>2, <2>3, PageOf, KindsApart DEF OtherKinds
    <3>2. p = [Top EXCEPT !.list = config, !.fresh = TRUE]
      BY <1>3, <2>3, <3>1 DEF ReadAgain
    <3>3. p \in SettingsSet /\ p.kind = Top.kind /\ p.list = config /\ p.save = Top.save
      BY <3>1, <3>2 DEF SettingsSet, OverlayIInv, ServerRight
    <3>4. QED
      BY <3>1, <3>3 DEF Page
  <2>4. CASE Top.kind = "Profile"
    <3>1. p = Top
      BY <1>3, <2>4, KindsApart DEF ReadAgain, OtherKinds
    <3>2. QED
      BY <1>2, <2>4, <3>1, KindsApart DEF OtherKinds
  <2>5. QED
    BY <1>1, <2>1, <2>2, <2>3, <2>4
<1>5. p.kind \notin {"Choice", "GovernorProfile", "GovernorOverride"} /\ p.kind = stack[Len(stack)].kind
  BY <1>1, <1>4, KindsApart DEF OtherKinds, Top
<1>6. CopyRight(p)'
  BY <1>1, <1>2, <1>4, <1>5 DEF CopyRight
<1>7. CASE stack' = Append([stack EXCEPT ![Len(stack)] = p], Fatal)
  <2>1. p.kind \in SettingsPages /\ stack[Len(stack)].save => p.save
    BY <1>4 DEF Top
  <2>2. QED
    BY <1>1, <1>2, <1>4, <1>5, <1>7, <2>1, FailStep
<1>8. CASE stack' = [stack EXCEPT ![Len(stack)] = p]
  <2>1. /\ StackRight(stack') /\ Len(stack') = Len(stack)
        /\ \A j \in 1..Len(stack) : stack'[j] = IF j = Len(stack) THEN p ELSE stack[j]
    <3>1. LET now == [stack EXCEPT ![Len(stack)] = p]
          IN  /\ StackRight(now) /\ Len(now) = Len(stack)
              /\ \A j \in 1..Len(stack) : now[j] = IF j = Len(stack) THEN p ELSE stack[j]
      BY <1>2, <1>4, <1>5, ReplaceRight
    <3>2. QED
      BY <1>8, <3>1
  <2>2. stack'[Len(stack')] = p /\ Len(stack') \in Nat
    BY <1>2, <2>1
  <2>3. CopiesRight'
    <3>1. CopyRight(stack[Len(stack)])'
      BY <1>6, <2>2 DEF CopyRight
    <3>2. QED
      BY <1>5, <2>2, <3>1, CopiesOfTop
  <2>4. Pending(stack) => Pending(stack')
    <3>1. /\ Len(stack) <= Len(stack')
          /\ \A j \in 1..Len(stack) : stack[j].kind \in SettingsPages /\ stack[j].save =>
                 stack'[j].kind \in SettingsPages /\ stack'[j].save
      BY <1>2, <1>4, <2>1 DEF Top
    <3>2. QED
      BY <1>2, <2>2, <3>1, PendingKept
  <2>5. QED
    BY <1>1, <1>2, <2>1, <2>3, <2>4, StackStep
<1>9. QED
  BY <1>1, <1>3, <1>7, <1>8

LEMMA RefreshFailsRight ==
    ASSUME OverlayIInv, RefreshFails PROVE OverlayIInv'
<1>1. /\ stack # <<>> /\ stack' = Append(stack, Fatal)
      /\ UNCHANGED <<config, profiles, kip, overrides, wanted, unsaved, edits, app, hasty>>
  BY DEF RefreshFails, Shows, OpenFatal, Push, server, history
<1>2. QED
  BY <1>1, TopIsPage, FatalStep

LEMMA AppChangesRight ==
    ASSUME OverlayIInv, AppChanges PROVE OverlayIInv'
BY DEF AppChanges, history, OverlayIInv, ServerRight, StackRight, CopiesRight, Usable, CopyRight,
       ProfilesKept, ConfigKept, OverridesKept, KipSaved

-------------------------------------------------------------------------------
(* The theorem.                                                            *)

LEMMA InitRight ==
    ASSUME Init PROVE OverlayIInv
<1>1. ServerRight
  <2>1. config \in ConfigList /\ overrides \in ProfileList /\ kip \in [KipKeys -> Values]
    BY DEF Init, ConfigList, ProfileList, Values
  <2>2. app \in Apps /\ hasty \in BOOLEAN /\ unsaved \in BOOLEAN
    BY DEF Init
  <2>3. edits \in 0..MaxEdits
    BY OverlayAssumption DEF Init
  <2>4. [e \in Entries |-> 0] \in ProfileList
    BY DEF ProfileList, Values
  <2>5. profiles \in [Titles -> ProfileList]
    BY <2>4 DEF Init
  <2>6. QED
    BY <2>1, <2>2, <2>3, <2>5 DEF Init, ServerRight
<1>2. StackRight(stack) /\ Len(stack) = 0
  BY NoPages, EmptySeq DEF Init
<1>3. CopiesRight
  BY <1>2 DEF CopiesRight
<1>4. ProfilesKept /\ ConfigKept /\ OverridesKept
  BY DEF Init, ProfilesKept, ConfigKept, OverridesKept
<1>5. KipSaved
  BY OverlayAssumption DEF Init, KipSaved
<1>6. QED
  BY <1>1, <1>2, <1>3, <1>4, <1>5 DEF OverlayIInv

LEMMA StepRight ==
    ASSUME OverlayIInv, [Next]_vars PROVE OverlayIInv'
<1>1. CASE UNCHANGED vars
  BY <1>1 DEF vars, server, history, OverlayIInv, ServerRight, StackRight, CopiesRight, Usable,
              CopyRight, ProfilesKept, ConfigKept, OverridesKept, KipSaved
<1>2. CASE Next
  BY <1>2, StartRight, OpenSettingsRight, OpenProfileRight, OpenOverrideRight, OpenChoiceRight,
     OpenGovernorProfileRight, OpenGovernorOverrideRight, EditSettingsRight, EditProfileRight,
     EditOverrideRight, EditGovernorOverrideRight, BackRight, CloseFatalRight, RefreshRight,
     RefreshFailsRight, AppChangesRight DEF Next
<1>3. QED
  BY <1>1, <1>2

LEMMA TypeFollows ==
    ASSUME OverlayIInv PROVE TypeOK
<1>1. /\ StackRight(stack) /\ DOMAIN stack = 1..Len(stack) /\ Len(stack) \in Nat
      /\ \A i \in 1..Len(stack) : stack[i] \in Page
  BY StackFacts DEF OverlayIInv
<1>2. ASSUME NEW i \in DOMAIN stack
      PROVE  /\ stack[i].kind \in SettingsPages => stack[i].list \in ConfigList
             /\ stack[i].kind \in {"Profile", "Override"} => stack[i].list \in ProfileList
  BY <1>1, PageOf DEF SettingsSet, ProfileSet, OverrideSet
<1>3. ASSUME NEW i \in DOMAIN stack
      PROVE  /\ stack[i].kind = "GovernorProfile" /\ stack[i].items => stack[i - 1].kind = "Profile"
             /\ stack[i].kind = "Choice" =>
                   stack[i - 1].kind \in SettingsPages \cup {"Profile", "Override"}
  <2>1. CASE i = 1
    <3>1. stack # <<>>
      BY <1>1, EmptySeq
    <3>2. QED
      BY <2>1, <3>1, <1>1 DEF StackRight
  <2>2. CASE i # 1
    <3>1. MayLieOn(stack[i], stack[i - 1])
      BY <1>1, <2>2 DEF StackRight
    <3>2. QED
      BY <3>1 DEF MayLieOn
  <2>3. QED
    BY <2>1, <2>2
<1>4. QED
  BY <1>2, <1>3 DEF OverlayIInv, ServerRight, TypeOK

\* Whatever pages are opened, edited and left, whatever call fails and whichever
\* application comes: what the user set, and nothing else, is what the sysmodule
\* holds, and the kip once the pages are gone (the listeners of overlay/src/ui/gui
\* and ~MiscGui).
THEOREM EditsKeptHolds == Spec => []EditsKept
<1>1. Init => OverlayIInv
  BY InitRight
<1>2. OverlayIInv /\ [Next]_vars => OverlayIInv'
  BY StepRight
<1>3. OverlayIInv => EditsKept
  BY TypeFollows DEF OverlayIInv, EditsKept
<1>4. QED
  BY <1>1, <1>2, <1>3, PTL DEF Spec
===============================================================================
