---------------------- MODULE VersionRequirement_proofs ----------------------
(***************************************************************************)
(* When stringVersionMeetsRequirement is the comparison its documentation  *)
(* describes, and when it is not.                                          *)
(***************************************************************************)
EXTENDS VersionRequirement, TLAPS

LEMMA FullPatch ==
    ASSUME NEW q \in Requests, q.form = "full"
    PROVE  RequestedPatch(q) = q.third
BY DEF RequestedPatch

\* A request that names major, minor and a third part other than 0 is compared
\* part by part: the nested comparisons of stringVersionMeetsRequirement are the
\* order of versions.
THEOREM FullRequestsInOrder ==
    ASSUME NEW v \in Versions, NEW q \in Requests, q.form = "full", q.third # 0
    PROVE  VersionMeets(v, q) <=> InOrder(v, q)
<1> USE DEF Versions, Requests, AdjustedSpec
<1>1. RequestedPatch(q) = q.third /\ RequestedPatch(q) # 0
  BY FullPatch
<1>2. CASE v.major # q.major
  <2>1. VersionMeets(v, q) <=> MajorMeets(v, q)
    BY <1>2 DEF VersionMeets
  <2>2. InOrder(v, q) <=> MajorMeets(v, q)
    BY <1>2 DEF InOrder, MajorMeets, Precedes, Same, Specs
  <2> QED BY <2>1, <2>2
<1>3. CASE v.major = q.major /\ v.minor # q.minor
  <2>1. VersionMeets(v, q) <=> MinorMeets(v, q)
    BY <1>3 DEF VersionMeets
  <2>2. InOrder(v, q) <=> MinorMeets(v, q)
    BY <1>3 DEF InOrder, MinorMeets, Precedes, Same, Specs
  <2> QED BY <2>1, <2>2
<1>4. CASE v.major = q.major /\ v.minor = q.minor
  <2>1. VersionMeets(v, q) <=> ThirdMeets(v, q)
    BY <1>1, <1>4 DEF VersionMeets
  <2>2. BandAgrees(v, q) <=> (q.mode = "sdk" => FeatureBand(v.third) = FeatureBand(q.third))
    BY DEF BandAgrees
  <2>3. InOrder(v, q) <=> ThirdMeets(v, q)
    BY <1>1, <1>4, <2>2 DEF InOrder, ThirdMeets, Precedes, Same, Specs
  <2> QED BY <2>1, <2>3
<1> QED BY <1>2, <1>3, <1>4

\* Under disable or equal a full request is met by the same version only, as the tests of
\* disable say; but a request whose third part is 0 is met by every version of its major
\* and minor, and that is the only way to meet one with another version.
THEOREM ExactButForZero ==
    ASSUME NEW v \in Versions, NEW q \in Requests, q.form = "full",
           q.spec \in {"disable", "equal"}
    PROVE  /\ q.third # 0 => (VersionMeets(v, q) <=> Same(v, q))
           /\ q.third = 0 => (VersionMeets(v, q) <=> v.major = q.major /\ v.minor = q.minor)
<1>1. ASSUME q.third # 0 PROVE VersionMeets(v, q) <=> Same(v, q)
  <2>1. InOrder(v, q) <=> Same(v, q)
    BY DEF InOrder
  <2> QED BY <1>1, <2>1, FullRequestsInOrder
<1>2. ASSUME q.third = 0
      PROVE  VersionMeets(v, q) <=> v.major = q.major /\ v.minor = q.minor
  <2>1. RequestedPatch(q) = 0
    BY <1>2, FullPatch
  <2> QED BY <2>1 DEF VersionMeets, MajorMeets, MinorMeets, AdjustedSpec
<1> QED BY <1>1, <1>2

\* A request for a major and minor compares only them, for runtimes.
THEOREM MajorMinorRequestsInOrder ==
    ASSUME NEW v \in Versions, NEW q \in Requests, q.form = "majorMinor",
           q.mode # "sdk" \/ q.spec \notin {"latestPatch", "latestFeature"}
    PROVE  VersionMeets(v, q) <=> InMajorMinorOrder(v, q)
<1> USE DEF Versions, Requests, AdjustedSpec
<1>1. RequestedPatch(q) = 0
  BY DEF RequestedPatch
<1>2. CASE v.major # q.major
  BY <1>2 DEF VersionMeets, MajorMeets, InMajorMinorOrder, Specs
<1>3. CASE v.major = q.major
  <2>1. VersionMeets(v, q) <=> MinorMeets(v, q)
    BY <1>1, <1>3 DEF VersionMeets
  <2>2. q.spec \in {"latestPatch", "latestFeature"} => BandAgrees(v, q)
    BY DEF BandAgrees
  <2>3. MinorMeets(v, q) <=> InMajorMinorOrder(v, q)
    BY <1>3, <2>2 DEF MinorMeets, InMajorMinorOrder, Specs
  <2> QED BY <2>1, <2>3
<1> QED BY <1>2, <1>3

\* No SDK at all meets latestPatch or latestFeature for a request such as "8.0":
\* the band of the SDK is compared with the band the request does not have.
THEOREM BandlessRollForwardNeverMet ==
    ASSUME NEW v \in Versions, NEW q \in Requests, q.form = "majorMinor", q.mode = "sdk",
           q.spec \in {"latestPatch", "latestFeature"}
    PROVE  ~ VersionMeets(v, q)
BY DEF VersionMeets, RequestedPatch, MajorMeets, MinorMeets, BandAgrees, AdjustedSpec
=============================================================================
