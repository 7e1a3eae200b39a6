-------------------------- MODULE VersionRequirement --------------------------
(***************************************************************************)
(* DotnetConditionValidator: does an available version meet a request?     *)
(*                                                                         *)
(* A version is major.minor.third.  The third part of a runtime is its     *)
(* patch; the third part of an SDK is 100 * feature band + patch.  A       *)
(* request may leave the third part out ("8", "8.0") or give only the      *)
(* band ("7.0.3xx", SDKs only).  Numbers stand for their digits; a missing *)
(* part and the number 0 are one value here because the code tells them    *)
(* apart only by truthiness.                                               *)
(***************************************************************************)
EXTENDS Integers

Specs == {"equal", "disable", "greater_than_or_equal", "latestMajor",
          "less_than_or_equal", "latestPatch", "latestFeature"}
Forms == {"majorMinor", "band", "full"}
Modes == {"sdk", "runtime", "aspnetcore"}

Versions == [major : Nat, minor : Nat, third : Nat, preview : BOOLEAN]

\* A request.  The third part is 0 when the form has none and 100 * band for "band".
Requests == [mode : Modes, spec : Specs, form : Forms,
             major : Nat, minor : Nat, third : Nat, rejectPreviews : BOOLEAN]

\* The first digit of an SDK's three.
FeatureBand(third) == third \div 100

\* What `requestedPatch` holds; "7.0.3xx" gives 3, not 300.
RequestedPatch(q) ==
    IF q.form = "full" THEN q.third ELSE IF q.form = "band" THEN FeatureBand(q.third) ELSE 0

\* latestMajor and disable are other names.
AdjustedSpec(spec) ==
    IF spec = "latestMajor" THEN "greater_than_or_equal"
    ELSE IF spec = "disable" THEN "equal" ELSE spec

\* The band of an SDK must be the one requested, and a request without a band has none.
BandAgrees(v, q) ==
    q.mode = "sdk" => /\ q.form # "majorMinor"
                      /\ FeatureBand(v.third) = FeatureBand(q.third)

\* Same major and minor, and a third part was requested.
ThirdMeets(v, q) ==
    \/ AdjustedSpec(q.spec) = "equal" /\ v.third = RequestedPatch(q)
    \/ AdjustedSpec(q.spec) = "less_than_or_equal" /\ v.third <= RequestedPatch(q)
    \/ AdjustedSpec(q.spec) \in {"greater_than_or_equal", "latestFeature"} /\ v.third >= RequestedPatch(q)
    \/ q.spec = "latestPatch" /\ v.third >= RequestedPatch(q) /\ BandAgrees(v, q)

\* Same major, and either another minor or no third part to compare.
MinorMeets(v, q) ==
    \/ AdjustedSpec(q.spec) = "equal" /\ v.minor = q.minor
    \/ AdjustedSpec(q.spec) = "greater_than_or_equal" /\ v.minor >= q.minor
    \/ AdjustedSpec(q.spec) = "less_than_or_equal" /\ v.minor <= q.minor
    \/ q.spec \in {"latestPatch", "latestFeature"} /\ v.minor = q.minor /\ BandAgrees(v, q)

\* Mutant of MajorMeets: the requirements that stay in a major are not rejected.
MajorMeetsBelow(v, q) ==
    \/ AdjustedSpec(q.spec) = "greater_than_or_equal" /\ v.major >= q.major
    \/ AdjustedSpec(q.spec) # "greater_than_or_equal" /\ v.major <= q.major

\* Another major.
MajorMeets(v, q) ==
    \/ AdjustedSpec(q.spec) = "greater_than_or_equal" /\ v.major >= q.major
    \/ AdjustedSpec(q.spec) = "less_than_or_equal" /\ v.major <= q.major

\* stringVersionMeetsRequirement
VersionMeets(v, q) ==
    IF v.major # q.major THEN MajorMeets(v, q)
    ELSE IF v.minor = q.minor /\ RequestedPatch(q) # 0 THEN ThirdMeets(v, q)
    ELSE MinorMeets(v, q)

\* allowPreview
AllowPreview(v, q) == q.rejectPreviews => ~ v.preview

-----------------------------------------------------------------------------
(* The reference: versions are ordered part by part, and each requirement  *)
(* is a comparison in that order.                                          *)
(***************************************************************************)
Precedes(v, w) ==
    \/ v.major < w.major
    \/ v.major = w.major /\ v.minor < w.minor
    \/ v.major = w.major /\ v.minor = w.minor /\ v.third < w.third

Same(v, w) == v.major = w.major /\ v.minor = w.minor /\ v.third = w.third

\* What DotnetVersionSpecRequirement.ts says of a request that names every part.
InOrder(v, q) ==
    LET same == v.major = q.major /\ v.minor = q.minor IN
    \/ q.spec \in {"equal", "disable"} /\ Same(v, q)
    \/ q.spec \in {"greater_than_or_equal", "latestMajor"} /\ ~ Precedes(v, q)
    \/ q.spec = "less_than_or_equal" /\ ~ Precedes(q, v)
    \/ q.spec = "latestFeature" /\ same /\ v.third >= q.third
    \/ /\ q.spec = "latestPatch" /\ same /\ v.third >= q.third
       /\ q.mode = "sdk" => FeatureBand(v.third) = FeatureBand(q.third)

\* What the same file says of a request for a major and minor: only they are compared.
InMajorMinorOrder(v, q) ==
    \/ q.spec \in {"equal", "disable", "latestPatch", "latestFeature"} /\ v.major = q.major /\ v.minor = q.minor
    \/ /\ q.spec \in {"greater_than_or_equal", "latestMajor"}
       /\ v.major > q.major \/ (v.major = q.major /\ v.minor >= q.minor)
    \/ /\ q.spec = "less_than_or_equal"
       /\ v.major < q.major \/ (v.major = q.major /\ v.minor <= q.minor)
=============================================================================
