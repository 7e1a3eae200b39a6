-------------------------- MODULE VersionResolution --------------------------
(***************************************************************************)
(* From a request for an SDK to one version and its installer:             *)
(* GlobalInstallerResolver, VersionResolver and the parts of               *)
(* VersionUtilities they use.                                              *)
(*                                                                         *)
(* An SDK version is major.minor and three digits, a feature band and a    *)
(* patch in it.  The releases index of a major.minor has the newest SDK    *)
(* and the releases, newest first, each with its SDKs in an order of its   *)
(* own; an SDK has installer files for runtime identifiers.                *)
(***************************************************************************)
EXTENDS Integers, Sequences

SdkVersions == [major : Nat, minor : Nat, band : 1..9, patch : 0..99]

\* getMajorMinor: a bare major has minor 0.
MajorMinor(q) == <<q.major, IF q.form = "major" THEN 0 ELSE q.minor>>

SameMajorMinor(v, w) == v.major = w.major /\ v.minor = w.minor

\* getFeatureBandFromVersion
SameBand(v, w) == SameMajorMinor(v, w) /\ v.band = w.band

\* The part of an index a band is looked up in: the SDKs of its first release.
FirstRelease(index) == IF index.releases = <<>> THEN <<>> ELSE index.releases[1]

OfBand(index, q) == {i \in DOMAIN FirstRelease(index) : FirstRelease(index)[i].version.band = q.band}

\* Mutant of NewestOfBand: the last SDK of the band.
LastOfBand(index, q) ==
    {FirstRelease(index)[i].version :
        i \in {n \in OfBand(index, q) : \A l \in OfBand(index, q) : l <= n}}

\* getNewestSpecificVersionFromFeatureBand: the first SDK of the band.
NewestOfBand(index, q) ==
    {FirstRelease(index)[i].version :
        i \in {n \in OfBand(index, q) : \A l \in OfBand(index, q) : n <= l}}

\* routeRequestToProperVersionRequestType: no version for an error.
Resolved(index, q) ==
    CASE q.form \in {"major", "majorMinor"} -> index.latestSdk
      [] q.form = "band" -> NewestOfBand(index, q)
      [] q.form = "full" -> {q.version}
      [] q.form = "other" -> {}

\* The SDKs of all releases with this version.  The first of them decides.
Listed(index, v) ==
    {p \in (DOMAIN index.releases) \X (1..9) :
        p[2] \in DOMAIN index.releases[p[1]] /\ index.releases[p[1]][p[2]].version = v}

FirstListed(index, v) ==
    {index.releases[p[1]][p[2]] : p \in {a \in Listed(index, v) :
        \A b \in Listed(index, v) : a[1] < b[1] \/ (a[1] = b[1] /\ a[2] <= b[2])}}

\* installerMatchesDesiredFileExtension and the runtime identifier of the machine.
FilesFor(sdk, rid, extension) ==
    {f \in DOMAIN sdk.files : sdk.files[f].rid = rid /\ sdk.files[f].extension = extension}

\* findCorrectInstallerUrlAndHash: the first file that fits decides, and it needs
\* a url on one of four hosts.  Its hash may be missing ("").
Installer(index, v, rid, extension) ==
    UNION {{sdk.files[f] : f \in {n \in FilesFor(sdk, rid, extension) :
                                    /\ \A l \in FilesFor(sdk, rid, extension) : n <= l
                                    /\ sdk.files[n].host = "trusted"}} :
           sdk \in FirstListed(index, v)}

-----------------------------------------------------------------------------
(***************************************************************************)
(* VersionResolver, for local installs: releases-index.json has one entry  *)
(* per channel with its newest runtime.                                    *)
(***************************************************************************)

\* GetAvailableDotnetVersions lists the released channels only.
Available(entries) == {n \in DOMAIN entries : entries[n].type \in {"lts", "sts"}}

Earliest(numbers) == {n \in numbers : \A m \in numbers : n <= m}

\* resolveVersion: the version itself if it is the newest of a channel, else the
\* newest of the channel with that name, else an error.
FullVersion(entries, asked) ==
    LET exact == {n \in Available(entries) : entries[n].latest = asked}
        channel == {n \in Available(entries) : entries[n].channel = asked} IN
    {entries[n].latest : n \in Earliest(IF exact # {} THEN exact ELSE channel)}

\* dotnet.recommendedVersion: the first channel in active support, else the first.
Recommended(entries) ==
    LET active == {n \in Available(entries) : entries[n].phase = "active"} IN
    {entries[n].latest : n \in Earliest(IF active # {} THEN active ELSE Available(entries))}

\* convertToLinuxPackageManagerSupportedVersion: distributions have the 1xx band.
ForPackageManager(q) ==
    IF q.form \in {"major", "majorMinor"}
    THEN [form |-> "band", major |-> q.major, minor |-> MajorMinor(q)[2], band |-> 1]
    ELSE q

-----------------------------------------------------------------------------
\* Mutant of Conflicting: only the SDK itself conflicts.
ConflictingSame(installed, v) == installed \cap {v}

\* GlobalWindowsInstallWithConflictingVersionAlreadyExists: SDKs of the same band
\* and at least the requested patch, one of which is reported.
Conflicting(installed, v) == {w \in installed : SameBand(v, w) /\ v.patch <= w.patch}

\* A release lists the SDKs of a band newest first, as the comment in
\* getNewestSpecificVersionFromFeatureBand expects.
InOrder(index) == \A i, l \in DOMAIN FirstRelease(index) :
    i < l /\ FirstRelease(index)[i].version.band = FirstRelease(index)[l].version.band =>
        FirstRelease(index)[l].version.patch <= FirstRelease(index)[i].version.patch
=============================================================================
