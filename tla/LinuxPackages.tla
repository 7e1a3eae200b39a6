---------------------------- MODULE LinuxPackages ----------------------------
(***************************************************************************)
(* LinuxVersionResolver and GenericDistroSDKProvider: SDKs from the        *)
(* package manager of a distribution.  One package holds the SDK of a      *)
(* major.minor; its feed, the distribution's own or Microsoft's, offers    *)
(* one patch of it.                                                        *)
(*                                                                         *)
(* A distro is a record: packaged, the major.minors it has packages for;   *)
(* feed, "Distro" or "Microsoft"; otherFeed, the directory of the other    *)
(* feed exists; custom, dotnet on the PATH is neither feed's; offers, the  *)
(* SDKs its packages hold.                                                 *)
(***************************************************************************)
EXTENDS VersionResolution

\* getDotnetVersionSupportStatus
SupportStatus(distro, v) ==
    CASE v.band # 1 \/ v.major < 6 -> "Unsupported"
      [] v.band = 1 /\ v.major >= 6 /\ <<v.major, v.minor>> \in distro.packaged -> distro.feed
      [] v.band = 1 /\ v.major >= 6 /\ <<v.major, v.minor>> \notin distro.packaged -> "Unknown"

IsDotnetVersionSupported(distro, v) == SupportStatus(distro, v) \in {"Distro", "Microsoft"}

\* VerifyNoConflictInstallTypeExists and VerifyNoCustomInstallExists
Rejected(distro, sdks, v) ==
    \/ ~IsDotnetVersionSupported(distro, v)
    \/ distro.otherFeed
    \/ distro.custom /\ sdks # {}

OlderSdk(v, w) ==
    \/ v.major < w.major
    \/ v.major = w.major /\ v.minor < w.minor
    \/ SameMajorMinor(v, w) /\ (v.band < w.band \/ (v.band = w.band /\ v.patch < w.patch))

\* getInstalledGlobalDotnetVersionIfExists: dotnet --version is the newest SDK.
InstalledVersion(sdks) == {w \in sdks : \A u \in sdks : ~ OlderSdk(w, u)}

OfMajorMinor(sdks, v) == {w \in sdks : SameMajorMinor(v, w)}

\* The package manager puts what it offers in the place of what is there.
Upgraded(distro, sdks, v) == (sdks \ OfMajorMinor(sdks, v)) \cup OfMajorMinor(distro.offers, v)

Ends(result, machine) == [result |-> result, sdks |-> machine]

\* upgradeDotnet: any status but 0 ends as an error.
Upgrade(distro, sdks, v) == {Ends("ok", Upgraded(distro, sdks, v)), Ends("failed", sdks)}

\* installDotnet, whose status is a string that is never empty: always ok.
InstallPackage(distro, sdks, v) == {Ends("ok", Upgraded(distro, sdks, v)), Ends("ok", sdks)}

\* UpdateOrRejectIfVersionRequestDoesNotRequireInstall, for an SDK w of the same
\* major.minor.  The search for the package of w may fail; a patch is compared
\* without its band.
UpdateOrReject(distro, sdks, v, w) ==
    IF v.band < w.band
    THEN {Ends("thrown", sdks)}
    ELSE Upgrade(distro, sdks, v)
         \cup (IF w.patch < v.patch THEN {} ELSE {Ends("ok", sdks)})

\* ValidateAndInstallSDK
ValidateAndInstallSDK(distro, sdks, v) ==
    LET installed == OfMajorMinor(InstalledVersion(sdks), v) IN
    IF Rejected(distro, sdks, v) THEN {Ends("thrown", sdks)}
    ELSE IF installed = {} THEN InstallPackage(distro, sdks, v)
    ELSE UNION {UpdateOrReject(distro, sdks, v, w) : w \in installed}

\* uninstallDotnet removes the package, and with it every SDK of the major.minor.
UninstallSDK(sdks, v) ==
    {Ends("ok", sdks \ OfMajorMinor(sdks, v)), Ends("failed", sdks)}

\* getRecommendedDotnetVersion: the newest major.minor with a package, as a request.
RecommendedPackage(distro) ==
    {ForPackageManager([form |-> "majorMinor", major |-> p[1], minor |-> p[2]]) :
        p \in {a \in distro.packaged : \A b \in distro.packaged :
                 b[1] < a[1] \/ (b[1] = a[1] /\ b[2] <= a[2])}}
=============================================================================
