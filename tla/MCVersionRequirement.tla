------------------------- MODULE MCVersionRequirement -------------------------
\* Every question stringVersionMeetsRequirement can be asked about small numbers.
EXTENDS VersionRequirement

CONSTANTS Majors, Minors, Patches

VARIABLES version, request

Init ==
    /\ version \in [major : Majors, minor : Minors, third : Patches, preview : {FALSE}]
    /\ request \in [mode : {"runtime"}, spec : Specs, form : {"full"}, major : Majors,
                    minor : Minors, third : Patches, rejectPreviews : {FALSE}]

\* Another version is asked about.
Next ==
    /\ version' \in [major : Majors, minor : Minors, third : Patches, preview : {FALSE}]
    /\ UNCHANGED request

Spec == Init /\ [][Next]_<<version, request>>

\* What the tests 'disable does not allow upgrade' and 'disable only takes the exact match
\* runtime' say of stringVersionMeetsRequirement: a version meets a fully specified
\* request under disable exactly if it is the same version.
DisableIsExact ==
    request.spec = "disable" => (VersionMeets(version, request) <=> Same(version, request))
=============================================================================
