---------------------------- MODULE OsUtilFactory ----------------------------
(***************************************************************************)
(* azurelinuxagent/common/osutil/factory.py: _get_osutil chooses the OSUtil *)
(* class for the distribution the agent runs on from DISTRO_NAME,          *)
(* DISTRO_CODE_NAME, DISTRO_VERSION and DISTRO_FULL_NAME.                  *)
(*                                                                         *)
(* A version is the list of numeric fragments DistroVersion splits it into *)
(* ("8.6" is <<8, 6>>, "12.04" is <<12, 4>>); a Debian version naming sid  *)
(* is flagged, since the code tests the string before it parses it.  A    *)
(* class is its name.  The one call is made by a driver, once per input.  *)
(***************************************************************************)
EXTENDS Naturals, Sequences, TLC

CONSTANTS
  Distros,         \* the (name, code name, version, full name) inputs
  ClearLinuxNames  \* the full names that contain "Clear Linux"

\* DistroVersion comparison: fragment by fragment, and a version that is a
\* proper prefix of another is smaller ("7" < "7.11").
RECURSIVE VersionLess(_, _)
VersionLess(a, b) ==
  IF b = << >> THEN FALSE
  ELSE IF a = << >> THEN TRUE
  ELSE IF Head(a) # Head(b) THEN Head(a) < Head(b)
  ELSE VersionLess(Tail(a), Tail(b))

VersionAtLeast(a, b) == ~VersionLess(a, b)

\* Mutation: the ubuntu branch falls off its end and returns None.
ubuntu_osutil_nodefault(v, full) ==
  IF v \in {<<12, 4>>, <<12, 10>>} THEN "Ubuntu12OSUtil"
  ELSE IF v \in {<<14, 4>>, <<14, 10>>} THEN "Ubuntu14OSUtil"
  ELSE IF v \in {<<16, 4>>, <<16, 10>>, <<17, 4>>} THEN "Ubuntu16OSUtil"
  ELSE IF VersionAtLeast(v, <<18, 4>>) /\ VersionAtLeast(<<24, 4>>, v) THEN "Ubuntu18OSUtil"
  ELSE IF full = "Snappy Ubuntu Core" THEN "UbuntuSnappyOSUtil"
  ELSE "None"

\* The ubuntu branch: exact releases for 12, 14 and 16, then the range
\* 18.04 .. 24.04, then Snappy by full name, else the generic class.
ubuntu_osutil(v, full) ==
  IF v \in {<<12, 4>>, <<12, 10>>} THEN "Ubuntu12OSUtil"
  ELSE IF v \in {<<14, 4>>, <<14, 10>>} THEN "Ubuntu14OSUtil"
  ELSE IF v \in {<<16, 4>>, <<16, 10>>, <<17, 4>>} THEN "Ubuntu16OSUtil"
  ELSE IF VersionAtLeast(v, <<18, 4>>) /\ VersionAtLeast(<<24, 4>>, v) THEN "Ubuntu18OSUtil"
  ELSE IF full = "Snappy Ubuntu Core" THEN "UbuntuSnappyOSUtil"
  ELSE "UbuntuOSUtil"

SuseNames == {"suse", "sle-micro", "sle_hpc", "sles", "opensuse"}

\* SLES before 12 and openSUSE before 13.2 use SUSE11OSUtil.
suse_osutil(v, full) ==
  IF \/ full = "SUSE Linux Enterprise Server" /\ VersionLess(v, <<12>>)
     \/ full = "openSUSE" /\ VersionLess(v, <<13, 2>>)
  THEN "SUSE11OSUtil" ELSE "SUSEOSUtil"

\* "sid" in distro_version, or a version above "7".
debian_osutil(v, sid) ==
  IF sid \/ VersionLess(<<7>>, v) THEN "DebianOSModernUtil" ELSE "DebianOSBaseUtil"

\* Mutation: a name dropped from the Red Hat family tuple.
RedhatNamesNoRocky == {"redhat", "rhel", "centos", "oracle", "almalinux", "cloudlinux"}

RedhatNames == {"redhat", "rhel", "centos", "oracle", "almalinux", "cloudlinux", "rocky"}

\* Mutation: the classes of the two upper version ranges swapped.
redhat_osutil_swapped(v) ==
  IF VersionLess(v, <<7>>) THEN "Redhat6xOSUtil"
  ELSE IF VersionAtLeast(v, <<8, 6>>) THEN "RedhatOSUtil"
  ELSE "RedhatOSModernUtil"

\* Before 7: Redhat6xOSUtil; from 8.6: RedhatOSModernUtil; else RedhatOSUtil.
redhat_osutil(v) ==
  IF VersionLess(v, <<7>>) THEN "Redhat6xOSUtil"
  ELSE IF VersionAtLeast(v, <<8, 6>>) THEN "RedhatOSModernUtil"
  ELSE "RedhatOSUtil"

\* Distributions chosen by name alone, in the order the code tests them
\* after the Red Hat family.
NameOnlyUtil ==
  [n \in {"euleros", "uos"} |-> "RedhatOSUtil"] @@
  [n \in {"freebsd"} |-> "FreeBSDOSUtil"] @@ [n \in {"openbsd"} |-> "OpenBSDOSUtil"] @@
  [n \in {"bigip"} |-> "BigIpOSUtil"] @@ [n \in {"gaia"} |-> "GaiaOSUtil"] @@
  [n \in {"iosxe"} |-> "IosxeOSUtil"] @@
  [n \in {"mariner", "azurelinux"} |-> "MarinerOSUtil"] @@
  [n \in {"nsbsd"} |-> "NSBSDOSUtil"] @@ [n \in {"openwrt"} |-> "OpenWRTOSUtil"] @@
  [n \in {"fedora"} |-> "FedoraOSUtil"]

\* _get_osutil: the first test that holds decides; an unknown distribution
\* gets DefaultOSUtil (after a warning).
get_osutil(d) ==
  IF d.name = "photonos" THEN "PhotonOSUtil"
  ELSE IF d.name = "arch" THEN "ArchUtil"
  ELSE IF d.full \in ClearLinuxNames THEN "ClearLinuxUtil"
  ELSE IF d.name = "ubuntu" THEN ubuntu_osutil(d.version, d.full)
  ELSE IF d.name \in {"alpine", "alpaquita"} THEN "AlpineOSUtil"
  ELSE IF d.name = "chainguard" THEN "ChainguardOSUtil"
  ELSE IF d.name = "kali" THEN "DebianOSBaseUtil"
  ELSE IF d.name \in {"flatcar", "coreos"} \/ d.code \in {"flatcar", "coreos"} THEN "CoreOSUtil"
  ELSE IF d.name \in SuseNames THEN suse_osutil(d.version, d.full)
  ELSE IF d.name = "debian" THEN debian_osutil(d.version, d.sid)
  ELSE IF d.name = "devuan" /\ VersionAtLeast(d.version, <<4>>) THEN "DevuanOSUtil"
  ELSE IF d.name \in RedhatNames THEN redhat_osutil(d.version)
  ELSE IF d.name \in DOMAIN NameOnlyUtil THEN NameOnlyUtil[d.name]
  ELSE "DefaultOSUtil"

-----------------------------------------------------------------------------
VARIABLES
  distro,  \* the distribution the agent runs on
  osutil   \* the class get_osutil returned ("none" before the call)

vars == <<distro, osutil>>

Init == distro \in Distros /\ osutil = "none"

\* get_osutil() with the platform's DISTRO_* values.
GetOsutil ==
  /\ osutil = "none"
  /\ osutil' = get_osutil(distro)
  /\ UNCHANGED distro

Spec == Init /\ [][GetOsutil]_vars

-----------------------------------------------------------------------------
(* Properties                                                              *)

Classes == {"PhotonOSUtil", "ArchUtil", "ClearLinuxUtil", "Ubuntu12OSUtil",
            "Ubuntu14OSUtil", "Ubuntu16OSUtil", "Ubuntu18OSUtil", "UbuntuSnappyOSUtil",
            "UbuntuOSUtil", "AlpineOSUtil", "ChainguardOSUtil", "DebianOSBaseUtil",
            "DebianOSModernUtil", "CoreOSUtil", "SUSE11OSUtil", "SUSEOSUtil",
            "DevuanOSUtil", "Redhat6xOSUtil", "RedhatOSUtil", "RedhatOSModernUtil",
            "FreeBSDOSUtil", "OpenBSDOSUtil", "BigIpOSUtil", "GaiaOSUtil", "IosxeOSUtil",
            "MarinerOSUtil", "NSBSDOSUtil", "OpenWRTOSUtil", "FedoraOSUtil", "DefaultOSUtil"}

TypeOK == distro \in Distros /\ osutil \in Classes \cup {"none"}

\* The distributions of the families whose class depends on the version, and
\* the classes of each family.
Family == [redhat |-> {"redhat", "rhel", "centos", "oracle", "almalinux", "cloudlinux", "rocky"},
           suse   |-> {"suse", "sle-micro", "sle_hpc", "sles", "opensuse"},
           debian |-> {"debian"},
           ubuntu |-> {"ubuntu"}]
FamilyClasses ==
  [redhat |-> {"Redhat6xOSUtil", "RedhatOSUtil", "RedhatOSModernUtil"},
   suse   |-> {"SUSE11OSUtil", "SUSEOSUtil"},
   debian |-> {"DebianOSBaseUtil", "DebianOSModernUtil"},
   ubuntu |-> {"Ubuntu12OSUtil", "Ubuntu14OSUtil", "Ubuntu16OSUtil", "Ubuntu18OSUtil",
               "UbuntuSnappyOSUtil", "UbuntuOSUtil"}]

\* Unless an override the code tests first applies (a "Clear Linux" full
\* name, a flatcar/coreos code name), a distribution of a version-dependent
\* family gets a class of that family at every version: no name of the family
\* is shadowed by an earlier test or falls through to DefaultOSUtil.
FamilyPreserved ==
  osutil # "none" /\ distro.full \notin ClearLinuxNames /\ distro.code \notin {"flatcar", "coreos"} =>
    \A f \in DOMAIN Family : distro.name \in Family[f] => osutil \in FamilyClasses[f]

\* The generations of the Red Hat, SUSE and Debian classes, oldest first.
Generation == [c \in {"Redhat6xOSUtil", "SUSE11OSUtil", "DebianOSBaseUtil"} |-> 1] @@
              [c \in {"RedhatOSUtil", "SUSEOSUtil", "DebianOSModernUtil"} |-> 2] @@
              [c \in {"RedhatOSModernUtil"} |-> 3]

\* For the same distribution and full name, a later version never gets an
\* older generation of class than an earlier one: the version ranges of the
\* Red Hat, SUSE and Debian branches are ordered by DistroVersion.
VersionMonotone ==
  osutil \in DOMAIN Generation =>
    \A e \in Distros :
      /\ e.name = distro.name /\ e.code = distro.code /\ e.full = distro.full
      /\ e.sid = distro.sid /\ VersionLess(distro.version, e.version)
      /\ get_osutil(e) \in DOMAIN Generation
      => Generation[osutil] <= Generation[get_osutil(e)]
=============================================================================
