--------------------------- MODULE MCOsUtilFactory ---------------------------
(* Inputs for model checking OsUtilFactory: every name the factory tests    *)
(* and one it does not, every full name and code name it tests, and        *)
(* versions on both sides of each version bound of the code.              *)
EXTENDS OsUtilFactory

VersionedNames == {"ubuntu", "debian", "devuan", "suse", "sles", "opensuse", "sle-micro",
                   "sle_hpc", "redhat", "rhel", "centos", "oracle", "almalinux",
                   "cloudlinux", "rocky"}
OtherNames == {"photonos", "arch", "alpine", "alpaquita", "chainguard", "kali", "flatcar",
               "coreos", "euleros", "uos", "freebsd", "openbsd", "bigip", "gaia", "iosxe",
               "mariner", "azurelinux", "nsbsd", "openwrt", "fedora", "gentoo"}

Versions == {<<3>>, <<4>>, <<6, 10>>, <<7>>, <<7, 0>>, <<7, 11>>, <<8>>, <<8, 5>>, <<8, 6>>,
             <<8, 10>>, <<11, 4>>, <<12>>, <<12, 4>>, <<13, 1>>, <<13, 2>>, <<14, 10>>,
             <<16, 4>>, <<17, 4>>, <<17, 10>>, <<18, 4>>, <<24, 4>>, <<24, 10>>}
FullNames == {"Other", "Clear Linux OS", "Snappy Ubuntu Core",
              "SUSE Linux Enterprise Server", "openSUSE"}

Distro(n, c, v, f, s) == [name |-> n, code |-> c, version |-> v, full |-> f, sid |-> s]

MCDistros ==
  {Distro(n, c, v, f, FALSE) : n \in VersionedNames, c \in {"none", "coreos"},
                               v \in Versions, f \in FullNames}
  \cup {Distro("debian", "none", v, "Other", TRUE) : v \in {<<10>>, << >>}}
  \cup {Distro(n, c, <<1>>, f, FALSE) : n \in OtherNames, c \in {"none", "flatcar"},
                                       f \in {"Other", "Clear Linux OS"}}

MCClearLinuxNames == {"Clear Linux OS"}
=============================================================================
