------------------------------ MODULE Filters ------------------------------
(* The node filters of picker/filter.go: what each keeps, given the address  *)
(* of a node and the attributes the resolver put on it. A version is a       *)
(* sequence, so that it can have a prefix; the empty one is the empty string.*)
EXTENDS SequencesExt

CONSTANTS
    Absent,     \* an attribute, or all of them, is not there
    OtherType   \* an attribute of a type the filters do not know

\* attrs is Absent or a record [version, metadata, direct]; the last is for the
\* attributes under keys of the user's own, see Selectors.
HasVersion(attrs) == attrs # Absent /\ attrs.version # Absent
HasMetadata(attrs) == attrs # Absent /\ attrs.metadata \notin {Absent, OtherType}

\* A node that has no version counts as one whose version is empty.
VersionFilter(version, attrs) ==
    IF HasVersion(attrs) THEN attrs.version = version ELSE version = <<>>

VersionPrefixFilter(prefix, attrs) ==
    IF HasVersion(attrs)
    THEN attrs.version # OtherType /\ IsPrefix(prefix, attrs.version)
    ELSE prefix = <<>>

\* A map answers the empty string for a key it does not have.
ValueIn(map, key) == IF key \in DOMAIN map THEN map[key] ELSE <<>>

MetadataFilter(key, value, attrs) ==
    HasMetadata(attrs) /\ ValueIn(attrs.metadata, key) = value

MetadataExistsFilter(key, attrs) ==
    HasMetadata(attrs) /\ key \in DOMAIN attrs.metadata

\* A filter keeps a node; what a health checker says is the caller's to choose.
Keeps(f, addr, attrs, healthy) ==
    CASE f.kind = "version" -> VersionFilter(f.version, attrs)
      [] f.kind = "prefix" -> VersionPrefixFilter(f.version, attrs)
      [] f.kind = "metadata" -> MetadataFilter(f.key, f.value, attrs)
      [] f.kind = "exists" -> MetadataExistsFilter(f.key, attrs)
      [] f.kind = "address" -> addr \in f.addrs
      [] f.kind = "exclude" -> addr \notin f.addrs
      [] f.kind = "healthy" -> healthy
=============================================================================
