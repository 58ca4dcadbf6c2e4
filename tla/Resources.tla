----------------------------- MODULE Resources -----------------------------
(***************************************************************************)
(* The resource tree and the compatibility of claims on it                 *)
(* (src/src/bureau/legacy.py).  A task declares claims [resource, mode,    *)
(* amount]; a claim conflicts with a held one when the resources overlap   *)
(* in the tree and the modes exclude each other, or when it would exhaust  *)
(* a capacity resource.                                                    *)
(***************************************************************************)
EXTENDS Integers, FiniteSets, FiniteSetsExt

CONSTANTS
    Resource,      \* identifiers of registry resources
    Parent,        \* Parent[x]: the parent of x, or NoResource
    NoResource,
    Capacity,      \* Capacity[x]: the declared capacity, 0 when there is none
    Retired        \* retired coordination-only resources: only read claims

Mode == {"read", "write", "exclusive", "capacity", "write-blocker"}

ClaimType == [resource : Resource, mode : Mode, amount : Nat]

ASSUME ResourceAssumption ==
    /\ NoResource \notin Resource
    /\ Parent \in [Resource -> Resource \cup {NoResource}]
    /\ Capacity \in [Resource -> Nat]
    /\ Retired \subseteq Resource

-----------------------------------------------------------------------------

\* One turn of the loop of ancestors(): the chain grows by the parent of its
\* last element, and stops at a root or at a parent it has already seen.
Climb(seen) ==
    seen \cup {p \in Resource \ seen : \E x \in seen : Parent[x] = p}

\* The loop unrolled: more turns than there are resources add nothing.
AncestorsOrSelf[n \in Nat, S \in SUBSET Resource] ==
    IF n = 0 THEN S ELSE AncestorsOrSelf[n - 1, Climb(S)]

\* Registry validation rejects parent cycles, so x is never its own ancestor.
ancestors(x) == AncestorsOrSelf[Cardinality(Resource), {x}] \ {x}

\* Mutant: only a claim above the held resource is seen to overlap.
overlaps_one_way(left, right) ==
    left = right \/ left \in ancestors(right)

overlaps(left, right) ==
    \/ left = right
    \/ left \in ancestors(right)
    \/ right \in ancestors(left)

modes_conflict(left, right) ==
    LET both == {left, right}
    IN  IF "exclusive" \in both THEN TRUE
        ELSE IF "write-blocker" \in both THEN "write" \in both
        ELSE IF both \in {{"read"}, {"capacity"}, {"capacity", "read"}} THEN FALSE
        ELSE "write" \in both \/ left # right

\* Registry._resource_cycles: nothing is reachable from itself.
resource_cycles ==
    {x \in Resource : Parent[x] \in Resource
                      /\ x \in AncestorsOrSelf[Cardinality(Resource), {Parent[x]}]}

-----------------------------------------------------------------------------

\* claim_resource_lifecycle_reasons: a retired resource only admits readers.
lifecycle_blocked(claim) ==
    claim.resource \in Retired /\ claim.mode # "read"

\* Two claims of different runs that may not be held together.
excludes(claim, held) ==
    /\ overlaps(claim.resource, held.resource)
    /\ modes_conflict(claim.mode, held.mode)

\* The capacity of x used by the reservations held, a function from runs to
\* the sets of claims they hold.
capacity_used(x, held) ==
    MapThenSumSet(
        LAMBDA r : MapThenSumSet(LAMBDA c : c.amount,
                       {c \in held[r] : c.resource = x /\ c.mode = "capacity"}),
        DOMAIN held)

\* Mutant: the amount asked for is not added to what is used.
capacity_exceeded_before(claim, held) ==
    /\ claim.mode = "capacity"
    /\ \/ Capacity[claim.resource] = 0
       \/ capacity_used(claim.resource, held) >= Capacity[claim.resource]

capacity_exceeded(claim, held) ==
    /\ claim.mode = "capacity"
    /\ \/ Capacity[claim.resource] = 0
       \/ capacity_used(claim.resource, held) + claim.amount > Capacity[claim.resource]

\* claim_conflicts returns a list of reasons; the callers only ask whether it
\* is empty.
claim_conflicts(claim, held) ==
    \/ lifecycle_blocked(claim)
    \/ \E r \in DOMAIN held : \E c \in held[r] : excludes(claim, c)
    \/ capacity_exceeded(claim, held)

=============================================================================
