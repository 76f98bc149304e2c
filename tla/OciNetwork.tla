----------------------------- MODULE OciNetwork -----------------------------
(***************************************************************************)
(* The part of Oracle Cloud the network service talks to: VCNs, the        *)
(* internet gateways, security lists and subnets inside them, and the      *)
(* default route table of each VCN.  The service is external; its rules    *)
(* are those the code relies on and documents (network.go: an internet     *)
(* gateway named by a route rule, and a VCN with dependents, cannot be     *)
(* deleted).  The wrappers of internal/service/oci.go add nothing but      *)
(* error wrapping and the waits after a creation.                          *)
(*                                                                         *)
(* A subnet whose deletion OCI has accepted is TERMINATING for a while and *)
(* still refers to its security lists and its VCN.  The other deletions    *)
(* are done when the call returns: the code, which waits for a subnet      *)
(* only, counts on it.                                                     *)
(***************************************************************************)
EXTENDS Naturals

CONSTANT MaxGen     \* bound: resources ever created of each type, as if by
                    \* the service limit of the tenancy

ASSUME GenAssumption == MaxGen \in Nat \ {0}

VARIABLES
  live,     \* resources that exist
  routes,   \* internet gateways named by a rule of their VCN's route table
  made,     \* how many resources of each type were created
  ending    \* subnets that are TERMINATING: no longer in live

solid == <<live, routes, made>>
cloud == <<live, routes, made, ending>>

Type == {"vcn", "igw", "security_list", "subnet"}

\* A resource: its type, a serial number, the serial number of its VCN.
OCID == {o \in [type : Type, n : 1..MaxGen, vcn : 1..MaxGen] :
           o.type = "vcn" => o.vcn = o.n}

NoOCID == [type |-> "none", n |-> 0, vcn |-> 0]

CloudOK ==
  /\ live \subseteq OCID
  /\ routes \subseteq OCID
  /\ made \in [Type -> 0..MaxGen]
  /\ ending \subseteq OCID

CloudInit ==
  /\ live = {}
  /\ routes = {}
  /\ made = [t \in Type |-> 0]
  /\ ending = {}

Children(v) == {o \in live : o.type # "vcn" /\ o.vcn = v.vcn}

Managed(t, v) == {o \in Children(v) : o.type = t}

Ending(v) == {o \in ending : o.vcn = v.vcn}

Rules(v) == {r \in routes : r.vcn = v.vcn}

\* The resource a creation in VCN v would return.
Fresh(t, v) == [type |-> t, n |-> made[t] + 1,
                vcn |-> IF t = "vcn" THEN made[t] + 1 ELSE v.vcn]

\* A VCN has room for one internet gateway.
Creatable(t, v) ==
  /\ made[t] < MaxGen
  /\ t # "vcn" => v \in live
  /\ t = "igw" => Managed("igw", v) = {}

InUse(o) ==
  \/ o.type = "vcn" /\ Children(o) \cup Ending(o) # {}
  \/ o.type = "igw" /\ o \in routes
  \/ o.type = "security_list" /\ Managed("subnet", o) \cup Ending(o) # {}

Deletable(o) == o \in live /\ ~InUse(o)

Created(o) ==
  /\ live' = live \cup {o}
  /\ made' = [made EXCEPT ![o.type] = @ + 1]
  /\ UNCHANGED <<routes, ending>>

\* OCI accepts the deletion of o.
Deleted(o) ==
  /\ live' = live \ {o}
  /\ ending' = IF o.type = "subnet" THEN ending \cup {o} ELSE ending
  /\ UNCHANGED <<routes, made>>

\* A TERMINATING subnet is TERMINATED.
SubnetEnded(o) ==
  /\ o \in ending
  /\ ending' = ending \ {o}
  /\ UNCHANGED solid

\* UpdateRouteTable replaces the whole table.
RoutesSet(v, rules) ==
  /\ routes' = (routes \ Rules(v)) \cup rules
  /\ UNCHANGED <<live, made, ending>>

=============================================================================
