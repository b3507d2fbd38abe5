------------------------------ MODULE Ethernet ------------------------------
(***************************************************************************)
(* net/inet/eth_netif.c and net/inet/arp.c: nodes that send IP packets to  *)
(* each other over an Ethernet that loses, repeats and reorders frames.    *)
(* A packet whose destination is not in the cache of addresses is replaced *)
(* by an ARP request; whoever sends it has to try again.                   *)
(*                                                                         *)
(* A node stands for its MAC address as well as for its IP address, which  *)
(* it keeps.                                                               *)
(***************************************************************************)
EXTENDS Integers, FiniteSets

CONSTANTS
  Host, Senders,  \* hosts, and those whose applications send
  Broadcast,      \* the broadcast IP address and its MAC address ff:...:ff
  CacheSize,      \* ARP_CACHE_SIZE, a power of two
  MaxFrames       \* bound on the frames in flight

ASSUME EthernetAssumption ==
  Senders \subseteq Host /\ Broadcast \notin Host /\ CacheSize \in Nat \ {0} /\ MaxFrames \in Nat

VARIABLES
  arp_cache,      \* host -> entries [ip, mac]
  arp_index,      \* host -> the entry to be replaced next
  wire            \* frames under way to one host

netVars == <<arp_cache, arp_index, wire>>

Entries == 0 .. CacheSize - 1
NoHost == Broadcast   \* 0.0.0.0 in an entry never used: nobody looks it up

EthernetInit ==
  /\ arp_cache = [n \in Host |-> [i \in Entries |-> [ip |-> NoHost, mac |-> NoHost]]]
  /\ arp_index = [n \in Host |-> 0]
  /\ wire = {}

Holding(n, ip) == {i \in Entries : arp_cache[n][i].ip = ip}
Earliest(S) == CHOOSE i \in S : \A j \in S : i <= j

(* Copies of a frame for everyone its destination reaches.                  *)
Transmit(n, mac, body) ==
  /\ wire' = wire \cup {[to |-> to, mac |-> mac, from |-> n, body |-> body] :
                          to \in IF mac = Broadcast THEN Host \ {n} ELSE {mac} \ {n}}
  /\ Cardinality(wire') <= MaxFrames

Ip(dst) == [type |-> "ip", dst |-> dst]
Arp(op, sender_ha, sender_pa, target_pa) ==
  [type |-> op, sender_ha |-> sender_ha, sender_pa |-> sender_pa, target_pa |-> target_pa]

(* Broadcasts go out at once, the rest when the cache knows the address.    *)
eth_send(n, ip) ==
  /\ IF ip = Broadcast THEN Transmit(n, Broadcast, Ip(ip))
     ELSE IF Holding(n, ip) # {}
       THEN Transmit(n, arp_cache[n][Earliest(Holding(n, ip))].mac, Ip(ip))
       ELSE Transmit(n, Broadcast, Arp("request", n, n, ip))
  /\ UNCHANGED <<arp_cache, arp_index>>

(* slip: an answer always takes the next entry *)
UpdateAppends(n, ip, mac) ==
  /\ arp_cache' = [arp_cache EXCEPT ![n][arp_index[n]] = [ip |-> ip, mac |-> mac]]
  /\ arp_index' = [arp_index EXCEPT ![n] = (@ + 1) % CacheSize]

(* An answer replaces the entry of its sender, or else the next one in turn. *)
arp_update(n, ip, mac) ==
  IF Holding(n, ip) # {}
    THEN /\ arp_cache' = [arp_cache EXCEPT ![n][Earliest(Holding(n, ip))].mac = mac]
         /\ UNCHANGED arp_index
    ELSE /\ arp_cache' = [arp_cache EXCEPT ![n][arp_index[n]] = [ip |-> ip, mac |-> mac]]
         /\ arp_index' = [arp_index EXCEPT ![n] = (@ + 1) % CacheSize]

(* arp_reply turns the request into the answer in place.                    *)
arp_reply(n, f) == Arp("answer", n, n, f.body.sender_pa)

eth_recv(f) ==
  LET n == f.to IN
  \/ /\ f.body.type = "request" /\ f.body.target_pa = n
     /\ Transmit(n, f.from, arp_reply(n, f)) /\ UNCHANGED <<arp_cache, arp_index>>
  \/ /\ f.body.type = "answer"
     /\ arp_update(n, f.body.sender_pa, f.body.sender_ha) /\ UNCHANGED wire

Lose(f) == wire' = wire \ {f} /\ UNCHANGED <<arp_cache, arp_index>>

EthernetNext ==
  \/ \E n \in Senders : \E ip \in (Host \cup {Broadcast}) \ {n} : eth_send(n, ip)
  \/ \E f \in wire : eth_recv(f) \/ Lose(f)

EthernetSpec == EthernetInit /\ [][EthernetNext]_netVars

-----------------------------------------------------------------------------
(* A packet for one host only goes to that host, and no address is in the   *)
(* cache twice, so that no stale entry hides a newer one: whatever is lost, *)
(* repeated or overtaken, and whichever entries are replaced.               *)
PacketsGoToTheirHost ==
  /\ \A f \in wire : f.body.type = "ip" => f.body.dst \in {f.to, Broadcast}
  /\ \A n \in Host, ip \in Host : Cardinality(Holding(n, ip)) <= 1
=============================================================================
