-------------------------------- MODULE AdbAuth --------------------------------
(***************************************************************************)
(* How a device lets the host in: the keys of adb_auth_host.cpp, which are *)
(* files that outlive adb, and the CNXN and AUTH packets of adb.cpp, which *)
(* holds both ends: the host's, and under !HOST the device's. A device     *)
(* sends a token; the host signs it with one key after the other, and when *)
(* none is left it sends its public key, for the user of the device to     *)
(* accept.  A device whose auth_enabled is off asks for nothing: that is    *)
(* what adb.cpp sets (60); the adbd of a phone, which is not in this tree, *)
(* may have it on.                                                         *)
(*                                                                         *)
(* Not here: arithmetic on keys, and the Windows build, which has no       *)
(* authentication (NO_AUTH). A device that is plugged in again is a new    *)
(* transport.                                                              *)
(***************************************************************************)
EXTENDS Naturals, Sequences, SequencesExt

CONSTANTS
  User,        \* the key in .android/adbkey
  Vendor       \* the readable keys of ADB_VENDOR_KEYS, in order

AuthAssumption == Len(Vendor) > 0 /\ User \notin Range(Vendor)
Keys == {User} \cup Range(Vendor)
NoKey == "NULL"

VARIABLES
  adbkey,            \* the private key's file: "none", "bad" or "good"
  pubkey,            \* the public key's file is there
  weak,              \* keys RSA_sign fails with
  server,            \* adb runs
  key_list,
  key,               \* t->key of the transport, NoKey for NULL
  connection_state, online,
  device,            \* "gone", "closed", "asks" (its token waits for an answer), "confirm", "open"
  auth_enabled,      \* of the device
  trusts,            \* the keys the device knows
  up, down           \* packets to the host and to the device

hostVars == <<adbkey, pubkey, weak, server, key_list>>
transportVars == <<key, connection_state, online>>
authVars == <<hostVars, transportVars, device, auth_enabled, trusts, up, down>>

-----------------------------------------------------------------------------
(* The files. generate_key writes the private key and then the public one, *)
(* and may fail, or end with adb, after any of its steps: nothing is taken *)
(* back, and a file that is there is not written again.                    *)
Written ==
  {<<"none", pubkey>>, <<"bad", pubkey>>, <<"good", pubkey>>, <<"good", TRUE>>}

(* adb_auth_init: the user's key first; without it the vendor's are not    *)
(* read either.                                                            *)
FromFile(file) == IF file = "good" THEN <<User>> \o Vendor ELSE <<>>

adb_auth_init ==
  /\ ~server /\ server' = TRUE
  /\ \/ /\ adbkey = "none"
        /\ \E files \in Written :
             /\ adbkey' = files[1] /\ pubkey' = files[2]
             /\ key_list' = IF files = <<"good", TRUE>> THEN FromFile("good") ELSE <<>>
     \/ /\ adbkey # "none" /\ key_list' = FromFile(adbkey)
        /\ UNCHANGED <<adbkey, pubkey>>
  /\ UNCHANGED <<weak, transportVars, device, auth_enabled, trusts, up, down>>

(* adb ends; the device stays plugged in, and asks anew when adb is back.  *)
ServerEnds ==
  /\ server /\ server' = FALSE /\ key_list' = <<>>
  /\ key' = NoKey /\ connection_state' = "offline" /\ online' = FALSE
  /\ up' = <<>> /\ down' = <<>>
  /\ device' = IF device = "gone" THEN "gone" ELSE "closed"
  /\ UNCHANGED <<adbkey, pubkey, weak, auth_enabled, trusts>>

-----------------------------------------------------------------------------
(* A device is plugged in, or out. SYNC(1, token) comes back to the loop,  *)
(* which sends CNXN. (Its transport is AdbTransport's.)                    *)
Plug ==
  /\ server /\ device \in {"gone", "closed"} /\ down = <<>> /\ up = <<>>
  /\ device' = "closed" /\ down' = <<<<"CNXN", NoKey>>>>
  /\ UNCHANGED <<hostVars, transportVars, auth_enabled, trusts, up>>

(* SYNC(0,0): offline, and the next plug is another transport.             *)
Unplug ==
  /\ device # "gone" /\ device' = "gone"
  /\ key' = NoKey /\ connection_state' = "offline" /\ online' = FALSE
  /\ up' = <<>> /\ down' = <<>>
  /\ UNCHANGED <<hostVars, auth_enabled, trusts>>

-----------------------------------------------------------------------------
(* The device's end of handle_packet: a CNXN, a signature, a public key.   *)
(* Without auth_enabled a CNXN is answered with one.                       *)
Verifies(k) == k \in trusts

DeviceGets ==
  /\ down # <<>> /\ down' = Tail(down)
  /\ LET p == Head(down) IN
     \/ /\ p[1] = "CNXN" /\ ~auth_enabled
        /\ device' = "open" /\ up' = Append(up, <<"CNXN", NoKey>>)
     \/ /\ p[1] = "CNXN" /\ auth_enabled /\ device' = "asks" /\ up' = Append(up, <<"TOKEN", NoKey>>)
     \/ /\ p[1] = "SIGNATURE" /\ Verifies(p[2])
        /\ device' = "open" /\ up' = Append(up, <<"CNXN", NoKey>>)
     \/ /\ p[1] = "SIGNATURE" /\ ~Verifies(p[2])
        /\ UNCHANGED device /\ up' = Append(up, <<"TOKEN", NoKey>>)
     \/ p[1] = "RSAPUBLICKEY" /\ device' = "confirm" /\ UNCHANGED up
  /\ UNCHANGED <<hostVars, transportVars, auth_enabled, trusts>>

(* adb_auth_confirm_key: the user of the device accepts the key, or never. *)
Confirm ==
  /\ device = "confirm" /\ device' = "open"
  /\ trusts' = trusts \cup {User} /\ up' = Append(up, <<"CNXN", NoKey>>)
  /\ UNCHANGED <<hostVars, transportVars, auth_enabled, down>>

-----------------------------------------------------------------------------
(* adb_auth_nextkey: the key after this one, NULL after the last.          *)
adb_auth_nextkey(k) ==
  LET i == IF k = NoKey THEN 0 ELSE CHOOSE j \in DOMAIN key_list : key_list[j] = k
  IN IF i < Len(key_list) THEN key_list[i + 1] ELSE NoKey

(* send_auth_response and send_auth_publickey: what cannot be signed or    *)
(* read is not sent, and nothing is sent in its place.                     *)
send_auth_response(k) == IF k \in weak THEN <<>> ELSE <<<<"SIGNATURE", k>>>>
send_auth_publickey == IF pubkey THEN <<<<"RSAPUBLICKEY", NoKey>>>> ELSE <<>>

(* handle_packet of the host, for a token and for the CNXN of a device     *)
(* whose banner says what it is.                                           *)
Token ==
  /\ up # <<>> /\ Head(up)[1] = "TOKEN"
  /\ key' = adb_auth_nextkey(key)
  /\ down' = down \o (IF key' # NoKey THEN send_auth_response(key') ELSE send_auth_publickey)
  /\ up' = Tail(up)
  /\ UNCHANGED <<hostVars, connection_state, online, device, auth_enabled, trusts>>

Banners == {"bootloader", "device", "recovery", "sideload"}
parse_banner(type) == IF type \in Banners THEN type ELSE "host"

Cnxn ==
  /\ up # <<>> /\ Head(up)[1] = "CNXN" /\ up' = Tail(up)
  /\ \E type \in Banners \cup {"other"} : connection_state' = parse_banner(type)
  /\ online' = TRUE
  /\ UNCHANGED <<hostVars, key, device, auth_enabled, trusts, down>>

-----------------------------------------------------------------------------
Init ==
  /\ adbkey = "none" /\ pubkey = FALSE /\ server = FALSE /\ key_list = <<>>
  /\ weak \in {{}, {Vendor[Len(Vendor)]}}
  /\ key = NoKey /\ connection_state = "offline" /\ online = FALSE
  /\ device = "gone" /\ auth_enabled \in BOOLEAN /\ trusts \in SUBSET Keys
  /\ up = <<>> /\ down = <<>>

Handles == DeviceGets \/ Token \/ Cnxn
Next == adb_auth_init \/ ServerEnds \/ Plug \/ Unplug \/ Confirm \/ Handles

(* Packets arrive and are handled; nothing is asked of the user.           *)
Fairness == WF_authVars(Handles)

-----------------------------------------------------------------------------
Packets == {"CNXN", "TOKEN", "SIGNATURE", "RSAPUBLICKEY"} \X (Keys \cup {NoKey})

(* Every variable has its type.                                            *)
TypeOK ==
  /\ adbkey \in {"none", "bad", "good"} /\ pubkey \in BOOLEAN /\ server \in BOOLEAN
  /\ weak \subseteq Keys /\ Range(key_list) \subseteq Keys
  /\ key \in Range(key_list) \cup {NoKey}
  /\ connection_state \in Banners \cup {"offline", "host"} /\ online \in BOOLEAN
  /\ device \in {"gone", "closed", "asks", "confirm", "open"}
  /\ auth_enabled \in BOOLEAN /\ trusts \subseteq Keys
  /\ Range(up) \cup Range(down) \subseteq Packets

(* The host is online only with a device that has let it in, and one with  *)
(* auth_enabled only for a key of the host that it trusts; one packet at a *)
(* time is under way between the two.                                      *)
LetIn ==
  /\ online => device = "open"
  /\ online /\ auth_enabled => trusts \cap Range(key_list) # {}
  /\ online <=> connection_state # "offline"
  /\ Len(up) + Len(down) <= 1

(* The token of a device is answered: it opens when it trusts a key the    *)
(* host has, whatever keys come before that, and else it is shown the      *)
(* public key; unless the host has nothing to answer with, because a key   *)
(* does not sign or a generation that failed has left half of its files    *)
(* (they are never repaired) - or the device is pulled or adb ends first.  *)
Dumb == weak \cap Range(key_list) # {} \/ ~pubkey
Asks == device = "asks" /\ ~Dumb
Known == Asks /\ trusts \cap Range(key_list) # {}
Answered == device \in {"open", "confirm", "gone", "closed"}
Opened == online \/ device \in {"gone", "closed"}
TokenAnswered == Asks ~> Answered
KnownOpens == Known ~> Opened

=============================================================================
