------------------------- MODULE XdpPipelineProofs -------------------------
(***************************************************************************)
(* Proofs about XdpPipeline for any CPUs, packets, rules and requests: the *)
(* types, that the verdict of a packet is what the rules say although they *)
(* are looked up one by one while the API changes others, and that no rate *)
(* is reported that the packets received do not account for.               *)
(***************************************************************************)
EXTENDS XdpPipeline, FiniteSetTheorems, TLAPS

USE XdpPipelineAssumption

CpuStates == [at : Label, pkt : Packet \cup {NoPacket},
              elem : Elem \cup {NoElem}]

\* The parts of TypeOK: the map of rules, the CPUs, and the rest.
RulesTypes ==
  /\ slot \in [Elem -> [key : Key, action : {"drop", "pass"}]]
  /\ linked \subseteq Elem
  /\ \A d, e \in linked : slot[d].key = slot[e].key => d = e

CpuTypes ==
  /\ cpu \in [CPU -> CpuStates]
  /\ \A c \in CPU : At(c, "idle") <=> cpu[c].pkt = NoPacket
  /\ \A c \in CPU : cpu[c].at \in {"srcAct", "dstAct"} => cpu[c].elem # NoElem

RestTypes ==
  /\ count \in [CPU -> Nat]
  /\ sent \in 0 .. MaxPackets
  /\ requests \in 0 .. MaxRequests
  /\ monitor \in [at : {"sleep", "read"}, left : SUBSET CPU, sum : Nat,
                  ok : BOOLEAN]
  /\ prev \in Nat
  /\ reports \in 0 .. MaxReports
  /\ monitor.at = "read" => reports < MaxReports
  /\ settled \subseteq CPU
  /\ since \in [last : 0 .. sent, this : 0 .. sent]

LEMMA TypeParts == TypeOK <=> RulesTypes /\ CpuTypes /\ RestTypes
  BY DEF TypeOK, RulesTypes, CpuTypes, RestTypes, CpuStates

LEMMA TypePartsNext == RulesTypes' /\ CpuTypes' /\ RestTypes' => TypeOK'
  BY DEF TypeOK, RulesTypes, CpuTypes, RestTypes, CpuStates

\* A rule that is posted has a key of the map.
LEMMA RuleKeyType ==
  ASSUME NEW r \in Request PROVE RuleKey(r.ip, r.port, r.proto) \in Key
  <1>1. r.port \in Int /\ r.port % U16 \in Port
    BY DEF Port
  <1> QED
    BY <1>1 DEF RuleKey, Exact, Key

LEMMA TypeInit == Init => TypeOK
  <1> SUFFICES ASSUME Init PROVE TypeOK
    OBVIOUS
  <1>1. [ip |-> Nowhere, port |-> 0, proto |-> OtherProto] \in Key
    BY DEF Key, Port
  <1>2. RulesTypes
    BY <1>1 DEF Init, RulesTypes
  <1>3. CpuTypes
    BY DEF Init, CpuTypes, CpuStates, Idle, Label, At
  <1>4. RestTypes
    BY DEF Init, RestTypes
  <1> QED
    BY <1>2, <1>3, <1>4, TypeParts

\* A request keeps the map well-formed, with one rule for a key.
LEMMA TypePost ==
  ASSUME TypeOK, NEW key \in Key, NEW action \in {"drop", "pass"},
         PostRule(key, action)
  PROVE  TypeOK'
  <1>1. RulesTypes /\ CpuTypes /\ RestTypes
    BY TypeParts
  <1>2. PICK e \in Elem \ linked :
          /\ slot' = [slot EXCEPT ![e] = [key |-> key, action |-> action]]
          /\ linked' = (linked \ Found(key)) \cup {e}
    BY DEF PostRule
  <1>3. slot' \in [Elem -> [key : Key, action : {"drop", "pass"}]]
    BY <1>1, <1>2 DEF RulesTypes
  <1>4. linked' \subseteq Elem
    BY <1>1, <1>2 DEF RulesTypes
  <1>5. ASSUME NEW d \in linked', NEW f \in linked', slot'[d].key = slot'[f].key
        PROVE  d = f
    <2>1. slot'[e].key = key
      BY <1>1, <1>2 DEF RulesTypes
    <2>2. \A x \in linked' \ {e} : /\ x \in linked /\ slot'[x].key = slot[x].key
                                   /\ slot[x].key # key
      BY <1>1, <1>2 DEF RulesTypes, Found
    <2> QED
      BY <1>1, <1>5, <2>1, <2>2 DEF RulesTypes
  <1>6. RulesTypes'
    BY <1>3, <1>4, <1>5 DEF RulesTypes
  <1>7. CpuTypes'
    BY <1>1 DEF PostRule, packetVars, CpuTypes, At
  <1>8. RestTypes'
    BY <1>1 DEF PostRule, packetVars, monitorVars, RestTypes, Unaffected
  <1> QED
    BY <1>6, <1>7, <1>8, TypePartsNext

LEMMA TypeDelete ==
  ASSUME TypeOK, NEW key, DeleteRule(key)
  PROVE  TypeOK'
  <1>1. RulesTypes /\ CpuTypes /\ RestTypes
    BY TypeParts
  <1>2. RulesTypes'
    BY <1>1 DEF DeleteRule, RulesTypes
  <1>3. CpuTypes'
    BY <1>1 DEF DeleteRule, packetVars, CpuTypes, At
  <1>4. RestTypes'
    BY <1>1 DEF DeleteRule, packetVars, monitorVars, RestTypes, Unaffected
  <1> QED
    BY <1>2, <1>3, <1>4, TypePartsNext

\* What an assignment to cpu[c] leaves well-typed.
LEMMA CpuUpdate ==
  ASSUME CpuTypes, NEW c \in CPU, NEW s \in CpuStates,
         s.at = "idle" <=> s.pkt = NoPacket,
         s.at \in {"srcAct", "dstAct"} => s.elem # NoElem,
         cpu' = [cpu EXCEPT ![c] = s]
  PROVE  CpuTypes'
  BY DEF CpuTypes, At

\* A step of a CPU that ends the packet, moves on, or takes a pointer.
LEMMA CpuReturns ==
  ASSUME CpuTypes, NEW c \in CPU, Return(c) PROVE CpuTypes'
  <1>1. Idle \in CpuStates
    BY DEF Idle, CpuStates, Label
  <1> QED
    BY <1>1, CpuUpdate DEF Return, Idle

LEMMA CpuGoes ==
  ASSUME CpuTypes, NEW c \in CPU, ~ At(c, "idle"),
         NEW label \in Label \ {"idle", "srcAct", "dstAct"}, Goto(c, label)
  PROVE  CpuTypes'
  <1> DEFINE s == [cpu[c] EXCEPT !.at = label]
  <1>1. cpu[c] \in CpuStates /\ cpu[c].pkt # NoPacket
    BY DEF CpuTypes, At
  <1>2. s \in CpuStates /\ s.at = label /\ s.pkt = cpu[c].pkt
    BY <1>1 DEF CpuStates
  <1>3. cpu' = [cpu EXCEPT ![c] = s]
    BY DEF Goto, CpuTypes
  <1> QED
    BY <1>1, <1>2, <1>3, CpuUpdate

LEMMA CpuTakes ==
  ASSUME CpuTypes, NEW c \in CPU, ~ At(c, "idle"),
         NEW label \in {"srcAct", "dstAct"}, NEW e \in Elem,
         cpu' = [cpu EXCEPT ![c].at = label, ![c].elem = e]
  PROVE  CpuTypes'
  <1> DEFINE s == [[cpu[c] EXCEPT !.at = label] EXCEPT !.elem = e]
  <1>1. cpu[c] \in CpuStates /\ cpu[c].pkt # NoPacket
    BY DEF CpuTypes, At
  <1>2. /\ s \in CpuStates /\ s.at = label /\ s.pkt = cpu[c].pkt
        /\ s.elem = e
    BY <1>1 DEF CpuStates, Label
  <1>3. cpu' = [cpu EXCEPT ![c] = s]
    BY DEF CpuTypes
  <1> QED
    BY <1>1, <1>2, <1>3, CpuUpdate

LEMMA TypeLookup ==
  ASSUME RulesTypes, CpuTypes, NEW c \in CPU, NEW label, NEW key,
         label # "idle", NEW found \in {"srcAct", "dstAct"},
         NEW missing \in Label \ {"idle", "srcAct", "dstAct"},
         Lookup(c, label, key, found, missing)
  PROVE  CpuTypes'
  <1>1. ~ At(c, "idle")
    BY DEF Lookup, At
  <1>2. CASE Goto(c, missing)
    BY <1>1, <1>2, CpuGoes
  <1>3. ASSUME NEW e \in Found(key),
               cpu' = [cpu EXCEPT ![c].at = found, ![c].elem = e]
        PROVE  CpuTypes'
    <2>1. e \in Elem
      BY DEF Found, RulesTypes
    <2> QED
      BY <1>1, <1>3, <2>1, CpuTakes
  <1> QED
    BY <1>2, <1>3 DEF Lookup

LEMMA TypeHandle ==
  ASSUME TypeOK, NEW c \in CPU, Handle(c)
  PROVE  TypeOK'
  <1>1. RulesTypes /\ CpuTypes /\ RestTypes
    BY TypeParts
  <1>2. ASSUME NEW p \in Packet, Receive(c, p) PROVE TypeOK'
    <2> DEFINE s == [at |-> "screen", pkt |-> p, elem |-> NoElem]
    <2>1. s \in CpuStates
      BY DEF CpuStates, Label
    <2>2. CpuTypes'
      BY <1>1, <1>2, <2>1, CpuUpdate DEF Receive
    <2>3. RulesTypes'
      BY <1>1, <1>2 DEF Receive, rulesVars, RulesTypes
    <2>4. RestTypes'
      BY <1>1, <1>2 DEF Receive, rulesVars, monitorVars, RestTypes
    <2> QED
      BY <2>2, <2>3, <2>4, TypePartsNext
  <1>3. ASSUME UNCHANGED <<rulesVars, count, sent, monitorVars, settled>>
        PROVE  RulesTypes' /\ RestTypes'
    BY <1>1, <1>3 DEF rulesVars, monitorVars, RulesTypes, RestTypes
  <1>4. CASE Screen(c)
    BY <1>1, <1>3, <1>4, CpuReturns, TypePartsNext DEF Screen
  <1>5. CASE Admit(c)
    <2>1. ~ At(c, "idle") /\ Goto(c, "srcExact")
      BY <1>5 DEF Admit, At
    <2>2. "srcExact" \in Label \ {"idle", "srcAct", "dstAct"}
      BY DEF Label
    <2>3. CpuTypes'
      BY <1>1, <2>1, <2>2, CpuGoes
    <2> QED
      BY <1>3, <1>5, <2>3, TypePartsNext DEF Admit
  <1>a. {"srcWild", "dstExact", "dstWild", "allowed", "denied"}
          \subseteq Label \ {"idle", "srcAct", "dstAct"}
    BY DEF Label
  <1>6. CASE FirstLookup(c)
    <2>1. ASSUME NEW key, Lookup(c, "srcExact", key, "srcAct", "srcWild")
          PROVE  CpuTypes'
      BY <1>1, <1>a, <2>1, TypeLookup
    <2>2. ASSUME NEW key, Lookup(c, "dstExact", key, "dstAct", "dstWild")
          PROVE  CpuTypes'
      BY <1>1, <1>a, <2>2, TypeLookup
    <2>3. CpuTypes'
      BY <1>6, <2>1, <2>2 DEF FirstLookup
    <2>4. UNCHANGED <<rulesVars, count, sent, monitorVars, settled>>
      BY <1>6 DEF FirstLookup, Lookup
    <2> QED
      BY <1>3, <2>3, <2>4, TypePartsNext
  <1>7. CASE SecondLookup(c)
    <2>1. ASSUME NEW key, Lookup(c, "srcWild", key, "srcAct", "dstExact")
          PROVE  CpuTypes'
      BY <1>1, <1>a, <2>1, TypeLookup
    <2>2. ASSUME NEW key, Lookup(c, "dstWild", key, "dstAct", "allowed")
          PROVE  CpuTypes'
      BY <1>1, <1>a, <2>2, TypeLookup
    <2>3. CpuTypes'
      BY <1>7, <2>1, <2>2 DEF SecondLookup
    <2>4. UNCHANGED <<rulesVars, count, sent, monitorVars, settled>>
      BY <1>7 DEF SecondLookup, Lookup
    <2> QED
      BY <1>3, <2>3, <2>4, TypePartsNext
  <1>8. CASE Act(c)
    <2>1. PICK label \in {"denied", "dstExact", "allowed"} : Goto(c, label)
      BY <1>8 DEF Act
    <2>2. ~ At(c, "idle")
      BY <1>8 DEF Act, At
    <2>3. CpuTypes'
      BY <1>1, <1>a, <2>1, <2>2, CpuGoes
    <2> QED
      BY <1>3, <1>8, <2>3, TypePartsNext DEF Act
  <1>9. CASE Answer(c)
    BY <1>1, <1>3, <1>9, CpuReturns, TypePartsNext DEF Answer
  <1> QED
    BY <1>2, <1>4, <1>5, <1>6, <1>7, <1>8, <1>9 DEF Handle

LEMMA TypeMonitor ==
  ASSUME TypeOK, Monitor
  PROVE  TypeOK'
  <1>1. RulesTypes /\ CpuTypes /\ RestTypes
    BY TypeParts
  <1>2. UNCHANGED <<rulesVars, packetVars, settled>>
    BY DEF Monitor, Begin, Copy, Fail, Report
  <1>3. RulesTypes' /\ CpuTypes'
    BY <1>1, <1>2 DEF rulesVars, packetVars, RulesTypes, CpuTypes, At
  <1>4. RestTypes'
    <2>1. CASE Begin
      BY <1>1, <1>2, <2>1 DEF Begin, RestTypes, packetVars, rulesVars
    <2>2. ASSUME NEW c \in CPU, Copy(c) PROVE RestTypes'
      <3>1. count[c] \in Nat /\ monitor.sum + count[c] \in Nat
        BY <1>1 DEF RestTypes
      <3>2. /\ monitor' \in [at : {"sleep", "read"}, left : SUBSET CPU,
                           sum : Nat, ok : BOOLEAN]
            /\ monitor'.at = monitor.at
        BY <1>1, <2>2, <3>1 DEF Copy, RestTypes
      <3> QED
        BY <1>1, <1>2, <2>2, <3>2 DEF Copy, RestTypes, packetVars, rulesVars
    <2>3. CASE Fail
      BY <1>1, <1>2, <2>3 DEF Fail, RestTypes, packetVars, rulesVars
    <2>4. CASE Report
      BY <1>1, <1>2, <2>4 DEF Report, RestTypes, packetVars, rulesVars
    <2> QED
      BY <2>1, <2>2, <2>3, <2>4 DEF Monitor
  <1> QED
    BY <1>3, <1>4, TypePartsNext

LEMMA TypeStep == TypeOK /\ [Next]_vars => TypeOK'
  <1> SUFFICES ASSUME TypeOK, [Next]_vars PROVE TypeOK'
    OBVIOUS
  <1>1. CASE Api
    <2>1. ASSUME NEW r \in Request,
                 PostRule(RuleKey(r.ip, r.port, r.proto), r.action)
          PROVE  TypeOK'
      BY <2>1, RuleKeyType, TypePost
    <2>2. ASSUME NEW e \in linked, DeleteRule(slot[e].key) PROVE TypeOK'
      BY <2>2, TypeDelete
    <2> QED
      BY <1>1, <2>1, <2>2 DEF Api
  <1>2. ASSUME NEW c \in CPU, Handle(c) PROVE TypeOK'
    BY <1>2, TypeHandle
  <1>3. CASE Monitor
    BY <1>3, TypeMonitor
  <1>4. CASE UNCHANGED vars
    BY <1>4 DEF vars, rulesVars, packetVars, monitorVars, TypeOK, At
  <1> QED
    BY <1>1, <1>2, <1>3, <1>4 DEF Next, Finished

\* Type correctness: the map never holds two rules for a key, and no CPU reads
\* the action of a rule through a null pointer (xdp_prog.c:510-542).
THEOREM TypeCorrect == Spec => []TypeOK
  BY TypeInit, TypeStep, PTL DEF Spec

-----------------------------------------------------------------------------
(* The verdict *)

DeniesSrc(c) == LET p == cpu[c].pkt IN Denies(p.src, p.sport, p.proto)
DeniesDst(c) == LET p == cpu[c].pkt IN Denies(p.dst, p.dport, p.proto)

\* What a packet under way has established about the rules by its label.
Track(c) ==
  LET p == cpu[c].pkt
  IN  /\ At(c, "srcWild") => Found(Exact(p.src, p.sport, p.proto)) = {}
      /\ At(c, "srcAct")  => cpu[c].elem \in Decisive(p.src, p.sport, p.proto)
      /\ cpu[c].at \in {"dstExact", "dstWild", "dstAct", "allowed"} =>
           ~ DeniesSrc(c)
      /\ At(c, "dstWild") => Found(Exact(p.dst, p.dport, p.proto)) = {}
      /\ At(c, "dstAct")  => cpu[c].elem \in Decisive(p.dst, p.dport, p.proto)
      /\ At(c, "allowed") => ~ DeniesDst(c)
      /\ At(c, "denied")  => DeniesSrc(c) \/ DeniesDst(c)

Tracked == \A c \in settled : Track(c)

\* The map holds the same rule, if any, for a key.
Kept(key) == /\ Found(key)' = Found(key)
             /\ \A e \in Found(key) : slot'[e] = slot[e]

\* A packet that does not move keeps its track if its rules are kept.
LEMMA TrackKept ==
  ASSUME NEW c \in CPU, Track(c), cpu'[c] = cpu[c],
         At(c, "idle") \/ \A key \in KeysOf(cpu[c].pkt) : Kept(key)
  PROVE  Track(c)'
  <1>1. CASE At(c, "idle")
    BY <1>1 DEF Track, At
  <1>2. CASE \A key \in KeysOf(cpu[c].pkt) : Kept(key)
    <2> DEFINE p == cpu[c].pkt
    <2>1. /\ Kept(Exact(p.src, p.sport, p.proto)) /\ Kept(Wild(p.src, p.proto))
          /\ Kept(Exact(p.dst, p.dport, p.proto)) /\ Kept(Wild(p.dst, p.proto))
      BY <1>2 DEF KeysOf
    <2>2. /\ Decisive(p.src, p.sport, p.proto)' =
               Decisive(p.src, p.sport, p.proto)
          /\ Decisive(p.dst, p.dport, p.proto)' =
               Decisive(p.dst, p.dport, p.proto)
      BY <2>1 DEF Decisive, Kept
    <2>3. DeniesSrc(c)' <=> DeniesSrc(c)
      BY <2>1, <2>2 DEF DeniesSrc, Denies, Kept, Decisive
    <2>4. DeniesDst(c)' <=> DeniesDst(c)
      BY <2>1, <2>2 DEF DeniesDst, Denies, Kept, Decisive
    <2>5. /\ Found(Exact(p.src, p.sport, p.proto))' =
               Found(Exact(p.src, p.sport, p.proto))
          /\ Found(Exact(p.dst, p.dport, p.proto))' =
               Found(Exact(p.dst, p.dport, p.proto))
      BY <2>1 DEF Kept
    <2> QED
      BY <2>2, <2>3, <2>4, <2>5 DEF Track, At
  <1> QED
    BY <1>1, <1>2

\* What the rules say of a packet while they do not change.
LEMMA RulesStand ==
  ASSUME NEW c \in CPU, UNCHANGED rulesVars, cpu'[c].pkt = cpu[c].pkt
  PROVE  LET p == cpu[c].pkt
         IN  /\ Found(Exact(p.src, p.sport, p.proto))' =
                  Found(Exact(p.src, p.sport, p.proto))
             /\ Found(Exact(p.dst, p.dport, p.proto))' =
                  Found(Exact(p.dst, p.dport, p.proto))
             /\ Decisive(p.src, p.sport, p.proto)' =
                  Decisive(p.src, p.sport, p.proto)
             /\ Decisive(p.dst, p.dport, p.proto)' =
                  Decisive(p.dst, p.dport, p.proto)
             /\ DeniesSrc(c)' <=> DeniesSrc(c)
             /\ DeniesDst(c)' <=> DeniesDst(c)
  BY DEF rulesVars, Found, Exact, Wild, Decisive, Denies, DeniesSrc, DeniesDst

\* The rules that decide for an end agree.
LEMMA OneDecides ==
  ASSUME RulesTypes, NEW ip, NEW port, NEW proto,
         NEW e \in Decisive(ip, port, proto)
  PROVE  Denies(ip, port, proto) <=> slot[e].action = "drop"
  <1>1. \A d \in Decisive(ip, port, proto) : d = e
    BY DEF RulesTypes, Decisive, Found
  <1> QED
    BY <1>1 DEF Denies

\* What a CPU knows after each of its steps.
LEMMA TrackFirst ==
  ASSUME CpuTypes, NEW c \in CPU, Track(c), FirstLookup(c)
  PROVE  Track(c)'
  <1> DEFINE p == cpu[c].pkt
  <1>1. UNCHANGED rulesVars /\ cpu'[c].pkt = p
    BY DEF FirstLookup, Lookup, Goto, CpuTypes, CpuStates
  <1>2. CASE At(c, "srcExact")
    <2> DEFINE key == Exact(p.src, p.sport, p.proto)
    <2>1. Lookup(c, "srcExact", key, "srcAct", "srcWild")
      BY <1>2 DEF FirstLookup, At
    <2>2. \/ cpu'[c].at = "srcWild" /\ Found(key) = {}
          \/ cpu'[c].at = "srcAct" /\ cpu'[c].elem \in Found(key)
      BY <2>1 DEF Lookup, Goto, CpuTypes, CpuStates
    <2>3. Found(key) # {} => Decisive(p.src, p.sport, p.proto) = Found(key)
      BY DEF Decisive
    <2> QED
      BY <1>1, <2>2, <2>3, RulesStand DEF Track, At
  <1>3. CASE At(c, "dstExact")
    <2> DEFINE key == Exact(p.dst, p.dport, p.proto)
    <2>1. Lookup(c, "dstExact", key, "dstAct", "dstWild")
      BY <1>3 DEF FirstLookup, At
    <2>2. \/ cpu'[c].at = "dstWild" /\ Found(key) = {}
          \/ cpu'[c].at = "dstAct" /\ cpu'[c].elem \in Found(key)
      BY <2>1 DEF Lookup, Goto, CpuTypes, CpuStates
    <2>3. Found(key) # {} => Decisive(p.dst, p.dport, p.proto) = Found(key)
      BY DEF Decisive
    <2>4. ~ DeniesSrc(c)
      BY <1>3 DEF Track, At
    <2> QED
      BY <1>1, <2>2, <2>3, <2>4, RulesStand DEF Track, At
  <1> QED
    BY <1>2, <1>3 DEF FirstLookup

LEMMA TrackSecond ==
  ASSUME CpuTypes, NEW c \in CPU, Track(c), SecondLookup(c)
  PROVE  Track(c)'
  <1> DEFINE p == cpu[c].pkt
  <1>1. UNCHANGED rulesVars /\ cpu'[c].pkt = p
    BY DEF SecondLookup, Lookup, Goto, CpuTypes, CpuStates
  <1>2. CASE At(c, "srcWild")
    <2> DEFINE key == Wild(p.src, p.proto)
    <2>1. Lookup(c, "srcWild", key, "srcAct", "dstExact")
      BY <1>2 DEF SecondLookup, At
    <2>2. \/ cpu'[c].at = "dstExact" /\ Found(key) = {}
          \/ cpu'[c].at = "srcAct" /\ cpu'[c].elem \in Found(key)
      BY <2>1 DEF Lookup, Goto, CpuTypes, CpuStates
    <2>3. Decisive(p.src, p.sport, p.proto) = Found(key)
      BY <1>2 DEF Decisive, Track
    <2>4. Found(key) = {} => ~ DeniesSrc(c)
      BY <2>3 DEF DeniesSrc, Denies
    <2> QED
      BY <1>1, <2>2, <2>3, <2>4, RulesStand DEF Track, At
  <1>3. CASE At(c, "dstWild")
    <2> DEFINE key == Wild(p.dst, p.proto)
    <2>1. Lookup(c, "dstWild", key, "dstAct", "allowed")
      BY <1>3 DEF SecondLookup, At
    <2>2. \/ cpu'[c].at = "allowed" /\ Found(key) = {}
          \/ cpu'[c].at = "dstAct" /\ cpu'[c].elem \in Found(key)
      BY <2>1 DEF Lookup, Goto, CpuTypes, CpuStates
    <2>3. Decisive(p.dst, p.dport, p.proto) = Found(key)
      BY <1>3 DEF Decisive, Track
    <2>4. Found(key) = {} => ~ DeniesDst(c)
      BY <2>3 DEF DeniesDst, Denies
    <2>5. ~ DeniesSrc(c)
      BY <1>3 DEF Track, At
    <2> QED
      BY <1>1, <2>2, <2>3, <2>4, <2>5, RulesStand DEF Track, At
  <1> QED
    BY <1>2, <1>3 DEF SecondLookup

LEMMA TrackAct ==
  ASSUME RulesTypes, CpuTypes, NEW c \in CPU, Track(c), Act(c)
  PROVE  Track(c)'
  <1> DEFINE p == cpu[c].pkt
             drop == slot[cpu[c].elem].action = "drop"
  <1>1. UNCHANGED rulesVars /\ cpu'[c].pkt = p
    BY DEF Act, Goto, CpuTypes, CpuStates
  <1>2. cpu'[c].at = IF drop THEN "denied"
                     ELSE IF At(c, "srcAct") THEN "dstExact" ELSE "allowed"
    BY DEF Act, Goto, CpuTypes, CpuStates
  <1>3. CASE At(c, "srcAct")
    <2>1. cpu[c].elem \in Decisive(p.src, p.sport, p.proto)
      BY <1>3 DEF Track
    <2>2. DeniesSrc(c) <=> drop
      BY <2>1, OneDecides DEF DeniesSrc
    <2> QED
      BY <1>1, <1>2, <1>3, <2>2, RulesStand DEF Track, At
  <1>4. CASE At(c, "dstAct")
    <2>1. cpu[c].elem \in Decisive(p.dst, p.dport, p.proto)
      BY <1>4 DEF Track
    <2>2. DeniesDst(c) <=> drop
      BY <2>1, OneDecides DEF DeniesDst
    <2>3. ~ DeniesSrc(c)
      BY <1>4 DEF Track, At
    <2>4. ~ At(c, "srcAct")
      BY <1>4 DEF At
    <2> QED
      BY <1>1, <1>2, <2>2, <2>3, <2>4, RulesStand DEF Track, At
  <1> QED
    BY <1>3, <1>4 DEF Act, At

\* The step of one CPU leaves the packets of the others alone.
LEMMA OthersStay ==
  ASSUME CpuTypes, NEW c \in CPU, Handle(c), NEW d \in CPU \ {c}
  PROVE  cpu'[d] = cpu[d]
  BY DEF Handle, Receive, Screen, Admit, FirstLookup, SecondLookup, Lookup,
         Act, Answer, Goto, Return, CpuTypes

LEMMA TrackHandle ==
  ASSUME TypeOK, Tracked, NEW c \in CPU, Handle(c)
  PROVE  Tracked'
  <1>1. RulesTypes /\ CpuTypes /\ RestTypes
    BY TypeParts
  <1>2. UNCHANGED rulesVars
    BY DEF Handle, Receive, Screen, Admit, FirstLookup, SecondLookup, Lookup,
           Act, Answer
  <1>3. \A key : Kept(key)
    BY <1>2 DEF rulesVars, Kept, Found
  <1>4. settled' \subseteq settled \cup {c}
    BY DEF Handle, Receive, Screen, Admit, FirstLookup, SecondLookup, Lookup,
           Act, Answer
  <1>5. ASSUME NEW d \in settled' \ {c} PROVE Track(d)'
    <2>1. d \in CPU \ {c} /\ Track(d)
      BY <1>1, <1>4, <1>5 DEF RestTypes, Tracked
    <2>2. cpu'[d] = cpu[d]
      BY <1>1, <2>1, OthersStay
    <2> QED
      BY <1>3, <2>1, <2>2, TrackKept
  <1>6. ASSUME c \in settled' PROVE Track(c)'
    <2>1. CASE cpu'[c].at \in {"idle", "screen", "srcExact"}
      BY <2>1 DEF Track, At
    <2>2. CASE cpu'[c].at \notin {"idle", "screen", "srcExact"}
      <3>1. FirstLookup(c) \/ SecondLookup(c) \/ Act(c)
        BY <1>1, <2>2 DEF Handle, Receive, Screen, Admit, Answer, Goto, Return,
                          Idle, CpuTypes, CpuStates
      <3>2. settled' = settled
        BY <3>1 DEF FirstLookup, SecondLookup, Lookup, Act
      <3>3. Track(c)
        BY <1>6, <3>2 DEF Tracked
      <3> QED
        BY <1>1, <3>1, <3>3, TrackFirst, TrackSecond, TrackAct
    <2> QED
      BY <2>1, <2>2
  <1> QED
    BY <1>5, <1>6 DEF Tracked

\* A change of the rules keeps those of the packets that stay settled.
LEMMA TrackApi ==
  ASSUME TypeOK, Tracked, Api
  PROVE  Tracked'
  <1>1. RulesTypes /\ CpuTypes /\ RestTypes
    BY TypeParts
  <1>2. PICK key : /\ \A k : k # key => Kept(k)
                   /\ settled' = Unaffected(key)
    <2>1. ASSUME NEW key, NEW action, PostRule(key, action)
          PROVE  /\ \A k : k # key => Kept(k)
                 /\ settled' = Unaffected(key)
      BY <1>1, <2>1 DEF PostRule, Kept, Found, RulesTypes
    <2>2. ASSUME NEW key, DeleteRule(key)
          PROVE  /\ \A k : k # key => Kept(k)
                 /\ settled' = Unaffected(key)
      BY <1>1, <2>2 DEF DeleteRule, Kept, Found, RulesTypes
    <2> QED
      BY <2>1, <2>2 DEF Api
  <1>3. cpu' = cpu
    BY DEF Api, PostRule, DeleteRule, packetVars
  <1>4. ASSUME NEW c \in settled' PROVE Track(c)'
    <2>1. /\ c \in CPU /\ Track(c)
          /\ At(c, "idle") \/ key \notin KeysOf(cpu[c].pkt)
      BY <1>1, <1>2, <1>4 DEF Unaffected, RestTypes, Tracked
    <2> QED
      BY <1>2, <1>3, <2>1, TrackKept
  <1> QED
    BY <1>4 DEF Tracked

LEMMA TrackStep == TypeOK /\ Tracked /\ [Next]_vars => Tracked'
  <1> SUFFICES ASSUME TypeOK, Tracked, [Next]_vars PROVE Tracked'
    OBVIOUS
  <1>1. CASE Api
    BY <1>1, TrackApi
  <1>2. ASSUME NEW c \in CPU, Handle(c) PROVE Tracked'
    BY <1>2, TrackHandle
  <1>3. CASE UNCHANGED <<rulesVars, cpu, settled>>
    <2>1. ASSUME NEW c \in settled' PROVE Track(c)'
      <3>1. c \in CPU /\ Track(c)
        BY <1>3, <2>1 DEF TypeOK, Tracked
      <3>2. \A key : Kept(key)
        BY <1>3 DEF rulesVars, Kept, Found
      <3> QED
        BY <1>3, <3>1, <3>2, TrackKept
    <2> QED
      BY <2>1 DEF Tracked
  <1>4. Monitor \/ UNCHANGED vars => UNCHANGED <<rulesVars, cpu, settled>>
    BY DEF Monitor, Begin, Copy, Fail, Report, vars, packetVars
  <1> QED
    BY <1>1, <1>2, <1>3, <1>4 DEF Next, Finished

\* The verdict of every packet that gets as far as the rules is what the rules
\* say of it, for any number of CPUs and any sequence of changes to other rules
\* between its lookups (xdp_prog.c:502-543, 798-803).
THEOREM VerdictCorrect == Spec => []RulesDecide
  <1>1. Init => Tracked
    BY DEF Init, Tracked, Track, At, Idle
  <1>2. TypeOK /\ Tracked => RulesDecide
    BY DEF TypeOK, Tracked, Track, RulesDecide, Denied, DeniesSrc, DeniesDst, At
  <1> QED
    BY <1>1, <1>2, TrackStep, TypeCorrect, PTL DEF Spec

-----------------------------------------------------------------------------
(* The rate.  What is left of a reading is the sum of the counters of some   *)
(* CPUs.  Such a sum is the number of marks, if each CPU makes one mark for  *)
(* each packet: f[c] of them, n at most.                                     *)

Marks(n, f, S) == {x \in S \X (1 .. n) : x[2] <= f[x[1]]}

LEMMA MarksFinite ==
  ASSUME NEW n \in Nat, NEW f, NEW S, IsFiniteSet(S)
  PROVE  IsFiniteSet(Marks(n, f, S)) /\ Cardinality(Marks(n, f, S)) \in Nat
  <1>1. IsFiniteSet(S \X (1 .. n))
    <2>1. IsFiniteSet(1 .. n)
      BY 1 \in Int, n \in Int, FS_Interval
    <2> QED
      BY <2>1, FS_Product
  <1>2. Marks(n, f, S) \subseteq S \X (1 .. n)
    BY DEF Marks
  <1> QED
    BY <1>1, <1>2, FS_Subset, FS_CardinalityType

\* One CPU less: as many marks less as it has made.
LEMMA MarksOfOne ==
  ASSUME NEW n \in Nat, NEW f, NEW S, IsFiniteSet(S), NEW c \in S,
         f[c] \in 0 .. n
  PROVE  Cardinality(Marks(n, f, S))
           = Cardinality(Marks(n, f, S \ {c})) + f[c]
  <1> DEFINE rest == Marks(n, f, S \ {c})
             own == {c} \X (1 .. f[c])
  <1>1. Marks(n, f, S) = rest \cup own
    BY DEF Marks
  <1>2. rest \cap own = {}
    BY DEF Marks
  <1>3. IsFiniteSet(rest) /\ Cardinality(rest) \in Nat
    <2>1. IsFiniteSet(S \ {c})
      BY FS_Subset
    <2> QED
      BY <2>1, MarksFinite
  <1>4. IsFiniteSet(own) /\ Cardinality(own) = f[c]
    <2> PICK k \in 0 .. n : k = f[c]
      OBVIOUS
    <2>1. IsFiniteSet({c}) /\ Cardinality({c}) = 1
      BY FS_Singleton
    <2>2. IsFiniteSet(1 .. k) /\ Cardinality(1 .. k) = k
      <3>1. /\ IsFiniteSet(1 .. k)
            /\ Cardinality(1 .. k) = IF 1 > k THEN 0 ELSE k - 1 + 1
        BY 1 \in Int, k \in Int, FS_Interval
      <3> QED
        BY <3>1
    <2>3. IsFiniteSet(own)
          /\ Cardinality(own) = Cardinality({c}) * Cardinality(1 .. k)
      BY <2>1, <2>2, FS_Product
    <2> QED
      BY <2>1, <2>2, <2>3
  <1> HIDE DEF rest, own
  <1>5. Cardinality(rest \cup own) = Cardinality(rest) + Cardinality(own) - 0
    BY <1>2, <1>3, <1>4, FS_Union, FS_EmptySet
  <1> QED
    BY <1>1, <1>3, <1>4, <1>5 DEF rest

\* One packet more: one mark more, if its CPU is one of those.
LEMMA MarksMore ==
  ASSUME NEW n \in Nat, NEW f, NEW g, NEW S, IsFiniteSet(S), NEW c,
         c \in S => f[c] \in 0 .. n /\ g[c] = f[c] + 1,
         \A d \in S \ {c} : f[d] \in 0 .. n /\ g[d] = f[d]
  PROVE  Cardinality(Marks(n + 1, g, S))
           = Cardinality(Marks(n, f, S)) + (IF c \in S THEN 1 ELSE 0)
  <1>1. CASE c \in S
    <2> DEFINE mark == <<c, f[c] + 1>>
    <2>1. Marks(n + 1, g, S) \subseteq Marks(n, f, S) \cup {mark}
      <3> SUFFICES ASSUME NEW d \in S, NEW k \in 1 .. (n + 1), k <= g[d],
                          <<d, k>> # mark
                   PROVE  k \in 1 .. n /\ k <= f[d]
        BY DEF Marks
      <3>1. CASE d = c
        BY <1>1, <3>1
      <3>2. CASE d # c
        BY <3>2
      <3> QED
        BY <3>1, <3>2
    <2>2. Marks(n, f, S) \cup {mark} \subseteq Marks(n + 1, g, S)
      <3>1. ASSUME NEW d \in S, NEW k \in 1 .. n, k <= f[d]
            PROVE  k \in 1 .. (n + 1) /\ k <= g[d]
        <4>1. CASE d = c
          BY <3>1, <4>1
        <4>2. CASE d # c
          BY <3>1, <4>2
        <4> QED
          BY <4>1, <4>2
      <3>2. f[c] + 1 \in 1 .. (n + 1) /\ f[c] + 1 <= g[c]
        BY <1>1
      <3> QED
        BY <1>1, <3>1, <3>2 DEF Marks
    <2>3. mark \notin Marks(n, f, S)
      BY <1>1 DEF Marks
    <2> HIDE DEF mark
    <2>4. Marks(n + 1, g, S) = Marks(n, f, S) \cup {mark}
      BY <2>1, <2>2
    <2> QED
      BY <1>1, <2>3, <2>4, MarksFinite, FS_AddElement
  <1>2. CASE c \notin S
    <2>1. \A d \in S : f[d] \in 0 .. n /\ g[d] = f[d]
      BY <1>2
    <2>2. Marks(n + 1, g, S) = Marks(n, f, S)
      BY <2>1 DEF Marks
    <2> QED
      BY <1>2, <2>2, MarksFinite
  <1> QED
    BY <1>1, <1>2

\* What a reading has come to, if no more packets are counted before its end.
Seen == monitor.sum + Cardinality(Marks(sent, count, monitor.left))

\* What makes the rate real: the counters add up to the packets received, and
\* so the total that is kept is no less than it was when its reading began;
\* the reading under way is worth no less than that, and no more than there is.
Honest ==
  /\ \A c \in CPU : count[c] <= sent
  /\ Cardinality(Marks(sent, count, CPU)) = sent
  /\ prev <= sent
  /\ since.last <= since.this /\ since.this <= sent
  /\ monitor.at = "sleep" => prev = 0 \/ prev >= since.this
  /\ monitor.at = "read" =>
       /\ prev = 0 \/ prev >= since.last
       /\ monitor.left = CPU => monitor.sum = 0
       /\ ~ monitor.ok => monitor.sum = 0 /\ monitor.left = {}
       /\ monitor.ok => Seen \in since.this .. sent /\ prev <= Seen

\* The numbers that it is about.
LEMMA HonestTypes ==
  TypeOK =>
    /\ count \in [CPU -> Nat] /\ sent \in Nat /\ prev \in Nat
    /\ monitor \in [at : {"sleep", "read"}, left : SUBSET CPU, sum : Nat,
                    ok : BOOLEAN]
    /\ monitor.sum \in Nat /\ monitor.left \subseteq CPU
    /\ since \in [last : 0 .. sent, this : 0 .. sent]
    /\ since.last \in Nat /\ since.this \in Nat
    /\ IsFiniteSet(monitor.left)
    /\ Cardinality(Marks(sent, count, monitor.left)) \in Nat /\ Seen \in Nat
  <1> SUFFICES ASSUME TypeOK
               PROVE  /\ count \in [CPU -> Nat] /\ sent \in Nat /\ prev \in Nat
                      /\ monitor \in [at : {"sleep", "read"}, left : SUBSET CPU,
                                      sum : Nat, ok : BOOLEAN]
                      /\ monitor.sum \in Nat /\ monitor.left \subseteq CPU
                      /\ since \in [last : 0 .. sent, this : 0 .. sent]
                      /\ since.last \in Nat /\ since.this \in Nat
                      /\ IsFiniteSet(monitor.left)
                      /\ Cardinality(Marks(sent, count, monitor.left)) \in Nat
                      /\ Seen \in Nat
    OBVIOUS
  <1>1. /\ count \in [CPU -> Nat] /\ sent \in Nat /\ prev \in Nat
        /\ monitor \in [at : {"sleep", "read"}, left : SUBSET CPU, sum : Nat,
                        ok : BOOLEAN]
        /\ since \in [last : 0 .. sent, this : 0 .. sent]
    BY DEF TypeOK
  <1>2. monitor.sum \in Nat /\ monitor.left \subseteq CPU
        /\ since.last \in Nat /\ since.this \in Nat
    BY <1>1
  <1>3. IsFiniteSet(monitor.left)
    BY <1>2, FS_Subset
  <1>4. Cardinality(Marks(sent, count, monitor.left)) \in Nat
    BY <1>1, <1>3, MarksFinite
  <1> QED
    BY <1>1, <1>2, <1>3, <1>4 DEF Seen

LEMMA HonestInit == Init => Honest
  <1> SUFFICES ASSUME Init PROVE Honest
    OBVIOUS
  <1>1. /\ sent = 0 /\ prev = 0 /\ monitor.at = "sleep"
        /\ since.last = 0 /\ since.this = 0 /\ \A c \in CPU : count[c] = 0
    BY DEF Init
  <1>2. Marks(0, count, CPU) = {}
    BY DEF Marks
  <1>3. Cardinality(Marks(sent, count, CPU)) = 0
    BY <1>1, <1>2, FS_EmptySet
  <1> QED
    BY <1>1, <1>3 DEF Honest

\* A packet is counted: at most one more is seen.
LEMMA HonestReceive ==
  ASSUME TypeOK, Honest, NEW c \in CPU, NEW p \in Packet, Receive(c, p)
  PROVE  Honest'
  <1>1. /\ count \in [CPU -> Nat] /\ sent \in Nat /\ sent' = sent + 1
        /\ count' = [count EXCEPT ![c] = count[c] + 1]
        /\ UNCHANGED <<monitor, prev, since>>
    BY HonestTypes DEF Receive, monitorVars
  <1>2. /\ \A d \in CPU : count[d] \in 0 .. sent
        /\ count'[c] = count[c] + 1
        /\ \A d \in CPU \ {c} : count'[d] = count[d]
    BY <1>1 DEF Honest
  <1>3. \A d \in CPU : count'[d] <= sent'
    <2> SUFFICES ASSUME NEW d \in CPU PROVE count'[d] <= sent + 1
      BY <1>1
    <2>1. CASE d = c
      BY <1>1, <1>2, <2>1
    <2>2. CASE d # c
      BY <1>1, <1>2, <2>2
    <2> QED
      BY <2>1, <2>2
  <1>4. Cardinality(Marks(sent, count, CPU))' = sent'
    <2>1. PICK f, g, n : f = count /\ g = count' /\ n = sent
      OBVIOUS
    <2>2. /\ n \in Nat /\ c \in CPU /\ IsFiniteSet(CPU)
          /\ f[c] \in 0 .. n /\ g[c] = f[c] + 1
          /\ \A d \in CPU \ {c} : f[d] \in 0 .. n /\ g[d] = f[d]
      BY <1>1, <1>2, <2>1, XdpPipelineAssumption
    <2>3. Cardinality(Marks(n + 1, g, CPU)) = Cardinality(Marks(n, f, CPU)) + 1
      BY <2>2, MarksMore
    <2>4. Cardinality(Marks(sent + 1, count', CPU))
            = Cardinality(Marks(sent, count, CPU)) + 1
      BY <2>1, <2>3
    <2> QED
      BY <1>1, <2>4 DEF Honest
  <1>5. Seen' \in {Seen, Seen + 1} /\ Seen \in Nat
    <2>1. Cardinality(Marks(sent + 1, count', monitor.left))
            = Cardinality(Marks(sent, count, monitor.left))
                + (IF c \in monitor.left THEN 1 ELSE 0)
      <3>1. /\ monitor.left \subseteq CPU /\ IsFiniteSet(monitor.left)
        BY HonestTypes
      <3>2. /\ c \in monitor.left =>
                 count[c] \in 0 .. sent /\ count'[c] = count[c] + 1
            /\ \A d \in monitor.left \ {c} :
                 count[d] \in 0 .. sent /\ count'[d] = count[d]
        BY <1>2, <3>1
      <3>3. PICK f, g, n, S :
              f = count /\ g = count' /\ n = sent /\ S = monitor.left
        OBVIOUS
      <3>4. /\ n \in Nat /\ IsFiniteSet(S)
            /\ c \in S => f[c] \in 0 .. n /\ g[c] = f[c] + 1
            /\ \A d \in S \ {c} : f[d] \in 0 .. n /\ g[d] = f[d]
        BY <1>1, <3>1, <3>2, <3>3
      <3>5. Cardinality(Marks(n + 1, g, S))
              = Cardinality(Marks(n, f, S)) + (IF c \in S THEN 1 ELSE 0)
        BY <3>4, MarksMore
      <3> QED
        BY <3>3, <3>5
    <2>2. Seen' = monitor.sum + Cardinality(Marks(sent + 1, count', monitor.left))
      BY <1>1 DEF Seen
    <2>3. /\ monitor.sum \in Nat /\ Seen \in Nat
          /\ Cardinality(Marks(sent, count, monitor.left)) \in Nat
      BY HonestTypes
    <2> QED
      BY <2>1, <2>2, <2>3 DEF Seen
  <1>6. since.last \in Nat /\ since.this \in Nat /\ prev \in Nat
    BY HonestTypes
  <1> HIDE DEF Seen
  <1>7. monitor.at = "read" /\ monitor.ok =>
          Seen' \in since.this .. sent + 1 /\ prev <= Seen'
    BY <1>1, <1>5, <1>6 DEF Honest
  <1>8. prev <= sent' /\ since.this <= sent'
    BY <1>1, <1>6 DEF Honest
  <1> QED
    BY <1>1, <1>3, <1>4, <1>7, <1>8 DEF Honest

\* A step of monitor_thread.
LEMMA HonestMonitor ==
  ASSUME TypeOK, Honest, Monitor PROVE Honest'
  <1>0. /\ count \in [CPU -> Nat] /\ sent \in Nat /\ prev \in Nat
        /\ monitor.sum \in Nat /\ monitor.left \subseteq CPU
        /\ since.last \in Nat /\ since.this \in Nat /\ IsFiniteSet(monitor.left)
        /\ monitor \in [at : {"sleep", "read"}, left : SUBSET CPU, sum : Nat,
                        ok : BOOLEAN]
        /\ since \in [last : 0 .. sent, this : 0 .. sent]
    BY HonestTypes
  <1>1. UNCHANGED <<count, sent>>
    BY DEF Monitor, Begin, Copy, Fail, Report, packetVars
  <1>2. /\ \A c \in CPU : count[c] <= sent
        /\ Cardinality(Marks(sent, count, CPU)) = sent
        /\ prev <= sent /\ since.last <= since.this /\ since.this <= sent
    BY DEF Honest
  <1>3. CASE Begin
    <2>1. /\ monitor.at = "sleep" /\ monitor'.at = "read" /\ monitor'.left = CPU
          /\ monitor'.sum = 0 /\ monitor'.ok /\ prev' = prev
          /\ since'.last = since.this /\ since'.this = sent
      BY <1>3 DEF Begin
    <2>2. Seen' = sent
      BY <1>0, <1>1, <1>2, <2>1 DEF Seen
    <2>3. prev = 0 \/ prev >= since.this
      BY <2>1 DEF Honest
    <2> HIDE DEF Seen
    <2> QED
      BY <1>0, <1>1, <1>2, <2>1, <2>2, <2>3 DEF Honest
  <1>4. ASSUME NEW c \in CPU, Copy(c) PROVE Honest'
    <2>1. /\ monitor.at = "read" /\ c \in monitor.left /\ monitor'.at = "read"
          /\ monitor'.left = monitor.left \ {c} /\ monitor'.ok = monitor.ok
          /\ monitor'.sum = monitor.sum + count[c]
          /\ UNCHANGED <<prev, since>>
      BY <1>0, <1>4 DEF Copy
    <2>2. count[c] \in 0 .. sent
      BY <1>0, <1>2
    <2>3. Seen' = Seen
      <3>1. Cardinality(Marks(sent, count, monitor.left))
              = Cardinality(Marks(sent, count, monitor.left \ {c})) + count[c]
        BY <1>0, <2>1, <2>2, MarksOfOne
      <3>2. Cardinality(Marks(sent, count, monitor.left \ {c})) \in Nat
        BY <1>0, FS_Subset, MarksFinite
      <3> QED
        BY <1>0, <1>1, <2>1, <2>2, <3>1, <3>2 DEF Seen
    <2>4. monitor'.left # CPU
      BY <2>1
    <2>5. monitor'.ok
      BY <2>1 DEF Honest
    <2> HIDE DEF Seen
    <2> QED
      BY <1>1, <2>1, <2>3, <2>4, <2>5 DEF Honest
  <1>5. CASE Fail
    <2>1. /\ monitor.at = "read" /\ monitor.left = CPU
          /\ monitor'.at = "read" /\ ~ monitor'.ok /\ monitor'.sum = monitor.sum
          /\ monitor'.left = {}
          /\ UNCHANGED <<prev, since>>
      BY <1>0, <1>5 DEF Fail
    <2>2. monitor.sum = 0
      BY <2>1 DEF Honest
    <2> QED
      BY <1>1, <2>1, <2>2 DEF Honest
  <1>6. CASE Report
    <2>1. /\ monitor.at = "read" /\ monitor.left = {} /\ prev' = monitor.sum
          /\ monitor'.at = "sleep" /\ since' = since
      BY <1>0, <1>6 DEF Report
    <2>2. Seen = monitor.sum
      <3>1. Marks(sent, count, {}) = {}
        BY DEF Marks
      <3>2. Cardinality(Marks(sent, count, monitor.left)) = 0
        BY <2>1, <3>1, FS_EmptySet
      <3> QED
        BY <1>0, <3>2 DEF Seen
    <2>3. monitor.sum = 0 \/ monitor.sum >= since.this
      BY <1>0, <2>1, <2>2 DEF Honest
    <2>4. monitor.sum <= sent
      BY <1>0, <2>1, <2>2 DEF Honest
    <2> QED
      BY <1>1, <1>2, <2>1, <2>3, <2>4 DEF Honest
  <1> QED
    BY <1>3, <1>4, <1>5, <1>6 DEF Monitor

LEMMA HonestStep == TypeOK /\ Honest /\ [Next]_vars => Honest'
  <1> SUFFICES ASSUME TypeOK, Honest, [Next]_vars PROVE Honest'
    OBVIOUS
  <1>1. CASE UNCHANGED <<count, sent, monitorVars>>
    BY <1>1 DEF monitorVars, Honest, Seen
  <1>2. Api \/ UNCHANGED vars => UNCHANGED <<count, sent, monitorVars>>
    BY DEF Api, PostRule, DeleteRule, packetVars, vars
  <1>3. ASSUME NEW c \in CPU, Handle(c) PROVE Honest'
    <2>1. \/ \E p \in Packet : Receive(c, p)
          \/ UNCHANGED <<count, sent, monitorVars>>
      BY <1>3 DEF Handle, Screen, Admit, FirstLookup, SecondLookup, Lookup, Act,
                  Answer
    <2> QED
      BY <1>1, <2>1, HonestReceive
  <1>4. CASE Monitor
    BY <1>4, HonestMonitor
  <1> QED
    BY <1>1, <1>2, <1>3, <1>4 DEF Next, Finished

\* What is reduced modulo m does not grow.
LEMMA ModuloIsNoMore ==
  ASSUME NEW a \in Nat, NEW m \in Nat \ {0} PROVE a % m <= a
  OBVIOUS

LEMMA HonestSuffices == TypeOK /\ Honest => RateIsReal
  <1> SUFFICES ASSUME TypeOK, Honest, monitor.at = "read", monitor.left = {},
                      monitor.ok
               PROVE  Pps <= sent - since.last
    BY DEF RateIsReal
  <1>1. /\ sent \in Nat /\ prev \in Nat /\ monitor.sum \in Nat
        /\ since.last \in Nat /\ since.this \in Nat
    BY HonestTypes
  <1>2. Seen = monitor.sum
    <2>1. Marks(sent, count, {}) = {}
      BY DEF Marks
    <2>2. Cardinality(Marks(sent, count, monitor.left)) = 0
      BY <2>1, FS_EmptySet
    <2> QED
      BY <1>1, <2>2 DEF Seen
  <1>3. /\ since.last <= sent /\ monitor.sum <= sent /\ prev <= monitor.sum
        /\ prev = 0 \/ prev >= since.last
    BY <1>1, <1>2 DEF Honest
  <1>4. CASE prev > 0
    <2>1. monitor.sum - prev \in Nat /\ monitor.sum - prev <= sent - since.last
      BY <1>1, <1>3, <1>4
    <2>2. (monitor.sum - prev) % U32 <= monitor.sum - prev
          /\ (monitor.sum - prev) % U32 \in Nat
      BY <2>1, ModuloIsNoMore
    <2> QED
      BY <1>1, <1>4, <2>1, <2>2 DEF Pps
  <1>5. CASE ~ prev > 0
    BY <1>1, <1>3, <1>5 DEF Pps
  <1> QED
    BY <1>4, <1>5

\* The rate that is broadcast never exceeds the packets received since the
\* reading before began, for any number of CPUs that count while they are read
\* one by one, lookups that fail in between included: then the total starts from
\* 0 and the next rate is not known (main.c:87-103).
THEOREM RateIsRealAlways == Spec => []RateIsReal
  <1>1. TypeOK /\ Honest /\ [Next]_vars => Honest'
    BY HonestStep
  <1> QED
    BY <1>1, HonestInit, HonestSuffices, TypeCorrect, PTL DEF Spec

=============================================================================
