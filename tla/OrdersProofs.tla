---------------------------- MODULE OrdersProofs ----------------------------
(***************************************************************************)
(* Proofs about Orders for any number of orders, cancellations, updates,   *)
(* failures and carts: types, the reservations behind an order, what a     *)
(* compensation and a cancellation return, and the books.                  *)
(***************************************************************************)
EXTENDS Orders, TLAPS

(* Where a task can be, and what it is about there. *)
Control ==
  /\ \A o \in Orders :
       /\ about[o] = o
       /\ pc[o] \in {"idle", "reserve", "compensate", "persist", "announce", "done", "refused"}
       /\ pc[o] = "idle" \/ cart[o] \in Carts
       /\ pc[o] = "reserve" => last[o] = Len(cart[o])
       /\ pc[o] \in {"announce", "done"} => status[o] # "absent"
       /\ pc[o] \in {"idle", "reserve", "compensate", "persist"} => status[o] = "absent"
  /\ \A t \in Cancels :
       /\ pc[t] \in {"idle", "commit", "release", "announce", "done", "refused"}
       /\ pc[t] = "release" => last[t] = Len(cart[about[t]])
       /\ pc[t] \in {"announce", "done", "release"} => t \in cancelled
       /\ t \in cancelled => pc[t] \notin {"idle", "commit"}
  /\ \A t \in Updates : pc[t] \in {"idle", "commit", "done", "refused"}
  /\ \A t \in Tasks \ Orders :
       /\ pc[t] \notin {"idle", "refused"} \/ t \in cancelled =>
            about[t] \in Orders /\ status[about[t]] # "absent"
       /\ pc[t] = "commit" => new[t] \in OrderStatuses

(* Item i of the order of t is ahead of t: its call is to be made, or on its way. *)
Ahead(t, i) == i > at[t] \/ (i = at[t] /\ call[t] = "sent")

(* The lines of an order that its create request has reserved. *)
TakenInv ==
  \A o \in Orders, i \in Lines :
    /\ taken[o][i] \in {0, 1}
    /\ pc[o] = "idle" \/ i \notin DOMAIN cart[o] => taken[o][i] = 0
    /\ i \in DOMAIN cart[o] =>
         /\ pc[o] = "reserve" =>
              taken[o][i] = IF i < at[o] \/ (i = at[o] /\ call[o] = "granted") THEN 1 ELSE 0
         /\ pc[o] = "compensate" /\ i =< last[o] => taken[o][i] = 1
         /\ pc[o] = "persist" \/ status[o] # "absent" => taken[o][i] = 1

(* The lines that a task has returned are behind it. *)
ReturnedInv ==
  \A t \in Tasks, i \in Lines :
    /\ returned[t][i] \in {0, 1}
    /\ pc[t] \in {"compensate", "release"} /\ Ahead(t, i) => returned[t][i] = 0
    /\ t \in Orders =>
         /\ returned[t][i] =< taken[t][i]
         /\ status[t] # "absent" \/ pc[t] \in {"idle", "reserve", "persist"} => returned[t][i] = 0
    /\ t \in Cancels /\ (t \notin cancelled \/ i \notin DOMAIN cart[about[t]]) => returned[t][i] = 0

(* A call whose caller gave up is one that was not executed, and is not sent again. *)
StrayOK(c) ==
  /\ c.by \in Orders \cup Cancels /\ c.order = about[c.by] /\ c.order \in Orders
  /\ pc[c.order] # "idle" /\ c.at \in DOMAIN cart[c.order]
  /\ c = [by |-> c.by, at |-> c.at, kind |-> c.kind, order |-> c.order,
          item |-> cart[c.order][c.at]]
  /\ \/ /\ c.kind = "reserve"
        /\ c.by = c.order /\ pc[c.by] \in {"compensate", "refused"} /\ status[c.by] = "absent"
        /\ taken[c.by][c.at] = 0
     \/ /\ c.kind = "release"
        /\ returned[c.by][c.at] = 0
        /\ pc[c.by] \in {"compensate", "release"} => c.at < at[c.by]
        /\ c.by \in Orders =>
             /\ pc[c.by] \in {"compensate", "refused"} /\ status[c.by] = "absent"
             /\ taken[c.by][c.at] = 1
        /\ c.by \in Cancels => c.by \in cancelled

StraysInv == \A c \in strays : StrayOK(c)

AnnouncedInv ==
  \A o \in Orders :
    /\ <<"OrderCreated", o>> \in announced => status[o] # "absent"
    /\ <<"OrderCancelled", o>> \in announced => \E t \in cancelled : about[t] = o

SagaInv == TypeOK /\ Control /\ TakenInv /\ ReturnedInv /\ StraysInv /\ AnnouncedInv

(* Without failures, what is behind a task that returns items is returned. *)
OnSale(o, i) == Listed(cart[o][i].product)

OrderBooks(o, i) ==
  /\ pc[o] = "compensate" /\ i > last[o] => taken[o][i] = 0
  /\ pc[o] = "compensate" /\ i =< last[o] /\ OnSale(o, i) /\ ~Ahead(o, i) => returned[o][i] = 1
  /\ pc[o] = "refused" /\ OnSale(o, i) => returned[o][i] = taken[o][i] /\ status[o] = "absent"

CancelBooks(t, i) ==
  OnSale(about[t], i) /\ (pc[t] = "release" => ~Ahead(t, i)) => returned[t][i] = 1

NoFailureInv ==
  faults = 0 =>
    /\ strays = {}
    /\ \A o \in Orders : \A i \in DOMAIN cart[o] : OrderBooks(o, i)
    /\ \A t \in cancelled : \A i \in DOMAIN cart[about[t]] : CancelBooks(t, i)

-----------------------------------------------------------------------------
(* Lines number the items of the carts from one. *)
LEMMA CartLines ==
  /\ \A c \in Carts : /\ Len(c) \in Nat \ {0} /\ DOMAIN c = 1..Len(c) /\ DOMAIN c \subseteq Lines
                      /\ \A i \in DOMAIN c : c[i] \in Item
  /\ Lines \subseteq Nat \ {0}
  <1>1. ASSUME NEW c \in Carts
        PROVE  /\ Len(c) \in Nat \ {0} /\ DOMAIN c = 1..Len(c) /\ DOMAIN c \subseteq Lines
               /\ \A i \in DOMAIN c : c[i] \in Item
    <2>1. c \in Seq(Item) /\ c # <<>> BY OrdersAssumption
    <2> QED BY <2>1 DEF Lines
  <1> QED BY <1>1 DEF Lines

(* A task is a create request, a cancellation or an update, and only one of them. *)
LEMMA TaskKinds ==
  /\ Orders \subseteq Tasks /\ Cancels \subseteq Tasks /\ Updates \subseteq Tasks
  /\ \A t \in Tasks : /\ t \in Orders \/ t \in Cancels \/ t \in Updates
                      /\ t \in Orders => t \notin Cancels /\ t \notin Updates
                      /\ t \in Cancels => t \notin Updates
  BY OrdersAssumption DEF Tasks

(* A task that calls, calls about an item of an order that has a cart. *)
LEMMA CallFacts ==
  ASSUME TypeOK, Control, NEW t \in Tasks, pc[t] \in Calling
  PROVE  /\ about[t] \in Orders /\ pc[about[t]] # "idle" /\ cart[about[t]] \in Carts
         /\ at[t] \in DOMAIN cart[about[t]] /\ at[t] \in Lines
         /\ at[t] \in Nat \ {0} /\ last[t] \in Nat \ {0} /\ at[t] =< last[t]
         /\ last[t] =< Len(cart[about[t]])
         /\ cart[about[t]][at[t]] \in Item /\ call[t] \in {"sent", "granted", "refused"}
         /\ pc[t] \in {"reserve", "compensate"} => t \in Orders /\ about[t] = t /\ status[t] = "absent"
         /\ pc[t] = "release" => t \in Cancels /\ t \in cancelled
  <1>1. /\ pc[t] \in {"reserve", "compensate"} => t \in Orders /\ about[t] = t /\ status[t] = "absent"
        /\ pc[t] = "release" => t \in Cancels /\ t \in cancelled
    BY TaskKinds DEF Control, Calling
  <1>2. about[t] \in Orders /\ pc[about[t]] # "idle"
    BY <1>1, TaskKinds DEF Control, Calling
  <1>3. cart[about[t]] \in Carts BY <1>2 DEF Control
  <1>4. /\ call[t] # "none" /\ at[t] \in 1..last[t] /\ last[t] \in DOMAIN cart[about[t]]
        /\ call[t] \in {"none", "sent", "granted", "refused"} /\ last[t] \in Nat
    BY DEF TypeOK
  <1>5. /\ last[t] =< Len(cart[about[t]]) /\ at[t] \in DOMAIN cart[about[t]]
    BY <1>3, <1>4, CartLines
  <1> QED BY <1>1, <1>2, <1>3, <1>4, <1>5, CartLines

-----------------------------------------------------------------------------
(* Init *)
LEMMA InitSaga == Init => SagaInv /\ NoFailureInv
  <1> SUFFICES ASSUME Init PROVE SagaInv /\ NoFailureInv
    OBVIOUS
  <1>1. stock \in [Products -> Nat] BY QuantitiesAssumption DEF Init
  <1>2. TypeOK
    BY <1>1, OrdersAssumption, TaskKinds DEF Init, TypeOK, WarehouseTypeOK, Steps, Calling
  <1>3. Control BY TaskKinds DEF Init, Control
  <1>4. TakenInv /\ ReturnedInv BY TaskKinds DEF Init, TakenInv, ReturnedInv
  <1>5. StraysInv /\ AnnouncedInv BY DEF Init, StraysInv, AnnouncedInv
  <1>6. NoFailureInv BY TaskKinds DEF Init, NoFailureInv, OrderBooks
  <1> QED BY <1>2, <1>3, <1>4, <1>5, <1>6 DEF SagaInv

-----------------------------------------------------------------------------
(* One task goes on, and the table, the warehouse and the history stay. *)
Moved(t, p, i, n, c) ==
  /\ pc' = [pc EXCEPT ![t] = p] /\ at' = [at EXCEPT ![t] = i]
  /\ last' = [last EXCEPT ![t] = n] /\ call' = [call EXCEPT ![t] = c]

Left(t) == strays' = strays \/ (call[t] = "sent" /\ strays' = strays \cup {TheCall(t)})

Legal(t, p, i, n, c) ==
  \/ /\ pc[t] = "reserve" /\ call[t] = "granted" /\ at[t] < last[t]
     /\ p = "reserve" /\ i = at[t] + 1 /\ n = last[t] /\ c = "sent"
  \/ /\ pc[t] = "reserve" /\ call[t] = "granted" /\ ~(at[t] < last[t])
     /\ p = "persist" /\ i = at[t] /\ n = last[t] /\ c = "none"
  \/ /\ pc[t] = "reserve" /\ at[t] # 1
     /\ p = "compensate" /\ i = 1 /\ n = at[t] - 1 /\ c = "sent"
  \/ /\ pc[t] \in {"compensate", "release"} /\ at[t] < last[t]
     /\ p = pc[t] /\ i = at[t] + 1 /\ n = last[t] /\ c = "sent"
  \/ /\ pc[t] = "release"
     /\ p = "announce" /\ i = at[t] /\ n = last[t] /\ c = "none"
  \/ /\ pc[t] \notin {"idle", "done", "refused"}
     /\ p = "refused" /\ i = at[t] /\ n = last[t] /\ c = "none"

(* A legal move keeps the invariant. *)
LEMMA MoveSaga ==
  ASSUME SagaInv, NEW t \in Tasks, NEW p, NEW i, NEW n, NEW c,
         Moved(t, p, i, n, c), Legal(t, p, i, n, c), Left(t), faults' \in 0..MaxFaults,
         UNCHANGED <<warehouseVars, tableVars, announced, about, new, read, history>>
  PROVE  SagaInv'
  <1>1. TypeOK /\ Control /\ TakenInv /\ ReturnedInv /\ StraysInv /\ AnnouncedInv
    BY DEF SagaInv
  <1>2. /\ pc'[t] = p /\ at'[t] = i /\ last'[t] = n /\ call'[t] = c
        /\ \A s \in Tasks : s # t => /\ pc'[s] = pc[s] /\ at'[s] = at[s] /\ last'[s] = last[s]
                                     /\ call'[s] = call[s]
        /\ phase' = phase /\ stock' = stock /\ status' = status /\ cart' = cart
        /\ announced' = announced /\ about' = about /\ new' = new /\ read' = read
        /\ taken' = taken /\ returned' = returned /\ cancelled' = cancelled
    BY <1>1 DEF TypeOK, Moved, warehouseVars, tableVars, history
  <1>3. pc[t] \in Calling =>
          /\ about[t] \in Orders /\ pc[about[t]] # "idle" /\ cart[about[t]] \in Carts
          /\ at[t] \in DOMAIN cart[about[t]] /\ at[t] \in Lines
          /\ at[t] \in Nat \ {0} /\ last[t] \in Nat \ {0} /\ at[t] =< last[t]
          /\ last[t] =< Len(cart[about[t]])
          /\ cart[about[t]][at[t]] \in Item /\ call[t] \in {"sent", "granted", "refused"}
          /\ pc[t] \in {"reserve", "compensate"} =>
               t \in Orders /\ about[t] = t /\ status[t] = "absent"
          /\ pc[t] = "release" => t \in Cancels /\ t \in cancelled
    BY <1>1, CallFacts
  <1>4. /\ i \in Nat /\ n \in Nat /\ p \in Steps
        /\ c \in {"none", "sent", "granted", "refused"}
        /\ IF p \in Calling THEN c # "none" /\ i \in 1..n /\ n \in 1..Len(cart[about[t]])
                            ELSE c = "none"
    <2>1. at[t] \in Nat /\ last[t] \in Nat /\ pc[t] \in Steps BY <1>1 DEF TypeOK
    <2>2. pc[t] \in Calling => Len(cart[about[t]]) \in Nat BY <1>3, CartLines
    <2>3. p \in Calling => pc[t] \in Calling BY DEF Legal, Calling
    <2>4. /\ i \in Nat /\ n \in Nat /\ p \in Steps /\ c \in {"none", "sent", "granted", "refused"}
          /\ p \in Calling => c = "sent"
          /\ p \notin Calling => c = "none"
      BY <1>3, <2>1 DEF Legal, Steps, Calling
    <2>5. p \in Calling => i \in 1..n BY <1>3, <2>1, <2>3 DEF Legal, Calling
    <2>6. p \in Calling => n \in 1..Len(cart[about[t]])
      BY <1>3, <2>1, <2>2, <2>3 DEF Legal, Calling
    <2> QED BY <2>4, <2>5, <2>6
  <1>5. TypeOK'
    <2>1. /\ pc' \in [Tasks -> Steps] /\ at' \in [Tasks -> Nat] /\ last' \in [Tasks -> Nat]
          /\ call' \in [Tasks -> {"none", "sent", "granted", "refused"}]
      BY <1>1, <1>4 DEF TypeOK, Moved
    <2>2. p \in Calling => pc[t] \in Calling BY DEF Legal, Calling
    <2>3. ASSUME NEW s \in Tasks
          PROVE  IF pc'[s] \in Calling
                 THEN call'[s] # "none" /\ at'[s] \in 1..last'[s] /\ last'[s] \in DOMAIN cart'[about'[s]]
                 ELSE call'[s] = "none"
      <3>1. CASE s = t BY <1>2, <1>3, <1>4, <2>2, <3>1, CartLines
      <3>2. CASE s # t BY <1>1, <1>2, <3>2 DEF TypeOK
      <3> QED BY <3>1, <3>2
    <2> QED BY <1>1, <1>2, <2>1, <2>3 DEF TypeOK, WarehouseTypeOK, Listed
  <1>6. Control'
    <2>1. /\ p # "idle" /\ pc[t] # "idle" /\ p # "commit" /\ pc[t] \notin {"done", "refused"}
          /\ t \in Orders => /\ p \in {"reserve", "compensate", "persist", "refused"}
                             /\ p = "reserve" => pc[t] = "reserve" /\ n = last[t]
                             /\ p # "refused" => status[t] = "absent"
          /\ t \in Cancels => /\ p \in {"release", "announce", "refused"}
                              /\ p # "refused" => pc[t] = "release" /\ n = last[t]
          /\ t \in Updates => p = "refused"
      BY <1>1, <1>3, TaskKinds DEF Legal, Control, Calling
    <2>2. ASSUME NEW o \in Orders
          PROVE  /\ about'[o] = o
                 /\ pc'[o] \in {"idle", "reserve", "compensate", "persist", "announce", "done", "refused"}
                 /\ pc'[o] = "idle" \/ cart'[o] \in Carts
                 /\ pc'[o] = "reserve" => last'[o] = Len(cart'[o])
                 /\ pc'[o] \in {"announce", "done"} => status'[o] # "absent"
                 /\ pc'[o] \in {"idle", "reserve", "compensate", "persist"} => status'[o] = "absent"
      BY <1>1, <1>2, <2>1, TaskKinds DEF Control
    <2>3. ASSUME NEW s \in Cancels
          PROVE  /\ pc'[s] \in {"idle", "commit", "release", "announce", "done", "refused"}
                 /\ pc'[s] = "release" => last'[s] = Len(cart'[about'[s]])
                 /\ pc'[s] \in {"announce", "done", "release"} => s \in cancelled'
                 /\ s \in cancelled' => pc'[s] \notin {"idle", "commit"}
      BY <1>1, <1>2, <2>1, TaskKinds DEF Control
    <2>4. ASSUME NEW s \in Updates PROVE pc'[s] \in {"idle", "commit", "done", "refused"}
      BY <1>1, <1>2, <2>1, TaskKinds DEF Control
    <2>5. ASSUME NEW s \in Tasks \ Orders
          PROVE  /\ pc'[s] \notin {"idle", "refused"} \/ s \in cancelled' =>
                      about'[s] \in Orders /\ status'[about'[s]] # "absent"
                 /\ pc'[s] = "commit" => new'[s] \in OrderStatuses
      BY <1>1, <1>2, <2>1, TaskKinds DEF Control
    <2> QED BY <2>2, <2>3, <2>4, <2>5 DEF Control
  <1>7. TakenInv'
    <2> SUFFICES ASSUME NEW o \in Orders, NEW k \in Lines
                 PROVE  /\ taken[o][k] \in {0, 1}
                        /\ pc'[o] = "idle" \/ k \notin DOMAIN cart[o] => taken[o][k] = 0
                        /\ k \in DOMAIN cart[o] =>
                             /\ pc'[o] = "reserve" =>
                                  taken[o][k] = IF k < at'[o] \/ (k = at'[o] /\ call'[o] = "granted")
                                                THEN 1 ELSE 0
                             /\ pc'[o] = "compensate" /\ k =< last'[o] => taken[o][k] = 1
                             /\ pc'[o] = "persist" \/ status[o] # "absent" => taken[o][k] = 1
      BY <1>2 DEF TakenInv
    <2>1. CASE o # t BY <1>1, <1>2, <2>1, TaskKinds DEF TakenInv
    <2>2. CASE o = t
      <3>1. k \in Nat BY CartLines
      <3>2. /\ taken[t][k] \in {0, 1}
            /\ pc[t] = "idle" \/ k \notin DOMAIN cart[t] => taken[t][k] = 0
            /\ k \in DOMAIN cart[t] =>
                 /\ pc[t] = "reserve" =>
                      taken[t][k] = IF k < at[t] \/ (k = at[t] /\ call[t] = "granted") THEN 1 ELSE 0
                 /\ pc[t] = "compensate" /\ k =< last[t] => taken[t][k] = 1
                 /\ pc[t] = "persist" \/ status[t] # "absent" => taken[t][k] = 1
        BY <1>1, <2>2 DEF TakenInv
      <3>3. pc[t] = "reserve" => last[t] = Len(cart[t]) /\ (k \in DOMAIN cart[t] => k =< last[t])
        BY <1>1, <1>3, <2>2, CartLines DEF Control, Calling
      <3> QED BY <1>2, <1>3, <2>2, <3>1, <3>2, <3>3 DEF Legal, Calling
    <2> QED BY <2>1, <2>2
  <1>8. ReturnedInv'
    <2> SUFFICES ASSUME NEW s \in Tasks, NEW k \in Lines
                 PROVE  /\ returned[s][k] \in {0, 1}
                        /\ pc'[s] \in {"compensate", "release"} /\ Ahead(s, k)' => returned[s][k] = 0
                        /\ s \in Orders =>
                             /\ returned[s][k] =< taken[s][k]
                             /\ status[s] # "absent" \/ pc'[s] \in {"idle", "reserve", "persist"} =>
                                  returned[s][k] = 0
                        /\ s \in Cancels /\ (s \notin cancelled \/ k \notin DOMAIN cart[about[s]]) =>
                             returned[s][k] = 0
      BY <1>2 DEF ReturnedInv
    <2>1. /\ returned[s][k] \in {0, 1} /\ k \in Nat
          /\ pc[s] \in {"compensate", "release"} /\ Ahead(s, k) => returned[s][k] = 0
          /\ s \in Orders =>
               /\ returned[s][k] =< taken[s][k]
               /\ status[s] # "absent" \/ pc[s] \in {"idle", "reserve", "persist"} =>
                    returned[s][k] = 0
          /\ s \in Cancels /\ (s \notin cancelled \/ k \notin DOMAIN cart[about[s]]) =>
               returned[s][k] = 0
      BY <1>1, CartLines DEF ReturnedInv
    <2>2. CASE s # t BY <1>2, <2>1, <2>2 DEF Ahead
    <2>3. CASE s = t BY <1>2, <1>3, <2>1, <2>3 DEF Ahead, Legal, Calling
    <2> QED BY <2>2, <2>3
  <1>9. StraysInv'
    <2>1. ASSUME NEW d \in strays PROVE StrayOK(d)'
      <3>1. StrayOK(d) /\ d.by \in Tasks /\ d.order \in Tasks BY <1>1, TaskKinds DEF StraysInv, StrayOK
      <3>2. p # "idle" BY DEF Legal, Calling
      <3>3. pc'[d.order] # "idle" BY <1>2, <3>1, <3>2 DEF StrayOK
      <3>4. CASE d.by # t BY <1>2, <3>1, <3>3, <3>4 DEF StrayOK
      <3>5. CASE d.by = t
        <4>1. /\ pc[t] = "refused" => FALSE
              /\ pc[t] = "compensate" => p \in {"compensate", "refused"}
              /\ t \in Orders => pc[t] \in {"compensate", "refused"}
              /\ t \in Cancels /\ p \in {"compensate", "release"} => pc[t] \in {"compensate", "release"}
              /\ p \in {"compensate", "release"} /\ pc[t] \in {"compensate", "release"} => at[t] < i
          BY <1>3, <3>1, <3>5, TaskKinds DEF StrayOK, Legal, Calling
        <4>2. p \in {"compensate", "release"} => pc[t] \in {"compensate", "release"}
          BY <3>1, <3>5, <4>1 DEF StrayOK, Legal
        <4>3. p \in {"compensate", "release"} /\ d.kind = "release" => d.at < i
          <5>1. d.at \in Nat
            <6>1. cart[d.order] \in Carts BY <1>1, <3>1 DEF StrayOK, Control
            <6> QED BY <3>1, <6>1, CartLines DEF StrayOK
          <5> QED BY <1>1, <1>4, <3>1, <3>5, <4>1, <4>2, <5>1 DEF StrayOK, TypeOK
        <4>4. t \in Orders => p \in {"compensate", "refused"} BY <4>1
        <4> QED BY <1>2, <3>1, <3>3, <3>5, <4>3, <4>4 DEF StrayOK
      <3> QED BY <3>4, <3>5
    <2>2. ASSUME NEW d, d = TheCall(t), call[t] = "sent" PROVE StrayOK(d)'
      <3>1. pc[t] \in Calling BY <1>1, <2>2 DEF TypeOK
      <3>2. p # "idle" /\ p # "reserve" /\ p # "persist" BY <1>3, <2>2, <3>1 DEF Legal, Calling
      <3>3. /\ d.by = t /\ d.at = at[t] /\ d.order = about[t]
            /\ d.kind = IF pc[t] = "reserve" THEN "reserve" ELSE "release"
            /\ d = [by |-> d.by, at |-> d.at, kind |-> d.kind, order |-> d.order,
                    item |-> cart[d.order][d.at]]
        BY <2>2 DEF TheCall
      <3>4. pc'[about[t]] # "idle" BY <1>2, <1>3, <3>1, <3>2, TaskKinds
      <3>5. CASE pc[t] = "reserve"
        <4>1. p \in {"compensate", "refused"} BY <2>2, <3>5 DEF Legal
        <4>2. taken[t][at[t]] = 0 BY <1>1, <1>3, <2>2, <3>1, <3>5 DEF TakenInv
        <4> QED BY <1>2, <1>3, <3>1, <3>3, <3>4, <3>5, <4>1, <4>2 DEF StrayOK
      <3>6. CASE pc[t] # "reserve"
        <4>1. /\ returned[t][at[t]] = 0
              /\ t \in Orders => taken[t][at[t]] = 1 /\ pc[t] = "compensate" /\ p \in {"compensate", "refused"}
              /\ p \in {"compensate", "release"} => at[t] < i
          <5>1. pc[t] \in {"compensate", "release"} BY <3>1, <3>6 DEF Calling
          <5>2. Ahead(t, at[t]) BY <2>2 DEF Ahead
          <5>3. returned[t][at[t]] = 0 BY <1>1, <1>3, <3>1, <5>1, <5>2 DEF ReturnedInv
          <5>4. t \in Orders => pc[t] = "compensate" /\ p \in {"compensate", "refused"}
            BY <1>3, <3>1, <5>1, TaskKinds DEF Legal
          <5>5. t \in Orders => taken[t][at[t]] = 1
            BY <1>1, <1>3, <3>1, <5>4 DEF TakenInv
          <5>6. p \in {"compensate", "release"} => at[t] < i
            BY <1>3, <3>1, <5>1 DEF Legal
          <5> QED BY <5>3, <5>4, <5>5, <5>6
        <4>5. t \in Orders \/ (t \in Cancels /\ t \in cancelled /\ t \notin Orders)
          BY <1>3, <3>1, TaskKinds DEF Calling
        <4>2. d.kind = "release" BY <3>3, <3>6
        <4>3. t \in Orders => status[t] = "absent" BY <1>3, <3>1, <4>1
        <4>4. pc'[t] \in {"compensate", "release"} => at[t] < at'[t] BY <1>2, <4>1
        <4>6. /\ (d.by \in Orders \cup Cancels)' /\ (d.order = about[d.by])' /\ (d.order \in Orders)'
              /\ (pc[d.order] # "idle")' /\ (d.at \in DOMAIN cart[d.order])'
          BY <1>2, <1>3, <3>1, <3>3, <3>4, <4>5
        <4>7. (d = [by |-> d.by, at |-> d.at, kind |-> d.kind, order |-> d.order,
                    item |-> cart[d.order][d.at]])'
          BY <1>2, <3>3
        <4>8. /\ (returned[d.by][d.at] = 0)'
              /\ (pc[d.by] \in {"compensate", "release"} => d.at < at[d.by])'
          BY <1>2, <3>3, <4>1, <4>4
        <4>9. (d.by \in Orders => /\ pc[d.by] \in {"compensate", "refused"} /\ status[d.by] = "absent"
                                  /\ taken[d.by][d.at] = 1)'
          BY <1>2, <3>3, <4>1, <4>3
        <4>10. (d.by \in Cancels => d.by \in cancelled)'
          BY <1>2, <3>3, <4>5, TaskKinds
        <4> QED BY <4>2, <4>6, <4>7, <4>8, <4>9, <4>10 DEF StrayOK
      <3> QED BY <3>5, <3>6
    <2>3. \A d \in strays' : d \in strays \/ (call[t] = "sent" /\ d = TheCall(t)) BY DEF Left
    <2> QED BY <2>1, <2>2, <2>3 DEF StraysInv
  <1>10. AnnouncedInv'
    <2>1. UNCHANGED <<status, announced, about, cancelled>> BY DEF tableVars, history
    <2>2. AnnouncedInv BY <1>1
    <2> QED BY <2>1, <2>2 DEF AnnouncedInv
  <1> QED BY <1>5, <1>6, <1>7, <1>8, <1>9, <1>10 DEF SagaInv

-----------------------------------------------------------------------------
(* create_order: the call for the first item is sent. *)
LEMMA CreateSaga ==
  ASSUME SagaInv, NEW o \in Orders, NEW c \in Carts, Create(o, c)
  PROVE  SagaInv'
  <1>1. TypeOK /\ Control /\ TakenInv /\ ReturnedInv /\ StraysInv /\ AnnouncedInv /\ o \in Tasks
    BY TaskKinds DEF SagaInv
  <1>2. /\ pc[o] = "idle" /\ pc'[o] = "reserve" /\ at'[o] = 1 /\ last'[o] = Len(c)
        /\ call'[o] = "sent" /\ cart'[o] = c
        /\ \A s \in Tasks : s # o => /\ pc'[s] = pc[s] /\ at'[s] = at[s] /\ last'[s] = last[s]
                                     /\ call'[s] = call[s]
        /\ \A q \in Orders : q # o => cart'[q] = cart[q]
        /\ phase' = phase /\ stock' = stock /\ status' = status /\ announced' = announced
        /\ about' = about /\ new' = new /\ read' = read /\ strays' = strays /\ faults' = faults
        /\ taken' = taken /\ returned' = returned /\ cancelled' = cancelled
    BY <1>1 DEF Create, CallFrom, Goto, TypeOK, warehouseVars, history
  <1>3. /\ Len(c) \in Nat \ {0} /\ DOMAIN c = 1..Len(c) BY CartLines
  <1>4. ASSUME NEW s \in Tasks, s # o, pc[s] \in Calling PROVE about[s] # o /\ about[s] \in Orders
    BY <1>1, <1>2, <1>4, CallFacts
  <1>5. TypeOK'
    <2>1. /\ pc' \in [Tasks -> Steps] /\ at' \in [Tasks -> Nat] /\ last' \in [Tasks -> Nat]
          /\ call' \in [Tasks -> {"none", "sent", "granted", "refused"}]
          /\ cart' \in [Orders -> Carts \cup {<<>>}]
      BY <1>1, <1>3 DEF TypeOK, Create, CallFrom, Goto, Steps, Calling
    <2>2. ASSUME NEW s \in Tasks
          PROVE  IF pc'[s] \in Calling
                 THEN call'[s] # "none" /\ at'[s] \in 1..last'[s] /\ last'[s] \in DOMAIN cart'[about'[s]]
                 ELSE call'[s] = "none"
      <3>1. CASE s = o
        <4>1. about[o] = o BY <1>1 DEF Control
        <4> QED BY <1>2, <1>3, <3>1, <4>1 DEF Calling
      <3>2. CASE s # o BY <1>1, <1>2, <1>4, <3>2 DEF TypeOK
      <3> QED BY <3>1, <3>2
    <2> QED BY <1>1, <1>2, <2>1, <2>2 DEF TypeOK, WarehouseTypeOK, Listed
  <1>6. Control'
    <2>1. o \notin Cancels /\ o \notin Updates BY <1>1, TaskKinds
    <2>2. ASSUME NEW q \in Orders
          PROVE  /\ about'[q] = q
                 /\ pc'[q] \in {"idle", "reserve", "compensate", "persist", "announce", "done", "refused"}
                 /\ pc'[q] = "idle" \/ cart'[q] \in Carts
                 /\ pc'[q] = "reserve" => last'[q] = Len(cart'[q])
                 /\ pc'[q] \in {"announce", "done"} => status'[q] # "absent"
                 /\ pc'[q] \in {"idle", "reserve", "compensate", "persist"} => status'[q] = "absent"
      BY <1>1, <1>2, TaskKinds DEF Control
    <2>3. ASSUME NEW s \in Cancels
          PROVE  /\ pc'[s] \in {"idle", "commit", "release", "announce", "done", "refused"}
                 /\ pc'[s] = "release" => last'[s] = Len(cart'[about'[s]])
                 /\ pc'[s] \in {"announce", "done", "release"} => s \in cancelled'
                 /\ s \in cancelled' => pc'[s] \notin {"idle", "commit"}
      BY <1>1, <1>2, <1>4, <2>1, TaskKinds DEF Control, Calling
    <2>4. ASSUME NEW s \in Updates PROVE pc'[s] \in {"idle", "commit", "done", "refused"}
      BY <1>1, <1>2, <2>1, TaskKinds DEF Control
    <2>5. ASSUME NEW s \in Tasks \ Orders
          PROVE  /\ pc'[s] \notin {"idle", "refused"} \/ s \in cancelled' =>
                      about'[s] \in Orders /\ status'[about'[s]] # "absent"
                 /\ pc'[s] = "commit" => new'[s] \in OrderStatuses
      BY <1>1, <1>2, TaskKinds DEF Control
    <2> QED BY <2>2, <2>3, <2>4, <2>5 DEF Control
  <1>7. TakenInv'
    <2>1. ASSUME NEW k \in Lines PROVE taken[o][k] = 0 /\ k \in Nat \ {0}
      BY <1>1, <1>2, CartLines DEF TakenInv
    <2>2. status[o] = "absent" BY <1>1, <1>2 DEF Control
    <2> QED BY <1>1, <1>2, <2>1, <2>2, TaskKinds DEF TakenInv
  <1>8. ReturnedInv'
    <2>1. ASSUME NEW s \in Tasks, NEW k \in Lines
          PROVE  /\ returned[s][k] \in {0, 1}
                 /\ pc'[s] \in {"compensate", "release"} /\ Ahead(s, k)' => returned[s][k] = 0
                 /\ s \in Orders =>
                      /\ returned[s][k] =< taken[s][k]
                      /\ status[s] # "absent" \/ pc'[s] \in {"idle", "reserve", "persist"} =>
                           returned[s][k] = 0
      BY <1>1, <1>2 DEF ReturnedInv, Ahead
    <2>2. ASSUME NEW s \in Tasks, NEW k \in Lines, s \in Cancels,
                 s \notin cancelled \/ k \notin DOMAIN cart'[about[s]]
          PROVE  returned[s][k] = 0
      <3>1. CASE s \notin cancelled BY <1>1, <2>2, <3>1 DEF ReturnedInv
      <3>2. CASE s \in cancelled
        <4>1. about[s] \in Orders /\ status[about[s]] # "absent"
          BY <1>1, <2>2, <3>2, TaskKinds DEF Control
        <4>2. about[s] # o BY <1>1, <1>2, <4>1 DEF Control
        <4> QED BY <1>1, <1>2, <2>2, <3>2, <4>1, <4>2 DEF ReturnedInv
      <3> QED BY <3>1, <3>2
    <2> QED BY <1>2, <2>1, <2>2 DEF ReturnedInv
  <1>9. StraysInv'
    <2>1. ASSUME NEW d \in strays PROVE StrayOK(d)'
      <3>1. StrayOK(d) BY <1>1 DEF StraysInv
      <3>2. d.by # o /\ d.order # o /\ d.order \in Tasks /\ d.by \in Tasks
        BY <1>2, <3>1, TaskKinds DEF StrayOK
      <3> QED BY <1>2, <3>1, <3>2 DEF StrayOK
    <2> QED BY <1>2, <2>1 DEF StraysInv
  <1>10. AnnouncedInv' BY <1>1, <1>2 DEF AnnouncedInv
  <1> QED BY <1>5, <1>6, <1>7, <1>8, <1>9, <1>10 DEF SagaInv

(* A cancellation or an update reads its row, or finds that it may not go on. *)
LEMMA LoadSaga ==
  ASSUME SagaInv, NEW t \in Cancels \cup Updates, NEW o \in Orders, NEW s \in OrderStatuses,
         Load(t, o, s)
  PROVE  SagaInv'
  <1>1. /\ TypeOK /\ Control /\ TakenInv /\ ReturnedInv /\ StraysInv /\ AnnouncedInv
        /\ t \in Tasks /\ t \notin Orders
    BY TaskKinds DEF SagaInv
  <1>2. /\ pc[t] = "idle" /\ pc'[t] \in {"refused", "commit"} /\ about'[t] = o /\ new'[t] = s
        /\ pc'[t] = "commit" => status[o] # "absent"
        /\ \A u \in Tasks : u # t => pc'[u] = pc[u] /\ about'[u] = about[u] /\ new'[u] = new[u]
        /\ phase' = phase /\ stock' = stock /\ status' = status /\ announced' = announced
        /\ cart' = cart /\ at' = at /\ last' = last /\ call' = call
        /\ strays' = strays /\ faults' = faults
        /\ taken' = taken /\ returned' = returned /\ cancelled' = cancelled
    BY <1>1 DEF Load, Goto, Accepts, TypeOK, warehouseVars, tableVars, history
  <1>3. t \notin cancelled BY <1>1, <1>2, TaskKinds DEF Control, TypeOK
  <1>4. TypeOK'
    <2>1. /\ pc' \in [Tasks -> Steps] /\ about' \in [Tasks -> Orders \cup {None}]
          /\ new' \in [Tasks -> OrderStatuses \cup {None}]
          /\ read' \in [Tasks -> OrderStatuses \cup {None}]
      BY <1>1 DEF TypeOK, Load, Goto, Steps, Accepts
    <2>2. ASSUME NEW u \in Tasks
          PROVE  IF pc'[u] \in Calling
                 THEN call'[u] # "none" /\ at'[u] \in 1..last'[u] /\ last'[u] \in DOMAIN cart'[about'[u]]
                 ELSE call'[u] = "none"
      BY <1>1, <1>2 DEF TypeOK, Calling
    <2> QED BY <1>1, <1>2, <2>1, <2>2 DEF TypeOK, WarehouseTypeOK, Listed
  <1>5. Control' BY <1>1, <1>2, <1>3, TaskKinds DEF Control
  <1>6. TakenInv' BY <1>1, <1>2, TaskKinds DEF TakenInv
  <1>7. ReturnedInv'
    <2>1. ASSUME NEW u \in Tasks, NEW k \in Lines
          PROVE  /\ returned[u][k] \in {0, 1}
                 /\ pc'[u] \in {"compensate", "release"} /\ Ahead(u, k)' => returned[u][k] = 0
                 /\ u \in Orders =>
                      /\ returned[u][k] =< taken[u][k]
                      /\ status[u] # "absent" \/ pc'[u] \in {"idle", "reserve", "persist"} =>
                           returned[u][k] = 0
                 /\ u \in Cancels /\ (u \notin cancelled \/ k \notin DOMAIN cart[about'[u]]) =>
                      returned[u][k] = 0
      <3>1. CASE u = t BY <1>1, <1>2, <1>3, <3>1 DEF ReturnedInv
      <3>2. CASE u # t BY <1>1, <1>2, <3>2 DEF ReturnedInv, Ahead
      <3> QED BY <3>1, <3>2
    <2> QED BY <1>2, <2>1 DEF ReturnedInv
  <1>8. StraysInv'
    <2>1. ASSUME NEW d \in strays PROVE StrayOK(d)'
      <3>1. StrayOK(d) BY <1>1 DEF StraysInv
      <3>2. d.by # t /\ d.order # t /\ d.order \in Tasks /\ d.by \in Tasks
        BY <1>1, <1>3, <3>1, TaskKinds DEF StrayOK
      <3> QED BY <1>2, <3>1, <3>2 DEF StrayOK
    <2> QED BY <1>2, <2>1 DEF StraysInv
  <1>9. AnnouncedInv'
    <2>1. \A u \in cancelled : about'[u] = about[u]
      BY <1>1, <1>2, <1>3, TaskKinds DEF TypeOK
    <2>2. ASSUME NEW q \in Orders, <<"OrderCancelled", q>> \in announced
          PROVE  \E u \in cancelled : about'[u] = q
      <3>1. PICK u \in cancelled : about[u] = q BY <1>1, <2>2 DEF AnnouncedInv
      <3> QED BY <2>1, <3>1
    <2>3. \A q \in Orders : <<"OrderCreated", q>> \in announced => status[q] # "absent"
      BY <1>1 DEF AnnouncedInv
    <2>4. announced' = announced /\ status' = status /\ cancelled' = cancelled BY <1>2
    <2> QED BY <2>2, <2>3, <2>4 DEF AnnouncedInv
  <1> QED BY <1>4, <1>5, <1>6, <1>7, <1>8, <1>9 DEF SagaInv

(* The order gets its row, when all its items are reserved. *)
LEMMA PersistSaga ==
  ASSUME SagaInv, NEW o \in Orders, Persist(o)
  PROVE  SagaInv'
  <1>1. TypeOK /\ Control /\ TakenInv /\ ReturnedInv /\ StraysInv /\ AnnouncedInv /\ o \in Tasks
    BY TaskKinds DEF SagaInv
  <1>2. /\ pc[o] = "persist" /\ pc'[o] = "announce" /\ status'[o] = "PENDING"
        /\ \A s \in Tasks : s # o => pc'[s] = pc[s]
        /\ \A q \in Orders : q # o => status'[q] = status[q]
        /\ phase' = phase /\ stock' = stock /\ cart' = cart /\ announced' = announced
        /\ about' = about /\ new' = new /\ read' = read /\ strays' = strays /\ faults' = faults
        /\ at' = at /\ last' = last /\ call' = call
        /\ taken' = taken /\ returned' = returned /\ cancelled' = cancelled
    BY <1>1 DEF Persist, Goto, TypeOK, warehouseVars, history
  <1>3. TypeOK'
    <2>1. /\ pc' \in [Tasks -> Steps] /\ status' \in [Orders -> OrderStatuses \cup {"absent"}]
      BY <1>1 DEF TypeOK, Persist, Goto, Steps, OrderStatuses
    <2>2. ASSUME NEW s \in Tasks
          PROVE  IF pc'[s] \in Calling
                 THEN call'[s] # "none" /\ at'[s] \in 1..last'[s] /\ last'[s] \in DOMAIN cart'[about'[s]]
                 ELSE call'[s] = "none"
      BY <1>1, <1>2 DEF TypeOK, Calling
    <2> QED BY <1>1, <1>2, <2>1, <2>2 DEF TypeOK, WarehouseTypeOK, Listed
  <1>4. Control'
    <2>1. o \notin Cancels /\ o \notin Updates BY <1>1, TaskKinds
    <2>2. ASSUME NEW s \in Tasks \ Orders
          PROVE  /\ pc'[s] \notin {"idle", "refused"} \/ s \in cancelled' =>
                      about'[s] \in Orders /\ status'[about'[s]] # "absent"
                 /\ pc'[s] = "commit" => new'[s] \in OrderStatuses
      BY <1>1, <1>2 DEF Control
    <2> QED BY <1>1, <1>2, <2>1, <2>2, TaskKinds DEF Control
  <1>5. TakenInv' BY <1>1, <1>2, TaskKinds DEF TakenInv
  <1>6. ReturnedInv' BY <1>1, <1>2, TaskKinds DEF ReturnedInv, Ahead
  <1>7. StraysInv'
    <2>1. ASSUME NEW d \in strays PROVE StrayOK(d)'
      <3>1. StrayOK(d) BY <1>1 DEF StraysInv
      <3>2. d.by # o /\ d.order \in Tasks /\ d.by \in Tasks
        BY <1>1, <1>2, <3>1, TaskKinds DEF StrayOK
      <3>3. d.by \in Orders => status'[d.by] = status[d.by] BY <1>2, <3>2
      <3>4. pc'[d.order] # "idle" BY <1>2, <3>1, <3>2 DEF StrayOK
      <3> QED BY <1>2, <3>1, <3>2, <3>3, <3>4 DEF StrayOK
    <2> QED BY <1>2, <2>1 DEF StraysInv
  <1>8. AnnouncedInv' BY <1>1, <1>2 DEF AnnouncedInv
  <1> QED BY <1>3, <1>4, <1>5, <1>6, <1>7, <1>8 DEF SagaInv

(* A task that announces its order has given it a row, or cancelled it. *)
LEMMA AnnounceSaga ==
  ASSUME SagaInv, NEW t \in Tasks, Announce(t)
  PROVE  SagaInv'
  <1>1. TypeOK /\ Control /\ TakenInv /\ ReturnedInv /\ StraysInv /\ AnnouncedInv
    BY DEF SagaInv
  <1> DEFINE event == <<IF t \in Orders THEN "OrderCreated" ELSE "OrderCancelled", about[t]>>
  <1>2. /\ pc[t] = "announce" /\ pc'[t] = "done" /\ announced' = announced \cup {event}
        /\ \A s \in Tasks : s # t => pc'[s] = pc[s]
        /\ phase' = phase /\ stock' = stock /\ cart' = cart /\ status' = status
        /\ about' = about /\ new' = new /\ read' = read /\ strays' = strays /\ faults' = faults
        /\ at' = at /\ last' = last /\ call' = call
        /\ taken' = taken /\ returned' = returned /\ cancelled' = cancelled
    BY <1>1 DEF Announce, Goto, TypeOK, warehouseVars, tableVars, history
  <1>3. t \in Orders \/ (t \in Cancels /\ t \in cancelled /\ t \notin Orders)
    BY <1>1, <1>2, TaskKinds DEF Control
  <1>4. TypeOK'
    <2>1. pc' \in [Tasks -> Steps] BY <1>1 DEF TypeOK, Announce, Goto, Steps
    <2>2. ASSUME NEW s \in Tasks
          PROVE  IF pc'[s] \in Calling
                 THEN call'[s] # "none" /\ at'[s] \in 1..last'[s] /\ last'[s] \in DOMAIN cart'[about'[s]]
                 ELSE call'[s] = "none"
      BY <1>1, <1>2 DEF TypeOK, Calling
    <2> QED BY <1>1, <1>2, <2>1, <2>2 DEF TypeOK, WarehouseTypeOK, Listed
  <1>5. Control' BY <1>1, <1>2, <1>3, TaskKinds DEF Control
  <1>6. TakenInv' BY <1>1, <1>2, TaskKinds DEF TakenInv
  <1>7. ReturnedInv' BY <1>1, <1>2, TaskKinds DEF ReturnedInv, Ahead
  <1>8. StraysInv'
    <2>1. ASSUME NEW d \in strays PROVE StrayOK(d)'
      <3>1. StrayOK(d) BY <1>1 DEF StraysInv
      <3>2. d.order \in Tasks /\ d.by \in Tasks BY <3>1, TaskKinds DEF StrayOK
      <3>3. d.by \in Orders => d.by # t BY <1>2, <3>1 DEF StrayOK
      <3>4. /\ pc'[d.order] # "idle" /\ (d.by \in Orders => pc'[d.by] = pc[d.by])
            /\ pc'[d.by] \in {"compensate", "release"} => pc[d.by] = pc'[d.by]
        BY <1>2, <3>1, <3>2, <3>3 DEF StrayOK
      <3>5. d.kind = "reserve" => d.by \in Orders BY <3>1 DEF StrayOK
      <3> QED BY <1>2, <3>1, <3>4, <3>5 DEF StrayOK
    <2> QED BY <1>2, <2>1 DEF StraysInv
  <1>9. AnnouncedInv'
    <2>1. CASE t \in Orders
      <3>1. about[t] = t /\ status[t] # "absent" BY <1>1, <1>2, <2>1 DEF Control
      <3> QED BY <1>1, <1>2, <2>1, <3>1 DEF AnnouncedInv
    <2>2. CASE t \notin Orders BY <1>1, <1>2, <1>3, <2>2 DEF AnnouncedInv
    <2> QED BY <2>1, <2>2
  <1> QED BY <1>4, <1>5, <1>6, <1>7, <1>8, <1>9 DEF SagaInv

(* Setting the status of an order that exists leaves one that exists. *)
LEMMA StatusSet ==
  ASSUME TypeOK, Control, NEW t \in Tasks \ Orders, pc[t] = "commit", SetStatus(t)
  PROVE  /\ about[t] \in Orders /\ status[about[t]] # "absent"
         /\ status' \in [Orders -> OrderStatuses \cup {"absent"}]
         /\ \A o \in Orders : status'[o] = "absent" <=> status[o] = "absent"
  <1>1. about[t] \in Orders /\ status[about[t]] # "absent" /\ new[t] \in OrderStatuses
    BY DEF Control
  <1>2. "absent" \notin OrderStatuses BY DEF OrderStatuses
  <1>3. status \in [Orders -> OrderStatuses \cup {"absent"}] BY DEF TypeOK
  <1> QED BY <1>1, <1>2, <1>3 DEF SetStatus

(* An update is done when its status is set. *)
LEMMA CommitUpdateSaga ==
  ASSUME SagaInv, NEW t \in Tasks, CommitUpdate(t)
  PROVE  SagaInv'
  <1>1. /\ TypeOK /\ Control /\ TakenInv /\ ReturnedInv /\ StraysInv /\ AnnouncedInv
        /\ t \in Updates /\ t \notin Orders /\ t \notin Cancels
    BY TaskKinds DEF SagaInv, CommitUpdate
  <1>2. /\ pc[t] = "commit" /\ pc'[t] = "done" /\ SetStatus(t)
        /\ \A s \in Tasks : s # t => pc'[s] = pc[s]
        /\ phase' = phase /\ stock' = stock /\ cart' = cart /\ announced' = announced
        /\ about' = about /\ new' = new /\ read' = read /\ strays' = strays /\ faults' = faults
        /\ at' = at /\ last' = last /\ call' = call
        /\ taken' = taken /\ returned' = returned /\ cancelled' = cancelled
    BY <1>1 DEF CommitUpdate, Goto, TypeOK, warehouseVars, history
  <1>3. /\ about[t] \in Orders /\ status[about[t]] # "absent"
        /\ status' \in [Orders -> OrderStatuses \cup {"absent"}]
        /\ \A o \in Orders : status'[o] = "absent" <=> status[o] = "absent"
    BY <1>1, <1>2, StatusSet
  <1>4. TypeOK'
    <2>1. pc' \in [Tasks -> Steps] BY <1>1 DEF TypeOK, CommitUpdate, Goto, Steps
    <2>2. ASSUME NEW s \in Tasks
          PROVE  IF pc'[s] \in Calling
                 THEN call'[s] # "none" /\ at'[s] \in 1..last'[s] /\ last'[s] \in DOMAIN cart'[about'[s]]
                 ELSE call'[s] = "none"
      BY <1>1, <1>2 DEF TypeOK, Calling
    <2> QED BY <1>1, <1>2, <1>3, <2>1, <2>2 DEF TypeOK, WarehouseTypeOK, Listed
  <1>5. Control' BY <1>1, <1>2, <1>3, TaskKinds DEF Control
  <1>6. TakenInv' BY <1>1, <1>2, <1>3, TaskKinds DEF TakenInv
  <1>7. ReturnedInv' BY <1>1, <1>2, <1>3, TaskKinds DEF ReturnedInv, Ahead
  <1>8. StraysInv'
    <2>1. ASSUME NEW d \in strays PROVE StrayOK(d)'
      <3>1. StrayOK(d) BY <1>1 DEF StraysInv
      <3>2. d.order # t /\ d.by # t /\ d.order \in Tasks /\ d.by \in Tasks
        BY <1>1, <3>1, TaskKinds DEF StrayOK
      <3>3. d.by \in Orders => (status'[d.by] = "absent" <=> status[d.by] = "absent") BY <1>3
      <3>4. d.kind = "reserve" => d.by \in Orders BY <3>1 DEF StrayOK
      <3> QED BY <1>2, <3>1, <3>2, <3>3, <3>4 DEF StrayOK
    <2> QED BY <1>2, <2>1 DEF StraysInv
  <1>9. AnnouncedInv' BY <1>1, <1>2, <1>3 DEF AnnouncedInv
  <1> QED BY <1>4, <1>5, <1>6, <1>7, <1>8, <1>9 DEF SagaInv

(* A cancellation commits and calls to release the first item. *)
LEMMA CommitCancelSaga ==
  ASSUME SagaInv, NEW t \in Tasks, CommitCancel(t)
  PROVE  SagaInv'
  <1>1. /\ TypeOK /\ Control /\ TakenInv /\ ReturnedInv /\ StraysInv /\ AnnouncedInv
        /\ t \in Cancels /\ t \notin Orders /\ t \notin Updates
    BY TaskKinds DEF SagaInv, CommitCancel
  <1>2. /\ pc[t] = "commit" /\ pc'[t] = "release" /\ SetStatus(t)
        /\ at'[t] = 1 /\ last'[t] = Len(cart[about[t]]) /\ call'[t] = "sent"
        /\ \A s \in Tasks : s # t => /\ pc'[s] = pc[s] /\ at'[s] = at[s] /\ last'[s] = last[s]
                                     /\ call'[s] = call[s]
        /\ phase' = phase /\ stock' = stock /\ cart' = cart /\ announced' = announced
        /\ about' = about /\ new' = new /\ read' = read /\ strays' = strays /\ faults' = faults
        /\ taken' = taken /\ returned' = returned /\ cancelled' = cancelled \cup {t}
    BY <1>1 DEF CommitCancel, CallFrom, Goto, TypeOK, warehouseVars
  <1>3. /\ about[t] \in Orders /\ status[about[t]] # "absent"
        /\ status' \in [Orders -> OrderStatuses \cup {"absent"}]
        /\ \A o \in Orders : status'[o] = "absent" <=> status[o] = "absent"
    BY <1>1, <1>2, StatusSet
  <1>4. t \notin cancelled BY <1>1, <1>2 DEF Control
  <1>5. /\ Len(cart[about[t]]) \in Nat \ {0}
        /\ DOMAIN cart[about[t]] = 1..Len(cart[about[t]])
    <2>1. cart[about[t]] \in Carts BY <1>1, <1>3 DEF Control
    <2> QED BY <2>1, CartLines
  <1>6. TypeOK'
    <2>1. /\ pc' \in [Tasks -> Steps] /\ at' \in [Tasks -> Nat] /\ last' \in [Tasks -> Nat]
          /\ call' \in [Tasks -> {"none", "sent", "granted", "refused"}]
          /\ cancelled' \subseteq Cancels
      BY <1>1, <1>2, <1>5 DEF TypeOK, CommitCancel, CallFrom, Goto, Steps, Calling
    <2>2. ASSUME NEW s \in Tasks
          PROVE  IF pc'[s] \in Calling
                 THEN call'[s] # "none" /\ at'[s] \in 1..last'[s] /\ last'[s] \in DOMAIN cart'[about'[s]]
                 ELSE call'[s] = "none"
      <3>1. CASE s = t BY <1>2, <1>5, <3>1 DEF Calling
      <3>2. CASE s # t BY <1>1, <1>2, <3>2 DEF TypeOK
      <3> QED BY <3>1, <3>2
    <2> QED BY <1>1, <1>2, <1>3, <2>1, <2>2 DEF TypeOK, WarehouseTypeOK, Listed
  <1>7. Control'
    <2>1. ASSUME NEW s \in Tasks \ Orders
          PROVE  /\ pc'[s] \notin {"idle", "refused"} \/ s \in cancelled' =>
                      about'[s] \in Orders /\ status'[about'[s]] # "absent"
                 /\ pc'[s] = "commit" => new'[s] \in OrderStatuses
      BY <1>1, <1>2, <1>3 DEF Control
    <2> QED BY <1>1, <1>2, <1>3, <2>1, TaskKinds DEF Control
  <1>8. TakenInv' BY <1>1, <1>2, <1>3, TaskKinds DEF TakenInv
  <1>9. ReturnedInv'
    <2>1. ASSUME NEW u \in Tasks, NEW k \in Lines
          PROVE  /\ returned[u][k] \in {0, 1}
                 /\ pc'[u] \in {"compensate", "release"} /\ Ahead(u, k)' => returned[u][k] = 0
                 /\ u \in Orders =>
                      /\ returned[u][k] =< taken[u][k]
                      /\ status'[u] # "absent" \/ pc'[u] \in {"idle", "reserve", "persist"} =>
                           returned[u][k] = 0
                 /\ u \in Cancels /\ (u \notin cancelled' \/ k \notin DOMAIN cart[about[u]]) =>
                      returned[u][k] = 0
      <3>1. CASE u = t BY <1>1, <1>2, <1>4, <3>1 DEF ReturnedInv
      <3>2. CASE u # t BY <1>1, <1>2, <1>3, <3>2 DEF ReturnedInv, Ahead
      <3> QED BY <3>1, <3>2
    <2> QED BY <1>2, <2>1 DEF ReturnedInv
  <1>10. StraysInv'
    <2>1. ASSUME NEW d \in strays PROVE StrayOK(d)'
      <3>1. StrayOK(d) BY <1>1 DEF StraysInv
      <3>2. d.order # t /\ d.by # t /\ d.order \in Tasks /\ d.by \in Tasks
        BY <1>1, <1>4, <3>1, TaskKinds DEF StrayOK
      <3>3. d.by \in Orders => (status'[d.by] = "absent" <=> status[d.by] = "absent") BY <1>3
      <3>4. d.kind = "reserve" => d.by \in Orders BY <3>1 DEF StrayOK
      <3> QED BY <1>2, <3>1, <3>2, <3>3, <3>4 DEF StrayOK
    <2> QED BY <1>2, <2>1 DEF StraysInv
  <1>11. AnnouncedInv' BY <1>1, <1>2, <1>3 DEF AnnouncedInv
  <1> QED BY <1>6, <1>7, <1>8, <1>9, <1>10, <1>11 DEF SagaInv

-----------------------------------------------------------------------------
(* The product service executes a call, once. *)
LEMMA ExecuteFacts ==
  ASSUME TypeOK, NEW c, c.item \in Item, NEW answer, Execute(c, answer)
  PROVE  /\ WarehouseTypeOK' /\ cancelled' = cancelled
         /\ \A p \in Products : Listed(p)' <=> Listed(p)
         /\ \/ /\ c.kind = "reserve" /\ answer = "granted" /\ returned' = returned
               /\ taken' = [taken EXCEPT ![c.order][c.at] = @ + 1]
            \/ /\ c.kind = "release" /\ answer = "granted" /\ taken' = taken
               /\ returned' = [returned EXCEPT ![c.by][c.at] = @ + 1]
            \/ /\ answer = "refused" /\ taken' = taken /\ returned' = returned
               /\ c.kind # "reserve" => ~Listed(c.item.product)
  <1>1. /\ phase \in [Products -> {"new", "active", "inactive", "deleted"}]
        /\ stock \in [Products -> Nat]
        /\ c.item.product \in Products /\ c.item.quantity \in Nat
    BY QuantitiesAssumption DEF TypeOK, WarehouseTypeOK, Item
  <1> DEFINE p == c.item.product
             q == c.item.quantity
  <1>2. CASE c.kind = "reserve" /\ Reserve(p, q) /\ answer = "granted"
             /\ taken' = [taken EXCEPT ![c.order][c.at] = @ + 1] /\ returned' = returned
    <2>1. phase' = phase /\ stock' = [stock EXCEPT ![p] = @ - q] /\ stock[p] >= q
      BY <1>2 DEF Reserve, CanReserve
    <2>2. stock' \in [Products -> Nat] BY <1>1, <2>1
    <2> QED BY <1>1, <1>2, <2>1, <2>2 DEF WarehouseTypeOK, Listed, Execute
  <1>3. CASE c.kind = "release" /\ Release(p, q) /\ answer = "granted"
             /\ returned' = [returned EXCEPT ![c.by][c.at] = @ + 1] /\ taken' = taken
    <2>1. phase' = phase /\ stock' = [stock EXCEPT ![p] = @ + q]
      BY <1>3 DEF Release
    <2>2. stock' \in [Products -> Nat] BY <1>1, <2>1
    <2> QED BY <1>1, <1>3, <2>1, <2>2 DEF WarehouseTypeOK, Listed, Execute
  <1>4. CASE /\ answer = "refused" /\ UNCHANGED <<warehouseVars, taken, returned>>
             /\ IF c.kind = "reserve" THEN ~CanReserve(p, q) ELSE ~Listed(p)
    BY <1>1, <1>4 DEF WarehouseTypeOK, Listed, Execute, warehouseVars
  <1> QED BY <1>2, <1>3, <1>4 DEF Execute

(* What holds of a call, of one that waits for its answer and of one that was left. *)
Pending(c) ==
  /\ c.order \in Orders /\ c.by \in Orders \cup Cancels /\ c.at \in Lines /\ c.item \in Item
  /\ c.kind = "reserve" => c.by = c.order /\ taken[c.by][c.at] = 0
  /\ c.kind # "reserve" => c.kind = "release" /\ returned[c.by][c.at] = 0
  /\ c.kind # "reserve" /\ c.by \in Orders => taken[c.by][c.at] = 1 /\ status[c.by] = "absent"
                                             /\ pc[c.by] \in {"compensate", "refused"}
  /\ c.by \in Cancels => c.by \in cancelled /\ c.at \in DOMAIN cart[about[c.by]]

(* A count that goes from zero to one. *)
LEMMA CountOne ==
  ASSUME NEW S, NEW f \in [S -> [Lines -> Nat]], NEW s \in S, NEW i \in Lines, f[s][i] = 0,
         NEW g, g = [f EXCEPT ![s][i] = @ + 1]
  PROVE  /\ g \in [S -> [Lines -> Nat]] /\ g[s][i] = 1
         /\ \A u \in S, k \in Lines : u # s \/ k # i => g[u][k] = f[u][k]
  <1> DEFINE row == [f[s] EXCEPT ![i] = 1]
  <1>1. f[s] \in [Lines -> Nat] /\ row \in [Lines -> Nat] /\ row[i] = 1
    OBVIOUS
  <1>2. g = [f EXCEPT ![s] = row]
    OBVIOUS
  <1>3. g \in [S -> [Lines -> Nat]] /\ g[s] = row
    BY <1>1, <1>2
  <1>4. ASSUME NEW u \in S, NEW k \in Lines, u # s \/ k # i PROVE g[u][k] = f[u][k]
    <2>1. CASE u # s BY <1>2, <2>1
    <2>2. CASE u = s /\ k # i BY <1>1, <1>3, <2>2
    <2> QED BY <1>4, <2>1, <2>2
  <1> QED BY <1>1, <1>3, <1>4

(* An executed call reserves or returns its line for the first time. *)
LEMMA HistoryType ==
  ASSUME TypeOK, NEW c, Pending(c), NEW answer, Execute(c, answer)
  PROVE  /\ taken' \in [Orders -> [Lines -> Nat]] /\ returned' \in [Tasks -> [Lines -> Nat]]
         /\ c.kind = "reserve" /\ answer = "granted" =>
              /\ returned' = returned /\ taken'[c.order][c.at] = 1
              /\ \A o \in Orders, k \in Lines :
                   o # c.order \/ k # c.at => taken'[o][k] = taken[o][k]
         /\ c.kind = "release" /\ answer = "granted" =>
              /\ taken' = taken /\ returned'[c.by][c.at] = 1
              /\ \A s \in Tasks, k \in Lines :
                   s # c.by \/ k # c.at => returned'[s][k] = returned[s][k]
         /\ answer = "refused" => taken' = taken /\ returned' = returned
         /\ answer \in {"granted", "refused"}
  <1>1. /\ taken \in [Orders -> [Lines -> Nat]] /\ returned \in [Tasks -> [Lines -> Nat]]
        /\ c.order \in Orders /\ c.by \in Tasks /\ c.at \in Lines /\ c.item \in Item
        /\ c.kind \in {"reserve", "release"}
    BY TaskKinds DEF TypeOK, Pending
  <1>2. \/ /\ c.kind = "reserve" /\ answer = "granted" /\ returned' = returned
           /\ taken' = [taken EXCEPT ![c.order][c.at] = @ + 1]
        \/ /\ c.kind = "release" /\ answer = "granted" /\ taken' = taken
           /\ returned' = [returned EXCEPT ![c.by][c.at] = @ + 1]
        \/ /\ answer = "refused" /\ taken' = taken /\ returned' = returned
    BY <1>1, ExecuteFacts
  <1>3. CASE c.kind = "reserve" /\ answer = "granted"
    <2>1. returned' = returned /\ taken' = [taken EXCEPT ![c.order][c.at] = @ + 1]
      BY <1>2, <1>3
    <2>2. taken[c.order][c.at] = 0 BY <1>3 DEF Pending
    <2>3. /\ taken' \in [Orders -> [Lines -> Nat]] /\ taken'[c.order][c.at] = 1
          /\ \A o \in Orders, k \in Lines :
               o # c.order \/ k # c.at => taken'[o][k] = taken[o][k]
      BY <1>1, <2>1, <2>2, CountOne
    <2> QED BY <1>1, <1>3, <2>1, <2>3
  <1>4. CASE c.kind = "release" /\ answer = "granted"
    <2>1. taken' = taken /\ returned' = [returned EXCEPT ![c.by][c.at] = @ + 1]
      BY <1>2, <1>4
    <2>2. returned[c.by][c.at] = 0 BY <1>4 DEF Pending
    <2>3. /\ returned' \in [Tasks -> [Lines -> Nat]] /\ returned'[c.by][c.at] = 1
          /\ \A s \in Tasks, k \in Lines :
               s # c.by \/ k # c.at => returned'[s][k] = returned[s][k]
      BY <1>1, <2>1, <2>2, CountOne
    <2> QED BY <1>1, <1>4, <2>1, <2>3
  <1>5. CASE answer = "refused" BY <1>1, <1>2, <1>5
  <1> QED BY <1>1, <1>2, <1>3, <1>4, <1>5

(* A call on its way to the product service has not been executed. *)
LEMMA CallPending ==
  ASSUME SagaInv, NEW t \in Tasks, call[t] = "sent", NEW c, c = TheCall(t)
  PROVE  /\ Pending(c) /\ c.by = t /\ c.order = about[t] /\ c.at = at[t] /\ pc[t] \in Calling
         /\ c.item = cart[about[t]][at[t]]
         /\ c.kind = IF pc[t] = "reserve" THEN "reserve" ELSE "release"
  <1>1. TypeOK /\ Control /\ TakenInv /\ ReturnedInv BY DEF SagaInv
  <1>2. pc[t] \in Calling BY <1>1 DEF TypeOK
  <1>3. /\ about[t] \in Orders /\ pc[about[t]] # "idle" /\ cart[about[t]] \in Carts
        /\ at[t] \in DOMAIN cart[about[t]] /\ at[t] \in Lines
        /\ at[t] \in Nat \ {0} /\ last[t] \in Nat \ {0} /\ at[t] =< last[t]
        /\ cart[about[t]][at[t]] \in Item
        /\ pc[t] \in {"reserve", "compensate"} => t \in Orders /\ about[t] = t /\ status[t] = "absent"
        /\ pc[t] = "release" => t \in Cancels /\ t \in cancelled
    BY <1>1, <1>2, CallFacts
  <1>4. /\ c.by = t /\ c.order = about[t] /\ c.at = at[t] /\ c.item = cart[about[t]][at[t]]
        /\ c.kind = IF pc[t] = "reserve" THEN "reserve" ELSE "release"
    BY DEF TheCall
  <1>5. pc[t] = "reserve" => taken[t][at[t]] = 0
    BY <1>1, <1>3 DEF TakenInv
  <1>6. pc[t] \in {"compensate", "release"} => returned[t][at[t]] = 0
    BY <1>1, <1>3 DEF ReturnedInv, Ahead
  <1>7. pc[t] = "compensate" => taken[t][at[t]] = 1
    BY <1>1, <1>3 DEF TakenInv
  <1>8. Pending(c)
    <2>1. pc[t] \in {"reserve", "compensate", "release"} BY <1>2 DEF Calling
    <2>2. t \in Orders => pc[t] \in {"reserve", "compensate"} BY <1>3, <2>1, TaskKinds
    <2>3. t \in Cancels => pc[t] = "release" BY <1>3, <2>1, TaskKinds
    <2> QED BY <1>3, <1>4, <1>5, <1>6, <1>7, <2>1, <2>2, <2>3 DEF Pending
  <1> QED BY <1>2, <1>4, <1>8

(* Nor has a call that was left behind. *)
LEMMA StrayPending ==
  ASSUME SagaInv, NEW c \in strays
  PROVE  Pending(c) /\ StrayOK(c) /\ c.at \in Nat
  <1>1. StrayOK(c) /\ Control BY DEF SagaInv, StraysInv
  <1>2. cart[c.order] \in Carts BY <1>1 DEF StrayOK, Control
  <1>3. c.at \in Lines /\ c.item \in Item /\ c.at \in Nat BY <1>1, <1>2, CartLines DEF StrayOK
  <1>4. c.by \in Orders => c.by \notin Cancels BY TaskKinds
  <1> QED BY <1>1, <1>3, <1>4 DEF StrayOK, Pending

(* What a call that is executed may change, and no more. *)
Executed(c, answer) ==
  /\ WarehouseTypeOK' /\ Pending(c) /\ answer \in {"granted", "refused"}
  /\ taken' \in [Orders -> [Lines -> Nat]] /\ returned' \in [Tasks -> [Lines -> Nat]]
  /\ c.kind = "reserve" /\ answer = "granted" =>
       /\ returned' = returned /\ taken'[c.order][c.at] = 1
       /\ \A o \in Orders, k \in Lines : o # c.order \/ k # c.at => taken'[o][k] = taken[o][k]
  /\ c.kind = "release" /\ answer = "granted" =>
       /\ taken' = taken /\ returned'[c.by][c.at] = 1
       /\ \A s \in Tasks, k \in Lines : s # c.by \/ k # c.at => returned'[s][k] = returned[s][k]
  /\ answer = "refused" => taken' = taken /\ returned' = returned

(* ExecuteFacts and HistoryType in one. *)
LEMMA ExecutedOnce ==
  ASSUME TypeOK, NEW c, Pending(c), NEW answer, Execute(c, answer)
  PROVE  Executed(c, answer)
  <1>1. c.item \in Item BY DEF Pending
  <1>2. WarehouseTypeOK' BY <1>1, ExecuteFacts
  <1> QED BY <1>2, HistoryType DEF Executed

(* The call of a task reaches the product service, which answers. *)
LEMMA ReachSaga ==
  ASSUME SagaInv, NEW t \in Tasks, Reach(t)
  PROVE  SagaInv'
  <1>1. TypeOK /\ Control /\ TakenInv /\ ReturnedInv /\ StraysInv /\ AnnouncedInv
    BY DEF SagaInv
  <1>2. PICK answer : Execute(TheCall(t), answer) /\ call' = [call EXCEPT ![t] = answer]
    BY DEF Reach
  <1>3. PICK c : c = TheCall(t)
    OBVIOUS
  <1>4. Execute(c, answer) /\ call[t] = "sent" BY <1>2, <1>3 DEF Reach
  <1>5. /\ Pending(c) /\ c.by = t /\ c.order = about[t] /\ c.at = at[t] /\ pc[t] \in Calling
        /\ c.item = cart[about[t]][at[t]]
        /\ c.kind = IF pc[t] = "reserve" THEN "reserve" ELSE "release"
    BY <1>3, <1>4, CallPending
  <1>6. Executed(c, answer) BY <1>1, <1>4, <1>5, ExecutedOnce
  <1>7. /\ status' = status /\ cart' = cart /\ announced' = announced /\ pc' = pc
        /\ about' = about /\ new' = new /\ read' = read /\ at' = at /\ last' = last
        /\ strays' = strays /\ faults' = faults /\ cancelled' = cancelled
        /\ call' \in [Tasks -> {"none", "sent", "granted", "refused"}] /\ call'[t] = answer
        /\ \A s \in Tasks : s # t => call'[s] = call[s]
    BY <1>1, <1>2, <1>6 DEF Reach, tableVars, Execute, TypeOK, Executed
  <1>8. TypeOK'
    <2>1. ASSUME NEW s \in Tasks
          PROVE  IF pc'[s] \in Calling
                 THEN call'[s] # "none" /\ at'[s] \in 1..last'[s] /\ last'[s] \in DOMAIN cart'[about'[s]]
                 ELSE call'[s] = "none"
      BY <1>1, <1>5, <1>6, <1>7 DEF TypeOK, Executed
    <2>2. /\ WarehouseTypeOK' /\ taken' \in [Orders -> [Lines -> Nat]]
          /\ returned' \in [Tasks -> [Lines -> Nat]]
      BY <1>6 DEF Executed
    <2> QED BY <1>1, <1>7, <2>1, <2>2 DEF TypeOK
  <1>9. Control' BY <1>1, <1>7 DEF Control
  <1>10. TakenInv'
    <2> SUFFICES ASSUME NEW o \in Orders, NEW k \in Lines
                 PROVE  /\ taken'[o][k] \in {0, 1}
                        /\ pc[o] = "idle" \/ k \notin DOMAIN cart[o] => taken'[o][k] = 0
                        /\ k \in DOMAIN cart[o] =>
                             /\ pc[o] = "reserve" =>
                                  taken'[o][k] = IF k < at[o] \/ (k = at[o] /\ call'[o] = "granted")
                                                 THEN 1 ELSE 0
                             /\ pc[o] = "compensate" /\ k =< last[o] => taken'[o][k] = 1
                             /\ pc[o] = "persist" \/ status[o] # "absent" => taken'[o][k] = 1
      BY <1>7 DEF TakenInv
    <2>1. /\ taken[o][k] \in {0, 1} /\ k \in Nat
          /\ pc[o] = "idle" \/ k \notin DOMAIN cart[o] => taken[o][k] = 0
          /\ k \in DOMAIN cart[o] =>
               /\ pc[o] = "reserve" =>
                    taken[o][k] = IF k < at[o] \/ (k = at[o] /\ call[o] = "granted") THEN 1 ELSE 0
               /\ pc[o] = "compensate" /\ k =< last[o] => taken[o][k] = 1
               /\ pc[o] = "persist" \/ status[o] # "absent" => taken[o][k] = 1
      BY <1>1, CartLines DEF TakenInv
    <2>2. CASE c.kind = "reserve" /\ answer = "granted" /\ o = c.order /\ k = c.at
      <3>1. /\ taken'[o][k] = 1 /\ pc[t] = "reserve" /\ call'[t] = "granted"
        BY <1>5, <1>6, <1>7, <2>2 DEF Executed
      <3>2. /\ o = t /\ k = at[t] /\ t \in Orders /\ k \in DOMAIN cart[o]
        BY <1>1, <1>5, <2>2, <3>1, CallFacts
      <3> QED BY <3>1, <3>2
    <2>3. CASE ~(c.kind = "reserve" /\ answer = "granted" /\ o = c.order /\ k = c.at)
      <3>1. taken'[o][k] = taken[o][k] BY <1>5, <1>6, <2>3 DEF Executed
      <3>2. CASE o # t BY <1>7, <2>1, <3>1, <3>2, TaskKinds
      <3>3. CASE o = t
        <4>1. c.order = o BY <1>1, <1>5, <3>3 DEF Control
        <4>2. pc[o] = "reserve" /\ k = at[o] => answer # "granted" BY <1>5, <2>3, <3>3, <4>1
        <4>3. call[o] = "sent" /\ call'[o] = answer BY <1>4, <1>7, <3>3
        <4> QED BY <2>1, <3>1, <4>2, <4>3
      <3> QED BY <3>2, <3>3
    <2> QED BY <2>2, <2>3
  <1>11. ReturnedInv'
    <2> SUFFICES ASSUME NEW s \in Tasks, NEW k \in Lines
                 PROVE  /\ returned'[s][k] \in {0, 1}
                        /\ pc[s] \in {"compensate", "release"}
                             /\ (k > at[s] \/ (k = at[s] /\ call'[s] = "sent")) => returned'[s][k] = 0
                        /\ s \in Orders =>
                             /\ returned'[s][k] =< taken'[s][k]
                             /\ status[s] # "absent" \/ pc[s] \in {"idle", "reserve", "persist"} =>
                                  returned'[s][k] = 0
                        /\ s \in Cancels /\ (s \notin cancelled \/ k \notin DOMAIN cart[about[s]]) =>
                             returned'[s][k] = 0
      BY <1>7 DEF ReturnedInv, Ahead
    <2>1. /\ returned[s][k] \in {0, 1} /\ k \in Nat
          /\ pc[s] \in {"compensate", "release"}
               /\ (k > at[s] \/ (k = at[s] /\ call[s] = "sent")) => returned[s][k] = 0
          /\ s \in Orders =>
               /\ returned[s][k] =< taken[s][k]
               /\ status[s] # "absent" \/ pc[s] \in {"idle", "reserve", "persist"} => returned[s][k] = 0
          /\ s \in Cancels /\ (s \notin cancelled \/ k \notin DOMAIN cart[about[s]]) =>
               returned[s][k] = 0
      BY <1>1, CartLines DEF ReturnedInv, Ahead
    <2>2. s \in Orders => taken'[s][k] = 1 \/ taken'[s][k] = taken[s][k]
      BY <1>6, <1>5 DEF Executed, Pending
    <2>3. s \in Orders => taken[s][k] \in {0, 1} BY <1>1 DEF TakenInv
    <2>4. CASE c.kind = "release" /\ answer = "granted" /\ s = c.by /\ k = c.at
      <3>1. /\ returned'[s][k] = 1 /\ taken' = taken /\ call'[s] = "granted" /\ k = at[s]
            /\ pc[s] \in Calling /\ pc[s] # "reserve"
        BY <1>5, <1>6, <1>7, <2>4 DEF Executed
      <3>2. /\ s \in Orders => taken[s][k] = 1 /\ status[s] = "absent"
                              /\ pc[s] \in {"compensate", "refused"}
            /\ s \in Cancels => s \in cancelled /\ k \in DOMAIN cart[about[s]]
        BY <1>5, <2>4 DEF Pending
      <3>3. at[s] \in Nat BY <1>1 DEF TypeOK
      <3> QED BY <3>1, <3>2, <3>3
    <2>5. CASE ~(c.kind = "release" /\ answer = "granted" /\ s = c.by /\ k = c.at)
      <3>1. returned'[s][k] = returned[s][k] BY <1>5, <1>6, <2>5 DEF Executed, Pending
      <3>2. call'[s] = "sent" => call[s] = "sent" BY <1>6, <1>7 DEF Executed
      <3> QED BY <2>1, <2>2, <2>3, <3>1, <3>2
    <2> QED BY <2>4, <2>5
  <1>12. StraysInv'
    <2>1. ASSUME NEW d \in strays PROVE StrayOK(d)'
      <3>1. StrayOK(d) /\ d.by \in Tasks BY <1>1, TaskKinds DEF StraysInv, StrayOK
      <3>2. d.at \in Lines /\ d.at \in Nat /\ at[t] \in Nat
        <4>1. cart[d.order] \in Carts BY <1>1, <3>1 DEF StrayOK, Control
        <4> QED BY <1>1, <3>1, <4>1, CartLines DEF StrayOK, TypeOK
      <3>3. d.by \in Orders => taken'[d.by][d.at] = taken[d.by][d.at]
        <4> SUFFICES ASSUME d.by \in Orders PROVE taken'[d.by][d.at] = taken[d.by][d.at]
          OBVIOUS
        <4>1. pc[d.by] # "reserve" BY <3>1, TaskKinds DEF StrayOK
        <4>2. c.kind = "reserve" => c.order = t /\ pc[t] = "reserve"
          BY <1>5 DEF Pending
        <4> QED BY <1>6, <3>2, <4>1, <4>2, <1>5 DEF Executed, Pending
      <3>4. d.kind = "release" => returned'[d.by][d.at] = returned[d.by][d.at]
        <4> SUFFICES ASSUME d.kind = "release" PROVE returned'[d.by][d.at] = returned[d.by][d.at]
          OBVIOUS
        <4>1. pc[d.by] \in {"compensate", "release"} => d.at < at[d.by] BY <3>1 DEF StrayOK
        <4>2. c.kind = "release" => pc[t] \in {"compensate", "release"} BY <1>5 DEF Calling
        <4>3. c.kind = "release" => d.by # c.by \/ d.at # c.at BY <1>5, <3>2, <4>1, <4>2
        <4> QED BY <1>5, <1>6, <3>1, <3>2, <4>3 DEF Executed, Pending
      <3>5. d.kind = "reserve" => d.by \in Orders BY <3>1 DEF StrayOK
      <3> QED BY <1>7, <3>1, <3>3, <3>4, <3>5 DEF StrayOK
    <2> QED BY <1>7, <2>1 DEF StraysInv
  <1>13. AnnouncedInv' BY <1>1, <1>7 DEF AnnouncedInv
  <1> QED BY <1>8, <1>9, <1>10, <1>11, <1>12, <1>13 DEF SagaInv

(* A call that was left behind reaches the product service. *)
LEMMA ReachLateSaga ==
  ASSUME SagaInv, NEW c \in strays, ReachLate(c)
  PROVE  SagaInv'
  <1>1. TypeOK /\ Control /\ TakenInv /\ ReturnedInv /\ StraysInv /\ AnnouncedInv
    BY DEF SagaInv
  <1>2. PICK answer : Execute(c, answer)
    BY DEF ReachLate
  <1>3. Pending(c) /\ StrayOK(c) /\ c.at \in Nat BY StrayPending
  <1>4. Executed(c, answer) BY <1>1, <1>2, <1>3, ExecutedOnce
  <1>5. /\ status' = status /\ cart' = cart /\ announced' = announced /\ pc' = pc
        /\ about' = about /\ new' = new /\ read' = read /\ at' = at /\ last' = last
        /\ call' = call /\ faults' = faults /\ cancelled' = cancelled
        /\ strays' = strays \ {c}
    BY <1>2 DEF ReachLate, tableVars, taskVars, Execute
  <1>6. /\ c.order \in Orders /\ c.by \in Tasks /\ c.at \in Lines
        /\ c.kind \in {"reserve", "release"}
        /\ c.kind = "reserve" =>
             /\ c.by = c.order /\ c.by \in Orders /\ taken[c.by][c.at] = 0
             /\ pc[c.by] \in {"compensate", "refused"} /\ status[c.by] = "absent"
             /\ c.at \in DOMAIN cart[c.by]
        /\ c.kind = "release" =>
             /\ pc[c.by] \in {"compensate", "release"} => c.at < at[c.by]
             /\ c.by \in Orders => /\ pc[c.by] \in {"compensate", "refused"}
                                  /\ status[c.by] = "absent" /\ taken[c.by][c.at] = 1
             /\ c.by \in Cancels => c.by \in cancelled /\ c.at \in DOMAIN cart[about[c.by]]
    BY <1>3, TaskKinds DEF StrayOK, Pending
  <1>7. TypeOK' BY <1>1, <1>4, <1>5 DEF TypeOK, Executed
  <1>8. Control' BY <1>1, <1>5 DEF Control
  <1>9. TakenInv'
    <2> SUFFICES ASSUME NEW o \in Orders, NEW k \in Lines
                 PROVE  /\ taken'[o][k] \in {0, 1}
                        /\ pc[o] = "idle" \/ k \notin DOMAIN cart[o] => taken'[o][k] = 0
                        /\ k \in DOMAIN cart[o] =>
                             /\ pc[o] = "reserve" =>
                                  taken'[o][k] = IF k < at[o] \/ (k = at[o] /\ call[o] = "granted")
                                                 THEN 1 ELSE 0
                             /\ pc[o] = "compensate" /\ k =< last[o] => taken'[o][k] = 1
                             /\ pc[o] = "persist" \/ status[o] # "absent" => taken'[o][k] = 1
      BY <1>5 DEF TakenInv
    <2>1. CASE c.kind = "reserve" /\ answer = "granted" /\ o = c.order /\ k = c.at
      <3>1. taken'[o][k] = 1 BY <1>4, <2>1 DEF Executed
      <3> QED BY <1>6, <2>1, <3>1
    <2>2. CASE ~(c.kind = "reserve" /\ answer = "granted" /\ o = c.order /\ k = c.at)
      <3>1. taken'[o][k] = taken[o][k] BY <1>4, <1>6, <2>2 DEF Executed
      <3> QED BY <1>1, <3>1 DEF TakenInv
    <2> QED BY <2>1, <2>2
  <1>10. ReturnedInv'
    <2> SUFFICES ASSUME NEW s \in Tasks, NEW k \in Lines
                 PROVE  /\ returned'[s][k] \in {0, 1}
                        /\ pc[s] \in {"compensate", "release"} /\ Ahead(s, k) => returned'[s][k] = 0
                        /\ s \in Orders =>
                             /\ returned'[s][k] =< taken'[s][k]
                             /\ status[s] # "absent" \/ pc[s] \in {"idle", "reserve", "persist"} =>
                                  returned'[s][k] = 0
                        /\ s \in Cancels /\ (s \notin cancelled \/ k \notin DOMAIN cart[about[s]]) =>
                             returned'[s][k] = 0
      BY <1>5 DEF ReturnedInv, Ahead
    <2>1. /\ returned[s][k] \in {0, 1} /\ k \in Nat
          /\ pc[s] \in {"compensate", "release"} /\ Ahead(s, k) => returned[s][k] = 0
          /\ s \in Orders =>
               /\ returned[s][k] =< taken[s][k]
               /\ status[s] # "absent" \/ pc[s] \in {"idle", "reserve", "persist"} => returned[s][k] = 0
          /\ s \in Cancels /\ (s \notin cancelled \/ k \notin DOMAIN cart[about[s]]) =>
               returned[s][k] = 0
      BY <1>1, CartLines DEF ReturnedInv
    <2>2. s \in Orders => taken'[s][k] = 1 \/ taken'[s][k] = taken[s][k]
      BY <1>4, <1>6 DEF Executed
    <2>3. s \in Orders => taken[s][k] \in {0, 1} BY <1>1 DEF TakenInv
    <2>4. CASE c.kind = "release" /\ answer = "granted" /\ s = c.by /\ k = c.at
      <3>1. returned'[s][k] = 1 /\ taken' = taken BY <1>4, <2>4 DEF Executed
      <3>2. pc[s] \in {"compensate", "release"} => ~Ahead(s, k)
        <4>1. at[s] \in Nat BY <1>1 DEF TypeOK
        <4> QED BY <1>6, <2>1, <2>4, <4>1 DEF Ahead
      <3> QED BY <1>6, <2>4, <3>1, <3>2
    <2>5. CASE ~(c.kind = "release" /\ answer = "granted" /\ s = c.by /\ k = c.at)
      <3>1. returned'[s][k] = returned[s][k] BY <1>4, <1>6, <2>5 DEF Executed
      <3> QED BY <2>1, <2>2, <2>3, <3>1
    <2> QED BY <2>4, <2>5
  <1>11. StraysInv'
    <2>1. ASSUME NEW d \in strays, d # c PROVE StrayOK(d)'
      <3>1. StrayOK(d) /\ d.by \in Tasks BY <1>1, TaskKinds DEF StraysInv, StrayOK
      <3>2. d.at \in Lines BY StrayPending DEF Pending
      <3>3. ~(d.by = c.by /\ d.at = c.at /\ d.kind = c.kind)
        BY <1>3, <2>1, <3>1 DEF StrayOK
      <3>4. d.by \in Orders => taken'[d.by][d.at] = taken[d.by][d.at]
        <4> SUFFICES ASSUME d.by \in Orders PROVE taken'[d.by][d.at] = taken[d.by][d.at]
          OBVIOUS
        <4>1. CASE c.kind = "reserve" /\ answer = "granted" /\ d.by = c.order /\ d.at = c.at
          <5>1. d.kind # "reserve" BY <1>6, <3>3, <4>1
          <5>2. taken[d.by][d.at] = 1 BY <3>1, <5>1 DEF StrayOK
          <5> QED BY <1>6, <4>1, <5>2
        <4>2. CASE ~(c.kind = "reserve" /\ answer = "granted" /\ d.by = c.order /\ d.at = c.at)
          BY <1>4, <1>6, <3>2, <4>2 DEF Executed
        <4> QED BY <4>1, <4>2
      <3>5. d.kind = "release" => returned'[d.by][d.at] = returned[d.by][d.at]
        BY <1>4, <1>6, <3>1, <3>2, <3>3 DEF Executed
      <3>6. d.kind = "reserve" => d.by \in Orders BY <3>1 DEF StrayOK
      <3> QED BY <1>5, <3>1, <3>4, <3>5, <3>6 DEF StrayOK
    <2> QED BY <1>5, <2>1 DEF StraysInv
  <1>12. AnnouncedInv' BY <1>1, <1>5 DEF AnnouncedInv
  <1> QED BY <1>7, <1>8, <1>9, <1>10, <1>11, <1>12 DEF SagaInv

(* The operations staff changes the catalog, and nothing of the orders. *)
LEMMA StaffFacts ==
  ASSUME TypeOK, Staff
  PROVE  WarehouseTypeOK' /\ \A p \in Products : Listed(p)' => Listed(p)
  <1>1. /\ phase \in [Products -> {"new", "active", "inactive", "deleted"}]
        /\ stock \in [Products -> Nat]
    BY DEF TypeOK, WarehouseTypeOK
  <1>2. PICK p \in Products : Remove(p) \/ (phase[p] = "active" /\ Edit(p, stock[p], "inactive"))
    BY DEF Staff
  <1>3. CASE Remove(p)
    BY <1>1, <1>3 DEF Remove, WarehouseTypeOK, Listed
  <1>4. CASE Edit(p, stock[p], "inactive")
    BY <1>1, <1>4 DEF Edit, WarehouseTypeOK, Listed
  <1> QED BY <1>2, <1>3, <1>4

(* The staff keeps the invariant. *)
LEMMA StaffSaga ==
  ASSUME SagaInv, Staff
  PROVE  SagaInv'
  <1>1. TypeOK /\ Control /\ TakenInv /\ ReturnedInv /\ StraysInv /\ AnnouncedInv
    BY DEF SagaInv
  <1>2. WarehouseTypeOK' BY <1>1, StaffFacts
  <1>3. /\ status' = status /\ cart' = cart /\ announced' = announced /\ pc' = pc
        /\ about' = about /\ new' = new /\ read' = read /\ at' = at /\ last' = last
        /\ call' = call /\ faults' = faults /\ cancelled' = cancelled /\ strays' = strays
        /\ taken' = taken /\ returned' = returned
    BY DEF Staff, tableVars, taskVars, history
  <1>4. TypeOK' BY <1>1, <1>2, <1>3 DEF TypeOK
  <1>5. Control' /\ TakenInv' BY <1>1, <1>3 DEF Control, TakenInv
  <1>6. ReturnedInv' BY <1>1, <1>3 DEF ReturnedInv, Ahead
  <1>7. StraysInv'
    <2>1. ASSUME NEW d \in strays PROVE StrayOK(d)'
      <3>1. StrayOK(d) BY <1>1 DEF StraysInv
      <3> QED BY <1>3, <3>1 DEF StrayOK
    <2> QED BY <1>3, <2>1 DEF StraysInv
  <1>8. AnnouncedInv' BY <1>1, <1>3 DEF AnnouncedInv
  <1> QED BY <1>4, <1>5, <1>6, <1>7, <1>8 DEF SagaInv

-----------------------------------------------------------------------------
(* The steps of a task that are moves. *)
LEMMA StopMoved ==
  ASSUME TypeOK, NEW t \in Tasks, NEW step, StopCalling(t, step)
  PROVE  Moved(t, step, at[t], last[t], "none")
  <1>1. at \in [Tasks -> Nat] /\ last \in [Tasks -> Nat] BY DEF TypeOK
  <1>2. at = [at EXCEPT ![t] = at[t]] /\ last = [last EXCEPT ![t] = last[t]]
    BY <1>1
  <1> QED BY <1>2 DEF StopCalling, Goto, Moved

(* A reservation that failed: the compensation begins, or there is nothing to compensate. *)
LEMMA CompensateMove ==
  ASSUME TypeOK, NEW t \in Tasks, pc[t] = "reserve", Compensate(t)
  PROVE  \E p, i, n, c : Moved(t, p, i, n, c) /\ Legal(t, p, i, n, c)
  <1>1. CASE at[t] = 1
    <2>1. Moved(t, "refused", at[t], last[t], "none") BY <1>1, StopMoved DEF Compensate
    <2>2. Legal(t, "refused", at[t], last[t], "none") BY DEF Legal
    <2> QED BY <2>1, <2>2
  <1>2. CASE at[t] # 1
    <2>1. Moved(t, "compensate", 1, at[t] - 1, "sent")
      BY <1>2 DEF Compensate, CallFrom, Goto, Moved
    <2>2. Legal(t, "compensate", 1, at[t] - 1, "sent") BY <1>2 DEF Legal
    <2> QED BY <2>1, <2>2
  <1> QED BY <1>1, <1>2

(* A release that was answered or not: the next one, or the end. *)
LEMMA ReleaseMove ==
  ASSUME TypeOK, NEW t \in Tasks, pc[t] \in {"compensate", "release"}, NextRelease(t)
  PROVE  \E p, i, n, c : Moved(t, p, i, n, c) /\ Legal(t, p, i, n, c)
  <1>1. CASE at[t] < last[t]
    <2>1. Moved(t, pc[t], at[t] + 1, last[t], "sent")
      BY <1>1 DEF NextRelease, CallFrom, Goto, Moved
    <2>2. Legal(t, pc[t], at[t] + 1, last[t], "sent") BY <1>1 DEF Legal
    <2> QED BY <2>1, <2>2
  <1>2. CASE ~(at[t] < last[t]) /\ pc[t] = "release"
    <2>1. Moved(t, "announce", at[t], last[t], "none") BY <1>2, StopMoved DEF NextRelease
    <2>2. Legal(t, "announce", at[t], last[t], "none") BY <1>2 DEF Legal
    <2> QED BY <2>1, <2>2
  <1>3. CASE ~(at[t] < last[t]) /\ pc[t] = "compensate"
    <2>1. Moved(t, "refused", at[t], last[t], "none") BY <1>3, StopMoved DEF NextRelease
    <2>2. Legal(t, "refused", at[t], last[t], "none") BY <1>3 DEF Legal
    <2> QED BY <2>1, <2>2
  <1> QED BY <1>1, <1>2, <1>3

(* A reservation that succeeded: the next one, or the row. *)
LEMMA ReservedMove ==
  ASSUME TypeOK, NEW t \in Tasks, Reserved(t)
  PROVE  \E p, i, n, c : Moved(t, p, i, n, c) /\ Legal(t, p, i, n, c)
  <1>1. CASE at[t] < last[t]
    <2>1. Moved(t, "reserve", at[t] + 1, last[t], "sent")
      BY <1>1 DEF Reserved, CallFrom, Goto, Moved
    <2>2. Legal(t, "reserve", at[t] + 1, last[t], "sent") BY <1>1 DEF Legal, Reserved
    <2> QED BY <2>1, <2>2
  <1>2. CASE ~(at[t] < last[t])
    <2>1. Moved(t, "persist", at[t], last[t], "none") BY <1>2, StopMoved DEF Reserved
    <2>2. Legal(t, "persist", at[t], last[t], "none") BY <1>2 DEF Legal, Reserved
    <2> QED BY <2>1, <2>2
  <1> QED BY <1>1, <1>2

(* A failed commit or a crash ends the request. *)
LEMMA RefusedMove ==
  ASSUME TypeOK, NEW t \in Tasks, CommitFails(t) \/ Crash(t)
  PROVE  Moved(t, "refused", at[t], last[t], "none") /\ Legal(t, "refused", at[t], last[t], "none")
  <1>1. CASE CommitFails(t)
    <2>1. at \in [Tasks -> Nat] /\ last \in [Tasks -> Nat]
          /\ call \in [Tasks -> {"none", "sent", "granted", "refused"}] /\ call[t] = "none"
      BY <1>1 DEF TypeOK, CommitFails, Calling
    <2>2. /\ at = [at EXCEPT ![t] = at[t]] /\ last = [last EXCEPT ![t] = last[t]]
          /\ call = [call EXCEPT ![t] = "none"]
      BY <2>1
    <2>3. Moved(t, "refused", at[t], last[t], "none")
      BY <1>1, <2>2 DEF CommitFails, Goto, Moved
    <2> QED BY <1>1, <2>3 DEF CommitFails, Legal
  <1>2. CASE Crash(t)
    <2>1. Moved(t, "refused", at[t], last[t], "none") BY <1>2, StopMoved DEF Crash
    <2> QED BY <1>2, <2>1 DEF Crash, Legal
  <1> QED BY <1>1, <1>2

(* Faults are counted up to their bound. *)
LEMMA FaultCount ==
  ASSUME TypeOK, Fault
  PROVE  faults' \in 0..MaxFaults /\ faults' # 0
  BY OrdersAssumption DEF TypeOK, Fault

(* All of them keep the invariant. *)
LEMMA StepMoves ==
  ASSUME SagaInv, NEW t \in Tasks,
         \/ Reserved(t) \/ NotReserved(t) \/ Released(t)
         \/ TimeOut(t) \/ CommitFails(t) \/ Crash(t)
  PROVE  SagaInv'
  <1>1. TypeOK /\ Control BY DEF SagaInv
  <1>2. /\ Left(t) /\ faults' \in 0..MaxFaults
        /\ UNCHANGED <<warehouseVars, tableVars, announced, about, new, read, history>>
    <2>1. CASE Reserved(t) \/ NotReserved(t) \/ Released(t)
      BY <1>1, <2>1 DEF Reserved, NotReserved, Released, Left, TypeOK
    <2>2. CASE TimeOut(t) BY <1>1, <2>2, FaultCount DEF TimeOut, Abandon, Left
    <2>3. CASE CommitFails(t) BY <1>1, <2>3, FaultCount DEF CommitFails, Left
    <2>4. CASE Crash(t) BY <1>1, <2>4, FaultCount DEF Crash, Abandon, Left
    <2> QED BY <2>1, <2>2, <2>3, <2>4
  <1>3. \E p, i, n, c : Moved(t, p, i, n, c) /\ Legal(t, p, i, n, c)
    <2>1. CASE Reserved(t) BY <1>1, <2>1, ReservedMove
    <2>2. CASE NotReserved(t) BY <1>1, <2>2, CompensateMove DEF NotReserved
    <2>3. CASE Released(t) BY <1>1, <2>3, ReleaseMove DEF Released
    <2>4. CASE TimeOut(t)
      <3>1. CASE pc[t] = "reserve" BY <1>1, <2>4, <3>1, CompensateMove DEF TimeOut
      <3>2. CASE pc[t] # "reserve"
        <4>1. pc[t] \in {"compensate", "release"} BY <1>1, <2>4, <3>2 DEF TimeOut, TypeOK, Calling
        <4> QED BY <1>1, <2>4, <3>2, <4>1, ReleaseMove DEF TimeOut
      <3> QED BY <3>1, <3>2
    <2>5. CASE CommitFails(t) \/ Crash(t) BY <1>1, <2>5, RefusedMove
    <2> QED BY <2>1, <2>2, <2>3, <2>4, <2>5
  <1> QED BY <1>2, <1>3, MoveSaga

(* The invariant is inductive. *)
LEMMA NextSaga == SagaInv /\ [Next]_vars => SagaInv'
  <1> SUFFICES ASSUME SagaInv, [Next]_vars PROVE SagaInv'
    OBVIOUS
  <1>1. ASSUME NEW o \in Orders, NEW c \in Carts, Create(o, c) PROVE SagaInv'
    BY <1>1, CreateSaga
  <1>2. ASSUME NEW t \in Cancels, NEW o \in Orders, Load(t, o, "CANCELLED") PROVE SagaInv'
    BY <1>2, LoadSaga, TaskKinds DEF OrderStatuses
  <1>3. ASSUME NEW t \in Updates, NEW o \in Orders, NEW s \in OrderStatuses, Load(t, o, s)
        PROVE  SagaInv'
    BY <1>3, LoadSaga, TaskKinds
  <1>4. ASSUME NEW t \in Tasks, Work(t) \/ TimeOut(t) \/ CommitFails(t) \/ Crash(t)
        PROVE  SagaInv'
    <2>1. CASE Reach(t) BY <2>1, ReachSaga
    <2>2. CASE Announce(t) BY <2>2, AnnounceSaga
    <2>3. CASE CommitCancel(t) BY <2>3, CommitCancelSaga
    <2>4. CASE CommitUpdate(t) BY <2>4, CommitUpdateSaga
    <2>5. CASE t \in Orders /\ Persist(t) BY <2>5, PersistSaga
    <2>6. CASE \/ Reserved(t) \/ NotReserved(t) \/ Released(t)
              \/ TimeOut(t) \/ CommitFails(t) \/ Crash(t)
      BY <2>6, StepMoves
    <2> QED BY <1>4, <2>1, <2>2, <2>3, <2>4, <2>5, <2>6 DEF Work
  <1>5. ASSUME NEW c \in strays, ReachLate(c) PROVE SagaInv' BY <1>5, ReachLateSaga
  <1>6. CASE Staff BY <1>6, StaffSaga
  <1>7. CASE UNCHANGED vars
    <2>1. /\ phase' = phase /\ stock' = stock
          /\ status' = status /\ cart' = cart /\ announced' = announced /\ pc' = pc
          /\ about' = about /\ new' = new /\ read' = read /\ at' = at /\ last' = last
          /\ call' = call /\ faults' = faults /\ cancelled' = cancelled /\ strays' = strays
          /\ taken' = taken /\ returned' = returned
      BY <1>7 DEF vars, warehouseVars, tableVars, taskVars, history
    <2>2. TypeOK' BY <2>1 DEF SagaInv, TypeOK, WarehouseTypeOK
    <2>3. Control' /\ TakenInv' BY <2>1 DEF SagaInv, Control, TakenInv
    <2>4. ReturnedInv' BY <2>1 DEF SagaInv, ReturnedInv, Ahead
    <2>5. ASSUME NEW d \in strays PROVE StrayOK(d)'
      <3>1. StrayOK(d) BY DEF SagaInv, StraysInv
      <3> QED BY <2>1, <3>1 DEF StrayOK
    <2>6. StraysInv' BY <2>1, <2>5 DEF StraysInv
    <2>7. AnnouncedInv' BY <2>1 DEF SagaInv, AnnouncedInv
    <2> QED BY <2>2, <2>3, <2>4, <2>6, <2>7 DEF SagaInv
  <1> QED BY <1>1, <1>2, <1>3, <1>4, <1>5, <1>6, <1>7 DEF Next

-----------------------------------------------------------------------------
(* Without failures the books are kept: one lemma for each kind of step. *)

(* The lines of a cart, and the product each is about. *)
LEMMA CartFacts ==
  ASSUME SagaInv, NEW o \in Orders, NEW i \in DOMAIN cart[o]
  PROVE  /\ i \in Lines /\ i \in Nat \ {0} /\ cart[o][i].product \in Products
         /\ pc[o] # "idle" => cart[o] \in Carts /\ i =< Len(cart[o])
  <1>1. cart[o] \in Carts \cup {<<>>} BY DEF SagaInv, TypeOK
  <1>2. cart[o] \in Carts BY <1>1
  <1>3. cart[o][i] \in Item BY <1>2, CartLines
  <1> QED BY <1>2, <1>3, CartLines DEF Item

(* A committed cancellation is about an order that exists. *)
LEMMA CancelledFacts ==
  ASSUME SagaInv, NEW t \in cancelled
  PROVE  /\ t \in Cancels /\ t \in Tasks /\ t \notin Orders /\ t \notin Updates
         /\ about[t] \in Orders /\ status[about[t]] # "absent"
         /\ pc[t] \in {"release", "announce", "done", "refused"}
  BY TaskKinds DEF SagaInv, TypeOK, Control

(* A call that is executed books its line. *)
LEMMA ReachBooks ==
  ASSUME SagaInv, NoFailureInv, NEW t \in Tasks, Reach(t)
  PROVE  NoFailureInv'
  <1>1. TypeOK /\ Control /\ TakenInv /\ ReturnedInv BY DEF SagaInv
  <1>2. PICK answer : Execute(TheCall(t), answer) /\ call' = [call EXCEPT ![t] = answer]
    BY DEF Reach
  <1>3. PICK c : c = TheCall(t)
    OBVIOUS
  <1>4. Execute(c, answer) /\ call[t] = "sent" BY <1>2, <1>3 DEF Reach
  <1>5. /\ Pending(c) /\ c.by = t /\ c.order = about[t] /\ c.at = at[t] /\ pc[t] \in Calling
        /\ c.item = cart[about[t]][at[t]]
        /\ c.kind = IF pc[t] = "reserve" THEN "reserve" ELSE "release"
    BY <1>3, <1>4, CallPending
  <1>6. Executed(c, answer) BY <1>1, <1>4, <1>5, ExecutedOnce
  <1>7. c.item \in Item BY <1>5 DEF Pending
  <1>8. /\ \A p \in Products : Listed(p)' <=> Listed(p)
        /\ answer = "refused" /\ c.kind # "reserve" => ~Listed(c.item.product)
    BY <1>1, <1>4, <1>7, ExecuteFacts
  <1>9. /\ status' = status /\ cart' = cart /\ pc' = pc /\ about' = about /\ at' = at
        /\ last' = last /\ strays' = strays /\ faults' = faults /\ cancelled' = cancelled
        /\ call'[t] = answer /\ \A s \in Tasks : s # t => call'[s] = call[s]
        /\ answer \in {"granted", "refused"}
    BY <1>1, <1>2, <1>6 DEF Reach, tableVars, Execute, TypeOK, Executed
  <1>10. \A s \in Tasks : pc[s] \in Calling => at[s] \in Nat \ {0}
    BY <1>1, CallFacts
  <1> SUFFICES ASSUME faults = 0 PROVE NoFailureInv'
    BY <1>9 DEF NoFailureInv
  <1>11. ASSUME NEW o \in Orders, NEW i \in DOMAIN cart[o] PROVE OrderBooks(o, i)'
    <2>1. OrderBooks(o, i) /\ o \in Tasks BY TaskKinds DEF NoFailureInv
    <2>2. /\ i \in Lines /\ i \in Nat /\ cart[o][i].product \in Products BY CartFacts
    <2>3. OnSale(o, i)' => OnSale(o, i) BY <1>8, <1>9, <2>2 DEF OnSale
    <2>4. o # t \/ pc[o] # "reserve" => taken'[o][i] = taken[o][i]
      BY <1>5, <1>6, <1>9, <2>2 DEF Executed, Pending
    <2>5. CASE o # t
      <3>1. returned'[o][i] = returned[o][i] BY <1>5, <1>6, <1>9, <2>1, <2>2, <2>5 DEF Executed
      <3> QED BY <1>9, <2>1, <2>3, <2>4, <2>5, <3>1 DEF OrderBooks, Ahead
    <2>6. CASE o = t
      <3>1. pc[o] # "refused" BY <1>5, <2>6 DEF Calling
      <3>2. pc[o] = "compensate" /\ i > last[o] => taken'[o][i] = 0
        BY <2>1, <2>4 DEF OrderBooks
      <3>3. ASSUME pc[o] = "compensate", i =< last[o], OnSale(o, i)', ~Ahead(o, i)'
            PROVE  returned'[o][i] = 1
        <4>1. OnSale(o, i) /\ about[o] = o /\ at[o] \in Nat /\ c.kind = "release"
          BY <1>1, <1>5, <1>10, <2>3, <2>6, <3>3 DEF Control
        <4>2. i < at[o] \/ i = at[o] BY <1>9, <2>2, <3>3, <4>1 DEF Ahead
        <4>3. CASE i < at[o]
          <5>1. returned[o][i] = 1 BY <2>1, <2>2, <3>3, <4>1, <4>3 DEF OrderBooks, Ahead
          <5>2. returned'[o][i] = returned[o][i]
            BY <1>5, <1>6, <1>9, <2>1, <2>2, <2>6, <4>1, <4>3 DEF Executed
          <5> QED BY <5>1, <5>2
        <4>4. CASE i = at[o]
          <5>1. answer = "granted" BY <1>5, <1>8, <1>9, <2>6, <4>1, <4>4 DEF OnSale
          <5> QED BY <1>5, <1>6, <2>6, <4>1, <4>4, <5>1 DEF Executed
        <4> QED BY <4>2, <4>3, <4>4
      <3> QED BY <1>9, <3>1, <3>2, <3>3 DEF OrderBooks
    <2> QED BY <2>5, <2>6
  <1>12. ASSUME NEW s \in cancelled, NEW i \in DOMAIN cart[about[s]] PROVE CancelBooks(s, i)'
    <2>1. CancelBooks(s, i) BY DEF NoFailureInv
    <2>2. /\ s \in Cancels /\ s \in Tasks /\ s \notin Orders /\ about[s] \in Orders
          /\ pc[s] \in {"release", "announce", "done", "refused"}
      BY CancelledFacts
    <2>3. i \in Lines /\ i \in Nat /\ cart[about[s]][i].product \in Products BY <2>2, CartFacts
    <2>4. OnSale(about[s], i)' => OnSale(about[s], i) BY <1>8, <1>9, <2>3 DEF OnSale
    <2>5. CASE s # t
      <3>1. returned'[s][i] = returned[s][i] BY <1>5, <1>6, <1>9, <2>2, <2>3, <2>5 DEF Executed
      <3> QED BY <1>9, <2>1, <2>2, <2>4, <2>5, <3>1 DEF CancelBooks, Ahead
    <2>6. CASE s = t
      <3>1. pc[s] = "release" /\ c.kind = "release" /\ at[s] \in Nat
        BY <1>5, <1>10, <2>2, <2>6 DEF Calling
      <3> SUFFICES ASSUME OnSale(about[s], i)', ~Ahead(s, i)' PROVE returned'[s][i] = 1
        BY <1>9, <3>1 DEF CancelBooks
      <3>2. i < at[s] \/ i = at[s] BY <1>9, <2>3, <3>1 DEF Ahead
      <3>3. CASE i < at[s]
        <4>1. returned[s][i] = 1 BY <2>1, <2>3, <2>4, <3>1, <3>3 DEF CancelBooks, Ahead
        <4>2. returned'[s][i] = returned[s][i]
          BY <1>5, <1>6, <1>9, <2>2, <2>3, <2>6, <3>1, <3>3 DEF Executed
        <4> QED BY <4>1, <4>2
      <3>4. CASE i = at[s]
        <4>1. answer = "granted" BY <1>5, <1>8, <1>9, <2>4, <2>6, <3>1, <3>4 DEF OnSale
        <4> QED BY <1>5, <1>6, <2>6, <3>1, <3>4, <4>1 DEF Executed
      <3> QED BY <3>2, <3>3, <3>4
    <2> QED BY <2>5, <2>6
  <1> QED BY <1>9, <1>11, <1>12 DEF NoFailureInv

(* The caller of t has its answer, and goes on. *)
LEMMA AnsweredBooks ==
  ASSUME SagaInv, NoFailureInv, NEW t \in Tasks, Reserved(t) \/ NotReserved(t) \/ Released(t)
  PROVE  NoFailureInv'
  <1>1. TypeOK /\ Control /\ TakenInv /\ ReturnedInv BY DEF SagaInv
  <1>2. /\ phase' = phase /\ status' = status /\ cart' = cart /\ about' = about
        /\ strays' = strays /\ faults' = faults /\ cancelled' = cancelled
        /\ taken' = taken /\ returned' = returned
        /\ pc[t] \in Calling /\ call[t] \in {"granted", "refused"}
    BY DEF Reserved, NotReserved, Released, warehouseVars, tableVars, history, Calling
  <1>3. PICK p, i, n, c : Moved(t, p, i, n, c) /\ Legal(t, p, i, n, c)
    <2>1. CASE Reserved(t) BY <1>1, <2>1, ReservedMove
    <2>2. CASE NotReserved(t) BY <1>1, <2>2, CompensateMove DEF NotReserved
    <2>3. CASE Released(t) BY <1>1, <2>3, ReleaseMove DEF Released
    <2> QED BY <2>1, <2>2, <2>3
  <1>4. /\ pc'[t] = p /\ at'[t] = i /\ last'[t] = n /\ call'[t] = c
        /\ \A s \in Tasks : s # t => /\ pc'[s] = pc[s] /\ at'[s] = at[s] /\ last'[s] = last[s]
                                     /\ call'[s] = call[s]
    BY <1>1, <1>3 DEF TypeOK, Moved
  <1>5. /\ p = "refused" /\ pc[t] = "reserve" => at[t] = 1 /\ call[t] = "refused"
        /\ p = "refused" /\ pc[t] # "reserve" => pc[t] = "compensate" /\ ~(at[t] < last[t])
        /\ p = "compensate" /\ pc[t] = "reserve" => call[t] = "refused"
        /\ p = "announce" => pc[t] = "release" /\ ~(at[t] < last[t])
    <2>1. CASE Reserved(t)
      <3>1. pc'[t] \in {"reserve", "persist"}
        BY <1>1, <2>1 DEF Reserved, CallFrom, StopCalling, Goto, TypeOK
      <3> QED BY <1>4, <3>1
    <2>2. CASE NotReserved(t)
      <3>1. /\ pc[t] = "reserve" /\ call[t] = "refused" /\ pc'[t] \in {"refused", "compensate"}
            /\ pc'[t] = "refused" => at[t] = 1
        BY <1>1, <2>2 DEF NotReserved, Compensate, CallFrom, StopCalling, Goto, TypeOK
      <3> QED BY <1>4, <3>1
    <2>3. CASE Released(t)
      <3>1. /\ pc[t] \in {"compensate", "release"}
            /\ pc'[t] = "refused" => pc[t] = "compensate" /\ ~(at[t] < last[t])
            /\ pc'[t] = "announce" => pc[t] = "release" /\ ~(at[t] < last[t])
        BY <1>1, <2>3 DEF Released, NextRelease, CallFrom, StopCalling, Goto, TypeOK
      <3> QED BY <1>4, <3>1
    <2> QED BY <1>3, <2>1, <2>2, <2>3
  <1>6. /\ at[t] \in Nat \ {0} /\ last[t] \in Nat \ {0} /\ at[t] =< last[t]
        /\ pc[t] \in {"reserve", "compensate"} => t \in Orders /\ about[t] = t /\ status[t] = "absent"
        /\ pc[t] = "release" => t \in Cancels /\ t \in cancelled
    BY <1>1, <1>2, CallFacts
  <1> SUFFICES ASSUME faults = 0 PROVE NoFailureInv'
    BY <1>2 DEF NoFailureInv
  <1>7. ASSUME NEW o \in Orders, NEW k \in DOMAIN cart[o] PROVE OrderBooks(o, k)'
    <2>1. OrderBooks(o, k) /\ o \in Tasks /\ o \notin Cancels BY TaskKinds DEF NoFailureInv
    <2>2. k \in Lines /\ k \in Nat \ {0} BY CartFacts
    <2>3. OnSale(o, k)' <=> OnSale(o, k) BY <1>2 DEF OnSale, Listed
    <2>4. CASE o # t BY <1>2, <1>4, <2>1, <2>3, <2>4 DEF OrderBooks, Ahead
    <2>5. CASE o = t
      <3>1. /\ taken[o][k] \in {0, 1} /\ returned[o][k] \in {0, 1}
            /\ returned[o][k] =< taken[o][k]
            /\ pc[o] = "reserve" => returned[o][k] = 0
            /\ pc[o] = "reserve" =>
                 taken[o][k] = IF k < at[o] \/ (k = at[o] /\ call[o] = "granted") THEN 1 ELSE 0
            /\ pc[o] = "compensate" /\ k =< last[o] => taken[o][k] = 1
        BY <1>1, <2>1, <2>2 DEF TakenInv, ReturnedInv
      <3>2. CASE p \in {"reserve", "persist"} BY <1>4, <2>5, <3>2 DEF OrderBooks
      <3>3. CASE p = "compensate" /\ pc[t] = "reserve"
        <4>1. call[t] = "refused" /\ i = 1 /\ n = at[t] - 1 /\ c = "sent"
          BY <1>3, <1>5, <3>3 DEF Legal
        <4>2. k > n => taken[o][k] = 0 BY <1>6, <2>2, <2>5, <3>1, <3>3, <4>1
        <4>3. Ahead(o, k)' BY <1>4, <2>2, <2>5, <4>1 DEF Ahead
        <4> QED BY <1>2, <1>4, <2>5, <3>3, <4>2, <4>3 DEF OrderBooks
      <3>4. CASE p = "compensate" /\ pc[t] # "reserve"
        <4>1. pc[t] = "compensate" /\ i = at[t] + 1 /\ n = last[t] /\ c = "sent"
          BY <1>3, <3>4 DEF Legal
        <4>2. ~Ahead(o, k)' => ~Ahead(o, k)
          BY <1>2, <1>4, <1>6, <2>2, <2>5, <4>1 DEF Ahead
        <4>3. pc'[o] = "compensate" /\ pc[o] = "compensate" /\ last'[o] = last[o]
          BY <1>4, <2>5, <3>4, <4>1
        <4>4. k > last'[o] => taken'[o][k] = 0 BY <1>2, <2>1, <4>3 DEF OrderBooks
        <4>5. ASSUME k =< last'[o], OnSale(o, k)', ~Ahead(o, k)' PROVE returned'[o][k] = 1
          BY <1>2, <2>1, <2>3, <4>2, <4>3, <4>5 DEF OrderBooks
        <4> QED BY <4>3, <4>4, <4>5 DEF OrderBooks
      <3>5. CASE p = "refused" /\ pc[t] = "reserve"
        <4>1. at[t] = 1 /\ call[t] = "refused" BY <1>5, <3>5
        <4>2. taken[o][k] = 0 BY <2>2, <2>5, <3>1, <3>5, <4>1
        <4> QED BY <1>2, <1>4, <1>6, <2>5, <3>1, <3>5, <4>2 DEF OrderBooks
      <3>6. CASE p = "refused" /\ pc[t] # "reserve"
        <4>1. pc[t] = "compensate" /\ at[t] = last[t] BY <1>5, <1>6, <3>6
        <4>2. k > last[o] => taken[o][k] = 0 /\ returned[o][k] = 0
          BY <2>1, <2>5, <3>1, <4>1 DEF OrderBooks
        <4>3. k =< last[o] => ~Ahead(o, k) BY <1>2, <1>6, <2>2, <2>5, <4>1 DEF Ahead
        <4>4. OnSale(o, k) => returned[o][k] = taken[o][k]
          BY <1>6, <2>1, <2>2, <2>5, <3>1, <4>1, <4>2, <4>3 DEF OrderBooks
        <4> QED BY <1>2, <1>4, <1>6, <2>3, <2>5, <3>6, <4>1, <4>4 DEF OrderBooks
      <3> QED BY <1>3, <1>6, <2>1, <2>5, <3>2, <3>3, <3>4, <3>5, <3>6 DEF Legal
    <2> QED BY <2>4, <2>5
  <1>8. ASSUME NEW s \in cancelled, NEW k \in DOMAIN cart[about[s]] PROVE CancelBooks(s, k)'
    <2>1. CancelBooks(s, k) BY DEF NoFailureInv
    <2>2. /\ s \in Cancels /\ s \in Tasks /\ s \notin Orders /\ about[s] \in Orders
          /\ pc[s] \in {"release", "announce", "done", "refused"} /\ pc[about[s]] # "idle"
      BY <1>1, CancelledFacts DEF Control
    <2>3. /\ k \in Lines /\ k \in Nat \ {0} /\ k =< Len(cart[about[s]])
      BY <2>2, CartFacts
    <2>4. OnSale(about[s], k)' <=> OnSale(about[s], k) BY <1>2 DEF OnSale, Listed
    <2>5. CASE s # t BY <1>2, <1>4, <2>1, <2>2, <2>4, <2>5 DEF CancelBooks, Ahead
    <2>6. CASE s = t
      <3>1. pc[t] = "release" /\ last[t] = Len(cart[about[t]])
        BY <1>1, <1>2, <2>2, <2>6 DEF Calling, Control
      <3>2. CASE p = "release"
        <4>1. i = at[t] + 1 /\ c = "sent" BY <1>3, <3>1, <3>2 DEF Legal
        <4>2. ~Ahead(s, k)' => ~Ahead(s, k) BY <1>2, <1>4, <1>6, <2>3, <2>6, <4>1 DEF Ahead
        <4> QED BY <1>2, <1>4, <2>1, <2>4, <2>6, <3>1, <3>2, <4>2 DEF CancelBooks
      <3>3. CASE p # "release"
        <4>1. p = "announce" /\ at[t] = last[t]
          BY <1>3, <1>5, <1>6, <3>1, <3>3 DEF Legal
        <4>2. ~Ahead(s, k) BY <1>2, <1>6, <2>3, <2>6, <3>1, <4>1 DEF Ahead
        <4> QED BY <1>2, <2>1, <2>4, <4>2 DEF CancelBooks
      <3> QED BY <3>2, <3>3
    <2> QED BY <2>5, <2>6
  <1> QED BY <1>2, <1>7, <1>8 DEF NoFailureInv

(* A new request has booked nothing. *)
LEMMA CreateBooks ==
  ASSUME SagaInv, NoFailureInv, NEW o \in Orders, NEW c \in Carts, Create(o, c)
  PROVE  NoFailureInv'
  <1>1. TypeOK /\ Control /\ o \in Tasks BY TaskKinds DEF SagaInv
  <1>2. /\ pc[o] = "idle" /\ pc'[o] = "reserve"
        /\ \A s \in Tasks : s # o => /\ pc'[s] = pc[s] /\ at'[s] = at[s] /\ last'[s] = last[s]
                                     /\ call'[s] = call[s]
        /\ \A q \in Orders : q # o => cart'[q] = cart[q]
        /\ phase' = phase /\ status' = status /\ about' = about
        /\ strays' = strays /\ faults' = faults /\ cancelled' = cancelled
        /\ taken' = taken /\ returned' = returned
    BY <1>1 DEF Create, CallFrom, Goto, TypeOK, warehouseVars, history
  <1> SUFFICES ASSUME faults = 0 PROVE NoFailureInv'
    BY <1>2 DEF NoFailureInv
  <1>3. ASSUME NEW q \in Orders, NEW k \in DOMAIN cart'[q] PROVE OrderBooks(q, k)'
    <2>1. CASE q = o BY <1>2, <2>1 DEF OrderBooks
    <2>2. CASE q # o
      <3>1. k \in DOMAIN cart[q] /\ q \in Tasks BY <1>2, <2>2, TaskKinds
      <3>2. OrderBooks(q, k) BY <3>1 DEF NoFailureInv
      <3> QED BY <1>2, <2>2, <3>1, <3>2 DEF OrderBooks, OnSale, Listed, Ahead
    <2> QED BY <2>1, <2>2
  <1>4. ASSUME NEW s \in cancelled, NEW k \in DOMAIN cart'[about[s]] PROVE CancelBooks(s, k)'
    <2>1. s \in Tasks /\ s # o /\ about[s] \in Orders /\ status[about[s]] # "absent"
      BY CancelledFacts
    <2>2. about[s] # o BY <1>1, <1>2, <2>1 DEF Control
    <2>3. cart'[about[s]] = cart[about[s]] BY <1>2, <2>1, <2>2
    <2>4. CancelBooks(s, k) BY <2>3 DEF NoFailureInv
    <2> QED BY <1>2, <2>1, <2>3, <2>4 DEF CancelBooks, OnSale, Listed, Ahead
  <1> QED BY <1>2, <1>3, <1>4 DEF NoFailureInv

(* Neither has a cancellation or an update that reads its row. *)
LEMMA LoadBooks ==
  ASSUME SagaInv, NoFailureInv, NEW t \in Cancels \cup Updates, NEW o \in Orders,
         NEW s \in OrderStatuses, Load(t, o, s)
  PROVE  NoFailureInv'
  <1>1. TypeOK /\ Control /\ t \in Tasks /\ t \notin Orders BY TaskKinds DEF SagaInv
  <1>2. /\ pc[t] = "idle" /\ \A u \in Tasks : u # t => pc'[u] = pc[u] /\ about'[u] = about[u]
        /\ at' = at /\ last' = last /\ call' = call
        /\ phase' = phase /\ status' = status /\ cart' = cart
        /\ strays' = strays /\ faults' = faults /\ cancelled' = cancelled
        /\ taken' = taken /\ returned' = returned
    BY <1>1 DEF Load, Goto, TypeOK, warehouseVars, tableVars, history
  <1>3. t \notin cancelled BY <1>2, CancelledFacts
  <1> SUFFICES ASSUME faults = 0 PROVE NoFailureInv'
    BY <1>2 DEF NoFailureInv
  <1>4. ASSUME NEW q \in Orders, NEW k \in DOMAIN cart[q] PROVE OrderBooks(q, k)'
    <2>1. OrderBooks(q, k) /\ q \in Tasks /\ q # t BY <1>1, TaskKinds DEF NoFailureInv
    <2> QED BY <1>2, <2>1 DEF OrderBooks, OnSale, Listed, Ahead
  <1>5. ASSUME NEW u \in cancelled, NEW k \in DOMAIN cart[about'[u]] PROVE CancelBooks(u, k)'
    <2>1. u \in Tasks /\ u # t BY <1>3, CancelledFacts
    <2>2. about'[u] = about[u] BY <1>2, <2>1
    <2>3. CancelBooks(u, k) BY <2>2 DEF NoFailureInv
    <2> QED BY <1>2, <2>1, <2>2, <2>3 DEF CancelBooks, OnSale, Listed, Ahead
  <1> QED BY <1>2, <1>4, <1>5 DEF NoFailureInv

(* Persist, Announce and CommitUpdate. *)
LEMMA TableBooks ==
  ASSUME SagaInv, NoFailureInv, NEW t \in Tasks,
         (t \in Orders /\ Persist(t)) \/ Announce(t) \/ CommitUpdate(t)
  PROVE  NoFailureInv'
  <1>1. TypeOK /\ Control BY DEF SagaInv
  <1>2. /\ pc[t] \in {"persist", "announce", "commit"} /\ pc'[t] \in {"announce", "done"}
        /\ \A s \in Tasks : s # t => pc'[s] = pc[s]
        /\ phase' = phase /\ cart' = cart /\ about' = about
        /\ at' = at /\ last' = last /\ call' = call
        /\ strays' = strays /\ faults' = faults /\ cancelled' = cancelled
        /\ taken' = taken /\ returned' = returned
    BY <1>1 DEF Persist, Announce, CommitUpdate, Goto, TypeOK, warehouseVars, tableVars, history
  <1>3. \A o \in Orders : pc'[o] = "refused" => o # t BY <1>2
  <1>4. \A o \in Orders : o # t /\ status[o] = "absent" => status'[o] = "absent"
    <2>1. CASE t \in Orders /\ Persist(t) BY <1>1, <2>1 DEF Persist, TypeOK
    <2>2. CASE Announce(t) BY <2>2 DEF Announce, tableVars
    <2>3. CASE CommitUpdate(t)
      <3>1. t \in Tasks \ Orders BY <2>3, TaskKinds DEF CommitUpdate
      <3> QED BY <1>1, <2>3, <3>1, StatusSet DEF CommitUpdate
    <2> QED BY <2>1, <2>2, <2>3
  <1> SUFFICES ASSUME faults = 0 PROVE NoFailureInv'
    BY <1>2 DEF NoFailureInv
  <1>5. ASSUME NEW q \in Orders, NEW k \in DOMAIN cart[q] PROVE OrderBooks(q, k)'
    <2>1. OrderBooks(q, k) /\ q \in Tasks BY TaskKinds DEF NoFailureInv
    <2>2. CASE q = t BY <1>2, <2>2 DEF OrderBooks
    <2>3. CASE q # t BY <1>2, <1>4, <2>1, <2>3 DEF OrderBooks, OnSale, Listed, Ahead
    <2> QED BY <2>2, <2>3
  <1>6. ASSUME NEW u \in cancelled, NEW k \in DOMAIN cart[about[u]] PROVE CancelBooks(u, k)'
    <2>1. CancelBooks(u, k) /\ u \in Tasks BY CancelledFacts DEF NoFailureInv
    <2>2. pc'[u] = "release" <=> pc[u] = "release" BY <1>2, <2>1
    <2> QED BY <1>2, <2>1, <2>2 DEF CancelBooks, OnSale, Listed, Ahead
  <1> QED BY <1>2, <1>5, <1>6 DEF NoFailureInv

(* A cancellation that commits has all lines ahead of it. *)
LEMMA CommitCancelBooks ==
  ASSUME SagaInv, NoFailureInv, NEW t \in Tasks, CommitCancel(t)
  PROVE  NoFailureInv'
  <1>1. TypeOK /\ Control /\ t \in Tasks \ Orders BY TaskKinds DEF SagaInv, CommitCancel
  <1>2. /\ pc[t] = "commit" /\ pc'[t] = "release" /\ SetStatus(t) /\ at'[t] = 1 /\ call'[t] = "sent"
        /\ \A s \in Tasks : s # t => /\ pc'[s] = pc[s] /\ at'[s] = at[s] /\ last'[s] = last[s]
                                     /\ call'[s] = call[s]
        /\ phase' = phase /\ cart' = cart /\ about' = about
        /\ strays' = strays /\ faults' = faults /\ cancelled' = cancelled \cup {t}
        /\ taken' = taken /\ returned' = returned
    BY <1>1 DEF CommitCancel, CallFrom, Goto, TypeOK, warehouseVars
  <1>3. /\ about[t] \in Orders /\ status[about[t]] # "absent"
        /\ \A o \in Orders : status'[o] = "absent" <=> status[o] = "absent"
    BY <1>1, <1>2, StatusSet
  <1> SUFFICES ASSUME faults = 0 PROVE NoFailureInv'
    BY <1>2 DEF NoFailureInv
  <1>4. ASSUME NEW q \in Orders, NEW k \in DOMAIN cart[q] PROVE OrderBooks(q, k)'
    <2>1. OrderBooks(q, k) /\ q \in Tasks /\ q # t BY <1>1, TaskKinds DEF NoFailureInv
    <2> QED BY <1>2, <1>3, <2>1 DEF OrderBooks, OnSale, Listed, Ahead
  <1>5. ASSUME NEW u \in cancelled \cup {t}, NEW k \in DOMAIN cart[about[u]]
        PROVE  CancelBooks(u, k)'
    <2>1. CASE u = t
      <3>1. k \in Nat \ {0} BY <1>3, <2>1, CartFacts
      <3>2. Ahead(u, k)' BY <1>2, <2>1, <3>1 DEF Ahead
      <3> QED BY <1>2, <2>1, <3>2 DEF CancelBooks
    <2>2. CASE u # t
      <3>1. u \in cancelled BY <2>2
      <3>2. CancelBooks(u, k) /\ u \in Tasks BY <3>1, CancelledFacts DEF NoFailureInv
      <3> QED BY <1>2, <2>2, <3>2 DEF CancelBooks, OnSale, Listed, Ahead
    <2> QED BY <2>1, <2>2
  <1> QED BY <1>2, <1>4, <1>5 DEF NoFailureInv

(* A product off the shelf is off the books. *)
LEMMA StaffBooks ==
  ASSUME SagaInv, NoFailureInv, Staff
  PROVE  NoFailureInv'
  <1>1. \A p \in Products : Listed(p)' => Listed(p) BY StaffFacts DEF SagaInv
  <1>2. /\ status' = status /\ cart' = cart /\ pc' = pc /\ about' = about /\ at' = at
        /\ last' = last /\ call' = call /\ faults' = faults /\ cancelled' = cancelled
        /\ strays' = strays /\ taken' = taken /\ returned' = returned
    BY DEF Staff, tableVars, taskVars, history
  <1> SUFFICES ASSUME faults = 0 PROVE NoFailureInv'
    BY <1>2 DEF NoFailureInv
  <1>3. ASSUME NEW q \in Orders, NEW k \in DOMAIN cart[q] PROVE OrderBooks(q, k)'
    <2>1. OrderBooks(q, k) BY DEF NoFailureInv
    <2>2. OnSale(q, k)' => OnSale(q, k) BY <1>1, <1>2, CartFacts DEF OnSale
    <2> QED BY <1>2, <2>1, <2>2 DEF OrderBooks, Ahead
  <1>4. ASSUME NEW u \in cancelled, NEW k \in DOMAIN cart[about[u]] PROVE CancelBooks(u, k)'
    <2>1. CancelBooks(u, k) /\ about[u] \in Orders BY CancelledFacts DEF NoFailureInv
    <2>2. OnSale(about[u], k)' => OnSale(about[u], k) BY <1>1, <1>2, <2>1, CartFacts DEF OnSale
    <2> QED BY <1>2, <2>1, <2>2 DEF CancelBooks, Ahead
  <1> QED BY <1>2, <1>3, <1>4 DEF NoFailureInv

(* With the invariant, the books are inductive. *)
LEMMA NextBooks == SagaInv /\ NoFailureInv /\ [Next]_vars => NoFailureInv'
  <1> SUFFICES ASSUME SagaInv, NoFailureInv, [Next]_vars PROVE NoFailureInv'
    OBVIOUS
  <1>1. ASSUME NEW o \in Orders, NEW c \in Carts, Create(o, c) PROVE NoFailureInv'
    BY <1>1, CreateBooks
  <1>2. ASSUME NEW t \in Cancels, NEW o \in Orders, Load(t, o, "CANCELLED") PROVE NoFailureInv'
    BY <1>2, LoadBooks DEF OrderStatuses
  <1>3. ASSUME NEW t \in Updates, NEW o \in Orders, NEW s \in OrderStatuses, Load(t, o, s)
        PROVE  NoFailureInv'
    BY <1>3, LoadBooks
  <1>4. ASSUME NEW t \in Tasks, Work(t) PROVE NoFailureInv'
    <2>1. CASE Reach(t) BY <2>1, ReachBooks
    <2>2. CASE Reserved(t) \/ NotReserved(t) \/ Released(t) BY <2>2, AnsweredBooks
    <2>3. CASE (t \in Orders /\ Persist(t)) \/ Announce(t) \/ CommitUpdate(t) BY <2>3, TableBooks
    <2>4. CASE CommitCancel(t) BY <2>4, CommitCancelBooks
    <2> QED BY <1>4, <2>1, <2>2, <2>3, <2>4 DEF Work
  <1>5. ASSUME NEW t \in Tasks, TimeOut(t) \/ CommitFails(t) \/ Crash(t) PROVE NoFailureInv'
    <2>1. Fault BY <1>5 DEF TimeOut, CommitFails, Crash
    <2>2. faults' # 0 BY <2>1, FaultCount DEF SagaInv
    <2> QED BY <2>2 DEF NoFailureInv
  <1>6. ASSUME NEW c \in strays, ReachLate(c) PROVE NoFailureInv'
    BY <1>6 DEF NoFailureInv, ReachLate
  <1>7. CASE Staff BY <1>7, StaffBooks
  <1>8. CASE UNCHANGED vars
    <2>1. /\ phase' = phase /\ status' = status /\ cart' = cart /\ pc' = pc /\ about' = about
          /\ at' = at /\ last' = last /\ call' = call /\ faults' = faults
          /\ cancelled' = cancelled /\ strays' = strays /\ taken' = taken /\ returned' = returned
      BY <1>8 DEF vars, warehouseVars, tableVars, taskVars, history
    <2> QED BY <2>1 DEF NoFailureInv, OrderBooks, CancelBooks, OnSale, Listed, Ahead
  <1> QED BY <1>1, <1>2, <1>3, <1>4, <1>5, <1>6, <1>7, <1>8 DEF Next

-----------------------------------------------------------------------------
(* The theorems *)
LEMMA SagaAlways == Spec => []SagaInv
  <1>1. Init => SagaInv BY InitSaga
  <1> QED BY <1>1, NextSaga, PTL DEF Spec

(* TypeOK: every variable of the order service has its type, and a request that waits
   for the product service waits about an item of its order. *)
THEOREM OrdersTyped == Spec => []TypeOK
  <1>1. SagaInv => TypeOK BY DEF SagaInv
  <1> QED BY <1>1, SagaAlways, PTL

(* create_order: an order row exists only if each of its items was reserved exactly once,
   and OrderCreated is published only of an order that exists. *)
THEOREM PersistedReserved == Spec => []PersistedIsReserved
  <1>1. SagaInv => PersistedIsReserved
    <2> SUFFICES ASSUME SagaInv, NEW o \in Orders
                 PROVE  /\ status[o] # "absent" => \A i \in DOMAIN cart[o] : taken[o][i] = 1
                        /\ <<"OrderCreated", o>> \in announced => status[o] # "absent"
      BY DEF PersistedIsReserved
    <2>1. \A i \in DOMAIN cart[o] : i \in Lines BY CartFacts
    <2> QED BY <2>1 DEF SagaInv, TakenInv, AnnouncedInv
  <1> QED BY <1>1, SagaAlways, PTL

(* The compensation of create_order returns only what the request reserved, and nothing
   of an order that exists, not even by a call that arrives late. *)
THEOREM CompensationBounded == Spec => []CompensatesOnlyReserved
  <1>1. SagaInv => CompensatesOnlyReserved
    BY TaskKinds DEF SagaInv, ReturnedInv, CompensatesOnlyReserved
  <1> QED BY <1>1, SagaAlways, PTL

(* cancel_order: items of an order come back only by a committed cancellation, at most
   once for each, and OrderCancelled is published only of a committed one. *)
THEOREM ReturnsCommitted == Spec => []ReturnsPerCancel
  <1>1. SagaInv => ReturnsPerCancel
    <2> SUFFICES ASSUME SagaInv PROVE ReturnsPerCancel
      OBVIOUS
    <2>1. ASSUME NEW t \in Cancels, NEW i \in Lines
          PROVE  returned[t][i] =< IF t \in cancelled /\ i \in DOMAIN cart[about[t]] THEN 1 ELSE 0
      BY TaskKinds DEF SagaInv, ReturnedInv
    <2> QED BY <2>1 DEF SagaInv, AnnouncedInv, ReturnsPerCancel
  <1> QED BY <1>1, SagaAlways, PTL

(* create_order and cancel_order: without failures, when no request is under way, an order
   cancelled at most once balances: a refused one holds nothing, an order keeps its units
   whatever its status is, until its cancellation was committed, and then holds none. *)
THEOREM BooksBalanced == Spec => []BooksBalance
  <1>1. Init => SagaInv /\ NoFailureInv BY InitSaga
  <1>2. SagaInv /\ NoFailureInv => BooksBalance
    <2> SUFFICES ASSUME SagaInv, NoFailureInv, faults = 0, Quiet,
                        NEW o \in Orders, NEW i \in DOMAIN cart[o], Listed(cart[o][i].product)
                 PROVE  /\ status[o] = "absent" => taken[o][i] = returned[o][i]
                        /\ status[o] # "absent" /\ CancelsOf(o) = {} =>
                             /\ taken[o][i] = 1
                             /\ \A t \in Cancels \cup {o} : about[t] = o => returned[t][i] = 0
                        /\ \A t \in CancelsOf(o) : taken[o][i] = returned[o][i] + returned[t][i]
      BY DEF BooksBalance
    <2>1. /\ i \in Lines /\ o \in Tasks /\ pc[o] \in {"idle", "done", "refused"}
          /\ OnSale(o, i) /\ OrderBooks(o, i)
      BY CartFacts, TaskKinds DEF Quiet, NoFailureInv, OnSale
    <2>2. /\ taken[o][i] \in {0, 1} /\ returned[o][i] \in {0, 1}
          /\ pc[o] = "idle" => taken[o][i] = 0 /\ returned[o][i] = 0 /\ status[o] = "absent"
          /\ pc[o] = "done" => status[o] # "absent"
          /\ status[o] # "absent" => taken[o][i] = 1 /\ returned[o][i] = 0
      BY <2>1 DEF SagaInv, TakenInv, ReturnedInv, Control
    <2>3. status[o] = "absent" => taken[o][i] = returned[o][i]
      BY <2>1, <2>2 DEF OrderBooks
    <2>4. ASSUME status[o] # "absent", CancelsOf(o) = {}, NEW t \in Cancels \cup {o}, about[t] = o
          PROVE  returned[t][i] = 0
      <3>1. CASE t = o BY <2>2, <2>4, <3>1
      <3>2. CASE t \in Cancels
        <4>1. t \notin cancelled BY <2>4 DEF CancelsOf
        <4> QED BY <2>1, <3>2, <4>1, TaskKinds DEF SagaInv, ReturnedInv
      <3> QED BY <3>1, <3>2
    <2>5. ASSUME NEW t \in CancelsOf(o) PROVE taken[o][i] = returned[o][i] + returned[t][i]
      <3>1. t \in cancelled /\ about[t] = o BY DEF CancelsOf
      <3>2. CancelBooks(t, i) /\ t \in Tasks BY <3>1, CancelledFacts DEF NoFailureInv
      <3>3. status[o] # "absent" BY <3>1, CancelledFacts
      <3>4. pc[t] # "release" BY <3>2 DEF Quiet
      <3>5. returned[t][i] = 1 BY <2>1, <3>1, <3>2, <3>4 DEF CancelBooks
      <3> QED BY <2>2, <3>3, <3>5
    <2> QED BY <2>2, <2>3, <2>4, <2>5
  <1> QED BY <1>1, <1>2, NextSaga, NextBooks, PTL DEF Spec
=============================================================================
