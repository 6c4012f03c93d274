---------------------------- MODULE MCStorefront ----------------------------
(***************************************************************************)
(* Instances of photo uploads, the public catalogue and what customers     *)
(* leave behind, for TLC.  A behaviour is about one of them: they share no *)
(* variable and no property relates them, so their interleavings would     *)
(* show nothing.  For the same reason a behaviour is about the visitor of  *)
(* the catalogue or about saved vehicles.                                  *)
(***************************************************************************)
EXTENDS Media, Catalogue, Customers, TLC

CONSTANTS v1, v2, v3, v4, d1, g1, g2, l1

VARIABLE topic  \* what this behaviour is about

Topics == {"media", "visitor", "saved", "searches", "enquiries", "drives"}

storefrontVars == <<mediaVars, catalogueVars, customerVars, topic>>

StorefrontInit == MediaInit /\ CatalogueInit /\ CustomersInit /\ topic \in Topics

StorefrontNext ==
  /\ UNCHANGED topic
  /\ \/ topic = "media" /\ MediaNext /\ UNCHANGED <<catalogueVars, customerVars>>
     \/ topic = "visitor" /\ CatalogueNext /\ UNCHANGED <<mediaVars, customerVars, saved>>
     \/ topic = "saved" /\ CatalogueNext /\ UNCHANGED <<mediaVars, customerVars, visit.at>>
     \/ topic = "searches" /\ SearchNext /\ UNCHANGED <<mediaVars, catalogueVars>>
     \/ topic = "enquiries" /\ EnquiryNext /\ UNCHANGED <<mediaVars, catalogueVars>>
     \/ topic = "drives" /\ DriveNext /\ UNCHANGED <<mediaVars, catalogueVars>>

StorefrontSpec == StorefrontInit /\ [][StorefrontNext]_storefrontVars /\ MediaFairness

\* Every variable of the three modules stays in its type.
StorefrontTypeOK == MediaTypeOK /\ CatalogueTypeOK /\ CustomersTypeOK

-----------------------------------------------------------------------------
\* The vehicles: three of one body type, two of one price, one from a private seller.
BodyTypes == v1 :> "suv" @@ v2 :> "suv" @@ v3 :> "suv" @@ v4 :> "sedan"
Prices == v1 :> 10 @@ v2 :> 11 @@ v3 :> 13 @@ v4 :> 10
Dates ==
  v1 :> 3 @@ v2 :> 1 @@ v3 :> 2 @@ v4 :> 4 @@ d1 :> 1 @@ g1 :> 1 @@ g2 :> 2 @@ l1 :> 1
Sellers == v1 :> d1 @@ v2 :> None @@ v3 :> d1 @@ v4 :> d1

\* Everything; what matches two criteria; and one dealer's.
SomeQueries ==
  {AnyQuery, [AnyQuery EXCEPT !.group = {"suv"}, !.minPrice = 11],
   [AnyQuery EXCEPT !.dealer = d1, !.maxPrice = 12]}

SomeSizes ==
  [vehicle_sitemap |-> 3, dealers |-> 1, guides |-> 1, guide_sitemap |-> 2, charging |-> 2]
=============================================================================
