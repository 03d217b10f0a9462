------------------------------- MODULE Tenancy --------------------------------
(* The tenants of the platform, each a business, and their customers. *)

CONSTANTS Tenants, Customers
=============================================================================
