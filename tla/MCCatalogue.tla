---------------------------- MODULE MCCatalogue ----------------------------
(* An instance of Catalogue for TLC.                                       *)
EXTENDS Catalogue, TLC

CONSTANTS p1, p2, c1, x, y, z, k, l

(* Two products are created with and without category and barcode,         *)
(* exchange both their keys, are given one new SKU, and are deleted.       *)
Update(p, sku, barcode, c) == Request("product.update", p, sku, barcode, c)
Menu ==
  {Request("product.create", None, x, k, c1),
   Request("product.create", None, y, None, None),
   Update(p1, x, l, None), Update(p1, y, k, c1), Update(p1, z, l, None),
   Update(p2, y, l, c1), Update(p2, x, k, None), Update(p2, z, k, None),
   Request("product.delete", p1, None, None, None),
   Request("product.delete", p2, None, None, None),
   Request("category.delete", None, None, None, c1)}

Symmetry == Permutations(Sessions)
=============================================================================
