------------------------------- MODULE Reviews -------------------------------
(***************************************************************************)
(* Review (reviews/review) with its projections, for one customer's        *)
(* reviews of one product.  SubmitReview looks for a review that stands    *)
(* and only then adds one: submissions that overlap do not see each other. *)
(* Texts, images, reasons and dates are left out.                          *)
(***************************************************************************)
EXTENDS ReadModel, UnitSums

CONSTANTS
  ReviewIds,     \* uuid4 values reviews may get
  Voters,        \* customers other than the author
  Ratings,       \* ratings a customer may give
  Submissions,   \* SubmitReview commands that may be in progress at once
  MaxReactions   \* bound of the model: votes, reports and replies to all reviews

ASSUME ReviewsAssumption ==
  Ratings \subseteq 1..5 /\ Ratings # {} /\ IsFiniteSet(Submissions)

VARIABLES
  reviews,      \* review id -> the customer's review, NoReview where there is none
  submissions,  \* where each SubmitReview is
  purchased,    \* VerifiedPurchases has rows of this customer and product
  overlapped    \* a submission looked for reviews while another was in progress

review_vars == <<reviews, submissions, purchased, overlapped>>

reviews_vars == <<review_vars, read_vars>>

------------------------------------------------------------------------------
NoReview == [status |-> "None", rating |-> 0, verified |-> FALSE, notes |-> FALSE,
             votes |-> [v \in Voters |-> "None"], helpful_count |-> 0, unhelpful_count |-> 0,
             report_count |-> 0, replied |-> FALSE, is_edited |-> FALSE]

(* _VALID_TRANSITIONS. *)
MayBecome == [Pending |-> {"Published", "Rejected"}, Published |-> {"Removed"},
              Rejected |-> {"Pending"}, Removed |-> {}, None |-> {}]

Written == {id \in ReviewIds : reviews[id].status # "None"}

Standing == {id \in Written : reviews[id].status # "Removed"}

(* Mutant: only reviews that are published stand in the way.               *)
Standing_Published == {id \in Written : reviews[id].status = "Published"}

Votes(review, vote_type) == {v \in Voters : review.votes[v] = vote_type}

Reactions(review) ==
  Cardinality(Voters \ Votes(review, "None")) + review.report_count
    + (IF review.replied THEN 1 ELSE 0)

SomeReactions == Total(ReviewIds, [id \in ReviewIds |-> Reactions(reviews[id])])

(* What the events say of the review.                                      *)
Told(type, id, review) ==
  [type |-> type, id |-> id, rating |-> review.rating, report_count |-> review.report_count,
   helpful_count |-> review.helpful_count, unhelpful_count |-> review.unhelpful_count]

Write(id, review, type) ==
  /\ reviews' = [reviews EXCEPT ![id] = review]
  /\ Publish(<<Told(type, id, review)>>)
  /\ UNCHANGED purchased

------------------------------------------------------------------------------
(* OrderDeliveredSubscriber adds a row for every item of the order each    *)
(* time it is given the event; those after the first change nothing.       *)
OrderDeliveredToReviewer ==
  /\ ~purchased
  /\ purchased' = TRUE
  /\ UNCHANGED <<reviews, submissions, overlapped, read_vars>>

InProgress == {s \in Submissions : submissions[s].pc = "checked"}

(* Mutant: reviews that wait for a moderator, or were rejected, are missed.*)
CheckReviews_Published(s) ==
  /\ submissions[s].pc = "idle"
  /\ Standing_Published = {}
  /\ submissions' = [submissions EXCEPT ![s] = [pc |-> "checked", verified |-> purchased]]
  /\ overlapped' = (overlapped \/ InProgress # {})
  /\ UNCHANGED <<reviews, purchased, read_vars>>

(* SubmitReview up to its queries: it goes on when no review stands.       *)
CheckReviews(s) ==
  /\ submissions[s].pc = "idle"
  /\ Standing = {}
  /\ submissions' = [submissions EXCEPT ![s] = [pc |-> "checked", verified |-> purchased]]
  /\ overlapped' = (overlapped \/ InProgress # {})
  /\ UNCHANGED <<reviews, purchased, read_vars>>

(* The rest of SubmitReview.                                               *)
submit(s) ==
  \E id \in ReviewIds \ Written, rating \in Ratings :
    /\ submissions[s].pc = "checked"
    /\ Write(id, [NoReview EXCEPT !.status = "Pending", !.rating = rating,
                                  !.verified = submissions[s].verified], "ReviewSubmitted")
    /\ submissions' = [submissions EXCEPT ![s] = [pc |-> "idle", verified |-> FALSE]]
    /\ UNCHANGED overlapped

SubmitReview == \E s \in Submissions : CheckReviews(s) \/ submit(s)

------------------------------------------------------------------------------
Change(id, review, type) ==
  /\ Write(id, review, type)
  /\ UNCHANGED <<submissions, overlapped>>

(* By its author; a rejected review goes back to the moderators.           *)
edit(id, rating) ==
  /\ reviews[id].status \in {"Pending", "Rejected"}
  /\ Change(id, [reviews[id] EXCEPT !.status = "Pending", !.rating = rating,
                                     !.is_edited = TRUE], "ReviewEdited")

(* Without the moderator's notes, which may be left out.                   *)
approve(id) ==
  /\ "Published" \in MayBecome[reviews[id].status]
  /\ Change(id, [reviews[id] EXCEPT !.status = "Published", !.notes = FALSE], "ReviewApproved")

reject(id) ==
  /\ "Rejected" \in MayBecome[reviews[id].status]
  /\ Change(id, [reviews[id] EXCEPT !.status = "Rejected", !.notes = TRUE], "ReviewRejected")

remove(id) ==
  /\ "Removed" \in MayBecome[reviews[id].status]
  /\ Change(id, [reviews[id] EXCEPT !.status = "Removed", !.notes = TRUE], "ReviewRemoved")

MayReact(id) == id \in Written /\ SomeReactions < MaxReactions

(* Once, whatever the status of the review, and never by its author.       *)
vote(id, v, vote_type) ==
  /\ MayReact(id)
  /\ reviews[id].votes[v] = "None"
  /\ Change(id,
             [reviews[id] EXCEPT
                !.votes[v] = vote_type,
                !.helpful_count = @ + (IF vote_type = "Helpful" THEN 1 ELSE 0),
                !.unhelpful_count = @ + (IF vote_type = "Unhelpful" THEN 1 ELSE 0)],
             "HelpfulVoteRecorded")

(* As often as one likes.                                                  *)
report(id) ==
  /\ MayReact(id)
  /\ Change(id, [reviews[id] EXCEPT !.report_count = @ + 1], "ReviewReported")

add_seller_reply(id) ==
  /\ MayReact(id)
  /\ reviews[id].status = "Published"
  /\ ~reviews[id].replied
  /\ Change(id, [reviews[id] EXCEPT !.replied = TRUE], "SellerReplyAdded")

ReviewCommand ==
  \E id \in ReviewIds :
    \/ \E rating \in Ratings : edit(id, rating)
    \/ approve(id) \/ reject(id) \/ remove(id) \/ report(id) \/ add_seller_reply(id)
    \/ \E v \in Voters, vote_type \in {"Helpful", "Unhelpful"} : vote(id, v, vote_type)

------------------------------------------------------------------------------
(* Projectors: what the projection is after event e, if it was r before.   *)
(* Its entry of a review is NoReviewRow where there is none.               *)

ReviewViews == {"moderation_queue", "product_rating", "product_reviews", "review_detail",
                "customer_reviews"}

NoReviewRow == [status |-> "None"]

IsListed(r, id) == r[id] # NoReviewRow

(* A review that is not in the queue is put there by a report, whatever    *)
(* its status; an edit is not handled.                                     *)
on_moderation_queue(r, e) ==
  CASE e.type = "ReviewSubmitted" ->
         [r EXCEPT ![e.id] = [status |-> "Pending", report_count |-> 0]]
    [] e.type \in {"ReviewApproved", "ReviewRejected", "ReviewRemoved"} ->
         [r EXCEPT ![e.id] = NoReviewRow]
    [] e.type = "ReviewReported" ->
         [r EXCEPT ![e.id] = [status |-> IF IsListed(r, e.id) THEN @.status ELSE "Reported",
                              report_count |-> e.report_count]]
    [] OTHER -> r

(* Mutant: a removed review keeps its stars.                               *)
on_product_rating_Kept(r, e) ==
  CASE e.type = "ReviewApproved" ->
         [total |-> r.total + 1,
          distribution |-> [r.distribution EXCEPT ![e.rating] = @ + 1],
          verified |-> r.verified + (IF reviews[e.id].verified THEN 1 ELSE 0)]
    [] e.type = "ReviewRemoved" ->
         [r EXCEPT !.total = IF @ > 0 THEN @ - 1 ELSE 0]
    [] OTHER -> r

(* Removed reviews keep counting as verified.                              *)
on_product_rating(r, e) ==
  CASE e.type = "ReviewApproved" ->
         [total |-> r.total + 1,
          distribution |-> [r.distribution EXCEPT ![e.rating] = @ + 1],
          verified |-> r.verified + (IF reviews[e.id].verified THEN 1 ELSE 0)]
    [] e.type = "ReviewRemoved" ->
         [total |-> IF r.total > 0 THEN r.total - 1 ELSE 0,
          distribution |-> [r.distribution EXCEPT ![e.rating] = IF @ > 0 THEN @ - 1 ELSE 0],
          verified |-> r.verified]
    [] OTHER -> r

(* Votes and the reply are those of the review as it is now, and then of   *)
(* their events.                                                           *)
on_product_reviews(r, e) ==
  CASE e.type = "ReviewApproved" ->
         [r EXCEPT ![e.id] = [status |-> "Published", rating |-> e.rating,
                              helpful_count |-> reviews[e.id].helpful_count,
                              unhelpful_count |-> reviews[e.id].unhelpful_count,
                              replied |-> reviews[e.id].replied]]
    [] e.type = "ReviewRemoved" -> [r EXCEPT ![e.id] = NoReviewRow]
    [] e.type = "HelpfulVoteRecorded" /\ IsListed(r, e.id) ->
         [r EXCEPT ![e.id] = [@ EXCEPT !.helpful_count = e.helpful_count,
                                       !.unhelpful_count = e.unhelpful_count]]
    [] e.type = "SellerReplyAdded" /\ IsListed(r, e.id) -> [r EXCEPT ![e.id].replied = TRUE]
    [] OTHER -> r

(* The status that an event gives a review.                                *)
StatusAfterReviewEvent ==
  [ReviewSubmitted |-> "Pending", ReviewEdited |-> "Pending", ReviewApproved |-> "Published",
   ReviewRejected |-> "Rejected", ReviewRemoved |-> "Removed"]

on_review_detail(r, e) ==
  CASE e.type = "ReviewSubmitted" ->
         [r EXCEPT ![e.id] = [status |-> "Pending", rating |-> e.rating, helpful_count |-> 0,
                              unhelpful_count |-> 0, report_count |-> 0, replied |-> FALSE,
                              is_edited |-> FALSE]]
    [] e.type = "ReviewEdited" ->
         [r EXCEPT ![e.id] = [@ EXCEPT !.status = "Pending", !.rating = e.rating,
                                       !.is_edited = TRUE]]
    [] e.type = "HelpfulVoteRecorded" ->
         [r EXCEPT ![e.id] = [@ EXCEPT !.helpful_count = e.helpful_count,
                                       !.unhelpful_count = e.unhelpful_count]]
    [] e.type = "ReviewReported" -> [r EXCEPT ![e.id].report_count = e.report_count]
    [] e.type = "SellerReplyAdded" -> [r EXCEPT ![e.id].replied = TRUE]
    [] OTHER -> [r EXCEPT ![e.id].status = StatusAfterReviewEvent[e.type]]

on_customer_reviews(r, e) ==
  CASE e.type \in {"ReviewSubmitted", "ReviewEdited"} ->
         [r EXCEPT ![e.id] = [status |-> "Pending", rating |-> e.rating]]
    [] e.type \in {"ReviewApproved", "ReviewRejected", "ReviewRemoved"} ->
         [r EXCEPT ![e.id].status = StatusAfterReviewEvent[e.type]]
    [] OTHER -> r

ReviewProjected(r, e) ==
  CASE view = "moderation_queue" -> on_moderation_queue(r, e)
    [] view = "product_rating" -> on_product_rating(r, e)
    [] view = "product_reviews" -> on_product_reviews(r, e)
    [] view = "review_detail" -> on_review_detail(r, e)
    [] view = "customer_reviews" -> on_customer_reviews(r, e)

ReviewRow ==
  IF view = "product_rating"
  THEN [total |-> 0, distribution |-> [r \in Ratings |-> 0], verified |-> 0]
  ELSE [id \in ReviewIds |-> NoReviewRow]

------------------------------------------------------------------------------
ReviewsEmpty ==
  /\ reviews = [id \in ReviewIds |-> NoReview]
  /\ submissions = [s \in Submissions |-> [pc |-> "idle", verified |-> FALSE]]
  /\ purchased = FALSE
  /\ overlapped = FALSE

ReviewsInit ==
  /\ ReviewsEmpty
  /\ view \in ReviewViews
  /\ row = ReviewRow
  /\ unread = << >>
  /\ redelivered = FALSE

ReviewProjection == Project(ReviewProjected(row, Head(unread))) /\ UNCHANGED review_vars

ReviewsNext == OrderDeliveredToReviewer \/ SubmitReview \/ ReviewCommand \/ ReviewProjection

ReviewsSpec == ReviewsInit /\ [][ReviewsNext]_reviews_vars

------------------------------------------------------------------------------
Published == {id \in Written : reviews[id].status = "Published"}

(* A customer has one review of a product that is not removed, however     *)
(* often reviews are rejected, edited and removed, as long as submissions  *)
(* do not overlap; SubmitReview does not enforce it otherwise.  A review   *)
(* is a verified purchase only where the delivery of an order said so.     *)
OneReviewStands ==
  /\ ~overlapped => Cardinality(Standing) + Cardinality(InProgress) <= 1
  /\ Cardinality(Standing) <= Cardinality(Submissions)
  /\ \A id \in Written : reviews[id].verified => purchased

Listed(id) == IsListed(row, id)

(* Every review that waits for a moderator is in the queue, except one     *)
(* that was rejected and edited: only a report brings that one back.       *)
QueueFollows ==
  \A id \in ReviewIds :
    /\ reviews[id].status = "Pending" /\ ~reviews[id].notes =>
         row[id] = [status |-> "Pending", report_count |-> reviews[id].report_count]
    /\ Listed(id) /\ row[id].status = "Pending" =>
         reviews[id].status = "Pending" /\ ~reviews[id].notes
    /\ Listed(id) => row[id].report_count = reviews[id].report_count
    /\ Listed(id) /\ row[id].status = "Reported" => row[id].report_count > 0

(* Only the verified count drifts, by the verified reviews since removed.  *)
RatingFollows ==
  ~redelivered =>
    /\ row.total = Cardinality(Published)
    /\ \A r \in Ratings :
         row.distribution[r] = Cardinality({id \in Published : reviews[id].rating = r})
    /\ row.verified >= Cardinality({id \in Published : reviews[id].verified})
    /\ row.verified <= Cardinality({id \in Written : reviews[id].verified})

SameVotes(id) ==
  /\ row[id].helpful_count = Cardinality(Votes(reviews[id], "Helpful"))
  /\ row[id].unhelpful_count = Cardinality(Votes(reviews[id], "Unhelpful"))
  /\ row[id].replied = reviews[id].replied

ProductReviewsFollow ==
  \A id \in ReviewIds :
    /\ Listed(id) = (id \in Published)
    /\ Listed(id) => row[id].rating = reviews[id].rating /\ SameVotes(id)

ReviewDetailFollows ==
  \A id \in ReviewIds :
    /\ Listed(id) = (id \in Written)
    /\ Listed(id) => /\ SameVotes(id)
                     /\ row[id].status = reviews[id].status
                     /\ row[id].rating = reviews[id].rating
                     /\ row[id].report_count = reviews[id].report_count
                     /\ row[id].is_edited = reviews[id].is_edited

CustomerReviewsFollow ==
  \A id \in Written : row[id] = [status |-> reviews[id].status, rating |-> reviews[id].rating]

(* The projections that caught up tell the truth about the reviews, with   *)
(* the exceptions above; stars count twice when an approval was handled    *)
(* twice.                                                                  *)
ReviewViewsFollow ==
  CaughtUp =>
    CASE view = "moderation_queue" -> QueueFollows
      [] view = "product_rating" -> RatingFollows
      [] view = "product_reviews" -> ProductReviewsFollow
      [] view = "review_detail" -> ReviewDetailFollows
      [] view = "customer_reviews" -> CustomerReviewsFollow
      [] OTHER -> TRUE
==============================================================================
