-------------------------------- MODULE ErrorPath --------------------------------
(***************************************************************************)
(* From an exception in a handler to the HTTP status a client sees: the    *)
(* exception filters of auth-ms and main-api, which put every exception in *)
(* the form {origin, code, error: {statusCode, message, type}, message},   *)
(* and the filter of the gateway, which answers what arrives in that form. *)
(* Of the messages only the status is kept.                                *)
(***************************************************************************)
EXTENDS Naturals

(* RpcExceptions carry a status of their own. *)
RpcStatus == [ UnauthorizedRpcException   |-> 401,
               BadRequestRpcException     |-> 400,
               InternalServerRpcException |-> 500 ]

(* What TypeORM, the JWT library, the validation pipe, the drivers and the *)
(* mailer throw.                                                           *)
TypeOrmErrors == {"TransactionNotStartedError", "QueryFailedError", "UniqueViolation",
                  "EntityNotFoundError", "UpdateValuesMissingError"}
TokenErrors == {"TokenExpiredError", "JsonWebTokenError"}
OtherErrors == {"HttpException", "AggregateError", "Error"}

Exceptions == (DOMAIN RpcStatus) \cup TypeOrmErrors \cup TokenErrors \cup OtherErrors

NoStatus == 0

\* catch of RpcGlobalExceptionFilter.  A violated unique column of a user is a
\* QueryFailedError whose status is overwritten with the message.
statusCode(exception) ==
    IF exception \in DOMAIN RpcStatus THEN RpcStatus[exception]
    ELSE IF exception \in {"TransactionNotStartedError", "QueryFailedError",
                           "EntityNotFoundError"} THEN 400
    ELSE NoStatus

\* Mutant: the status is passed on as it came.
answerAsIs(exception) == statusCode(exception)

\* catch of GlobalExceptionsFilter, for what comes back from a service.
answer(exception) ==
    IF statusCode(exception) = NoStatus THEN 500 ELSE statusCode(exception)

\* What the requests of UserController come back with: main-api has the filter of
\* auth-ms; its services throw RpcExceptions and let TypeORM's errors through.
MainApiErrors == {"BadRequestRpcException", "QueryFailedError", "UniqueViolation",
                  "EntityNotFoundError"}
MainApiReplies == {200} \cup {answer(exception) : exception \in MainApiErrors}

\* The same filter, for what the gateway itself throws: its guards' HttpExceptions
\* keep their status, an expired access token is a token error, and any other error
\* is one of the server.
gatewayStatus == [ UnauthorizedException |-> 401, ForbiddenException |-> 403,
                   BadRequestException |-> 400, TokenExpiredError |-> 401,
                   ThrottlerException |-> 429, InternalServerErrorException |-> 500,
                   Error |-> 500 ]

Statuses == {200, 400, 401, 403, 429, 500}
================================================================================
